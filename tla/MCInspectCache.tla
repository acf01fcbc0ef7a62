--------------------------- MODULE MCInspectCache ---------------------------
(***************************************************************************)
(* Instances of InspectCache for TLC: requests that differ in the order of *)
(* their keys, in their durability, in how it is spelled and in where a    *)
(* key ends, for a cache of two entries; and one key asked for with and    *)
(* without an estimate.                                                    *)
(***************************************************************************)
EXTENDS InspectCache

MCPieces == {"A", "str:a", "sym:b"}

Ask(durability, keys) ==
    [contract |-> <<"A">>, durability |-> durability, keys |-> keys, extend |-> 0]

a == <<"str:a">>
b == <<"sym:b">>

(* The first two share a key of the cache: str:a<NUL>sym:b is one text.    *)
FourRequests ==
    {Ask("", <<a, b>>), Ask("persistent", <<a \o b>>),
     Ask("persistent", <<b, a>>), Ask("temporary", <<a, b>>)}

TwoEstimates == {Ask("", <<>>), [Ask("", <<>>) EXCEPT !.extend = 1000]}

CallerSymmetry == Permutations(Callers)
=============================================================================
