-------------------------- MODULE MCCheckPipeline --------------------------
(***************************************************************************)
(* Constants of CheckPipeline that a .cfg cannot express.  The code has a  *)
(* critical threshold of its own and no warning one, the data entries a    *)
(* warning threshold of their own: each falls back on the global pair for  *)
(* the other.  A bare number is i128, so an expected 1 meets a u32.        *)
(***************************************************************************)
EXTENDS CheckPipeline

MCScVals == {[type |-> "u32", val |-> 1], [type |-> "i128", val |-> 1],
             [type |-> "i128", val |-> 2], [type |-> "symbol", val |-> 1],
             [type |-> "void", val |-> 0]}

MCGlobal == [warn |-> 1, critical |-> 0]

MCOverrides == [instance |-> [warn |-> Unset, critical |-> Unset],
                code     |-> [warn |-> Unset, critical |-> 1],
                data     |-> [warn |-> 2,     critical |-> Unset]]

Expected == {NoExpect, BadExpect, [type |-> "i128", val |-> 1], [type |-> "void", val |-> 0]}

MCRequests ==
    {[op |-> "check", malformed |-> FALSE, keys |-> k, fn |-> f, expect |-> e, extend |-> 0] :
        k \in {<<>>, <<"balance">>}, f \in BOOLEAN, e \in Expected}
    \cup
    {[op |-> "inspect", malformed |-> m, keys |-> k, fn |-> FALSE, expect |-> NoExpect, extend |-> n] :
        m \in BOOLEAN, k \in {<<>>, <<"balance">>}, n \in {0, 2, MaxUint}}
    \cup
    {[op |-> "inspect", malformed |-> FALSE, keys |-> <<"balance", "admin">>, fn |-> FALSE,
      expect |-> NoExpect, extend |-> 2]}
=============================================================================
