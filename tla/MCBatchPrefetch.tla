--------------------------- MODULE MCBatchPrefetch ---------------------------
(***************************************************************************)
(* Instances of BatchPrefetch for TLC: checks that share a contract, one   *)
(* that cannot be planned, one whose keys lie in two chunks.               *)
(***************************************************************************)
EXTENDS BatchPrefetch

SharedAndBad == << <<"B">>, <<"A", "a1">>, <<>>, <<"A", "a1">> >>

TwoCodes == {"w1", "w2"}
=============================================================================
