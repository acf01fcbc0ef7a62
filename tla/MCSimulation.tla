---------------------------- MODULE MCSimulation ----------------------------
(***************************************************************************)
(* Constants of Simulation that a .cfg cannot express: commands that gate  *)
(* the cost of repeated runs, commands whose call is typed, and files of   *)
(* two calls, with and without gates of their own.  An upgrade replaces    *)
(* one function by another.                                                *)
(***************************************************************************)
EXTENDS Simulation

MCExports == [old |-> {"f"}, new |-> {"g"}]

Plain(fn) ==
    [malformed |-> FALSE, fn |-> fn, baseline |-> NoBaseline,
     maxIncrease |-> Unset, repeat |-> 1, maxSpread |-> Unset]
Malformed == [Plain("f") EXCEPT !.malformed = TRUE]

Commands(mode, sources, calls) ==
    [mode : {mode}, source : sources, calls : calls, flagged : {FALSE}]

Gated ==
    {[Plain("f") EXCEPT !.baseline = b, !.maxIncrease = i, !.repeat = n, !.maxSpread = s] :
        b \in {NoBaseline, OtherCall} \cup {BaselineOf(c) : c \in Cost},
        i \in {Unset, 0, 100}, n \in {0, 2, 3}, s \in {Unset, 0, 100}}

(* Of a file: a call with both gates, one that has thresholds but nothing  *)
(* to be judged by them, and one with a baseline of another call.          *)
GatedInFile ==
    {[Plain("f") EXCEPT !.baseline = BaselineOf([f \in Figures |-> 1]), !.maxIncrease = 0,
                        !.repeat = 2, !.maxSpread = 100],
     [Plain("f") EXCEPT !.maxIncrease = 0, !.maxSpread = 0],
     [Plain("f") EXCEPT !.baseline = OtherCall]}

MCRequests ==
    Commands("call", {"none"}, {<<c>> : c \in Gated})
    \cup Commands("call", {"chain", "vault"}, {<<Plain("f")>>, <<Malformed>>})
    \cup Commands("file", {"none", "chain", "vault"},
                  {<<>>, <<Plain("f"), Plain("g")>>, <<Malformed, Plain("f")>>})
    \cup Commands("file", {"none"}, {<<c, d>> : c \in GatedInFile, d \in GatedInFile})
    \cup [mode : {"file"}, source : {"none"}, calls : {<<Plain("f")>>}, flagged : {TRUE}]
=============================================================================
