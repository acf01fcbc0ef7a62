--------------------------- MODULE BatchContract ---------------------------
(***************************************************************************)
(* What Prober.CheckBatch promises its caller, whichever of its two        *)
(* execution strategies runs the batch (internal/probe/batch.go).          *)
(*                                                                         *)
(* Each check of the batch gets at most one verdict, in any order and at   *)
(* the slot of its own position.  The call ends once: with a report, and   *)
(* then every check has a verdict and the two summary flags are computed   *)
(* from the verdicts, or with a Go error, and then the context was done.   *)
(* What has been returned never changes.                                   *)
(***************************************************************************)
EXTENDS Naturals

CONSTANT NumChecks

Checks == 1 .. NumChecks

(* "passed" and "failed" stand for a BatchItem with a Result, "errored"    *)
(* for one with an Error: the check could not be run at all.               *)
Verdicts == {"passed", "failed", "errored"}

VARIABLES
    ctxDone,    \* the caller's context has been canceled
    verdict,    \* verdict[i]: what the report says of check i, "unset" before
    answer      \* what the call returned

contractVars == <<ctxDone, verdict, answer>>

Pending    == [state |-> "running", ok |-> FALSE, errored |-> FALSE]
GoError    == [state |-> "error",   ok |-> FALSE, errored |-> FALSE]
ReportOf(v) ==
    [state   |-> "report",
     ok      |-> \A i \in Checks : v[i] = "passed",
     errored |-> \E i \in Checks : v[i] = "errored"]

Init ==
    /\ ctxDone = FALSE
    /\ verdict = [i \in Checks |-> "unset"]
    /\ answer = Pending

Cancel ==
    /\ ctxDone' = TRUE
    /\ UNCHANGED <<verdict, answer>>

Decide(i) ==
    /\ answer = Pending
    /\ verdict[i] = "unset"
    /\ \E v \in Verdicts : verdict' = [verdict EXCEPT ![i] = v]
    /\ UNCHANGED <<ctxDone, answer>>

ReturnReport ==
    /\ answer = Pending
    /\ \A i \in Checks : verdict[i] # "unset"
    /\ answer' = ReportOf(verdict)
    /\ UNCHANGED <<ctxDone, verdict>>

ReturnError ==
    /\ answer = Pending
    /\ ctxDone
    /\ answer' = GoError
    /\ UNCHANGED <<ctxDone, verdict>>

Next ==
    \/ Cancel
    \/ \E i \in Checks : Decide(i)
    \/ ReturnReport
    \/ ReturnError

Spec == Init /\ [][Next]_contractVars
=============================================================================
