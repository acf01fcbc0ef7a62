---------------------------- MODULE BatchWorkers ----------------------------
(***************************************************************************)
(* checkBatchConcurrent and runBounded of internal/probe/batch.go: a pool  *)
(* of workers takes checks from a prefilled, closed channel and bounds     *)
(* each one with its own deadline.  A check runs in a goroutine of its     *)
(* own, the runner, that the worker abandons when the check's context is   *)
(* done: the RPC layer cannot interrupt a request in flight.               *)
(*                                                                         *)
(* The processes are the caller (Finish), the workers, the runners, the    *)
(* deadline timers and whoever cancels the caller's context.               *)
(***************************************************************************)
EXTENDS Naturals, FiniteSets

CONSTANTS
    NumChecks,     \* len(req.Checks)
    Concurrency,   \* req.Concurrency
    Timed          \* the checks that name a Timeout other than zero

(* What validateBatch and the dispatch in CheckBatch have established when *)
(* checkBatchConcurrent is called.                                         *)
ASSUME BatchAssumption ==
    /\ NumChecks \in Nat \ {0}
    /\ Concurrency \in Nat
    /\ Timed \subseteq 1 .. NumChecks

Checks == 1 .. NumChecks

(* The number of goroutines: 0 means 1, and never more than there are jobs.*)
WorkerCount ==
    LET asked == IF Concurrency = 0 THEN 1 ELSE Concurrency
    IN  IF asked > NumChecks THEN NumChecks ELSE asked

Workers == 1 .. WorkerCount

(* What p.Check can return.  "timeout" and "canceled" are the context's    *)
(* own errors, "rpc" is every other Go error.                              *)
Results  == {"pass", "fail"}
Failures == {"rpc", "timeout", "canceled"}
Outcomes == Results \cup Failures

VARIABLES
    ctxDone,  \* ctx.Err() # nil, the caller's context
    next,     \* the jobs channel holds next .. NumChecks and is closed
    pc,       \* pc[w]: where worker w is
    cur,      \* cur[w]: the job worker w holds
    got,      \* got[w]: what runBounded returned to worker w
    checkCtx, \* checkCtx[i]: the context made by withCheckTimeout
    runner,   \* runner[i]: the goroutine that runs check i
    done,     \* done[i]: the one-slot channel the runner of i sends on
    items,    \* items[i]: the report's slot of check i
    answer,   \* what CheckBatch returned
    inTime    \* history: the runners that answered before any context was done

vars == <<ctxDone, next, pc, cur, got, checkCtx, runner, done, items, answer, inTime>>

Blank == [result |-> "none", error |-> "none"]
Item  == [result : Results \cup {"none"}, error : Failures \cup {"none"}]

Busy(w) == pc[w] \in {"received", "waiting", "repoll", "settle"}

(* Slip: the check's context is not made a child of the caller's.          *)
CheckCtxDoneDetached(i) == checkCtx[i] \in {"expired", "released"}

(* checkCtx.Err() # nil.  An untimed check runs under the caller's context *)
(* and a timed one under a child of it.                                    *)
CheckCtxDone(i) == ctxDone \/ checkCtx[i] \in {"expired", "released"}

(* The possible values of checkCtx.Err(): the first cause wins, and a      *)
(* caller's context may itself have ended by a deadline.                   *)
CheckCtxErrors(i) ==
    CASE checkCtx[i] = "expired" -> {"timeout"}
      [] checkCtx[i] # "expired" /\ ctxDone -> {"canceled", "timeout"}
      [] checkCtx[i] = "released" /\ ~ctxDone -> {"canceled"}
      [] OTHER -> {}

(* What the requests themselves can fail with.  The RPC client adds its    *)
(* own deadline when the context carries none, and the HTTP client has one *)
(* in any case, so a request may end with a DeadlineExceeded that is not   *)
(* that of the check's Timeout.                                            *)
RequestErrors == {"rpc", "timeout"}
-----------------------------------------------------------------------------
Init ==
    /\ ctxDone = FALSE
    /\ next = 1
    /\ pc = [w \in Workers |-> "select"]
    /\ cur = [w \in Workers |-> 0]
    /\ got = [w \in Workers |-> "none"]
    /\ checkCtx = [i \in Checks |-> "none"]
    /\ runner = [i \in Checks |-> "idle"]
    /\ done = [i \in Checks |-> "none"]
    /\ items = [i \in Checks |-> Blank]
    /\ answer = [state |-> "running", ok |-> FALSE, errored |-> FALSE]
    /\ inTime = {}

(* The caller's context is canceled, or reaches its own deadline.          *)
Cancel ==
    /\ ~ctxDone
    /\ ctxDone' = TRUE
    /\ UNCHANGED <<next, pc, cur, got, checkCtx, runner, done, items, answer, inTime>>

(* Slip: the channel is read one element past its end.                     *)
ReceivePastEnd(w) ==
    /\ pc[w] = "select"
    /\ next <= NumChecks + 1
    /\ pc' = [pc EXCEPT ![w] = "received"]
    /\ cur' = [cur EXCEPT ![w] = next]
    /\ next' = next + 1
    /\ UNCHANGED <<ctxDone, got, checkCtx, runner, done, items, answer, inTime>>

(* select: a job is received.  Go picks either ready case, so a job may be *)
(* received although the context is done.                                  *)
Receive(w) ==
    /\ pc[w] = "select"
    /\ next <= NumChecks
    /\ pc' = [pc EXCEPT ![w] = "received"]
    /\ cur' = [cur EXCEPT ![w] = next]
    /\ next' = next + 1
    /\ UNCHANGED <<ctxDone, got, checkCtx, runner, done, items, answer, inTime>>

(* Slip: the channel is never closed, only cancellation ends a worker.     *)
LeaveOnlyCanceled(w) ==
    /\ pc[w] \in {"select", "received"}
    /\ ctxDone
    /\ pc' = [pc EXCEPT ![w] = "exited"]
    /\ UNCHANGED <<ctxDone, next, cur, got, checkCtx, runner, done, items, answer, inTime>>

(* The three ways to return from the loop before a check is started: the   *)
(* channel is drained, the select saw the context, or the re-check after a *)
(* receive did, and then the received job is dropped.                      *)
Leave(w) ==
    /\ \/ pc[w] = "select" /\ (next > NumChecks \/ ctxDone)
       \/ pc[w] = "received" /\ ctxDone
    /\ pc' = [pc EXCEPT ![w] = "exited"]
    /\ UNCHANGED <<ctxDone, next, cur, got, checkCtx, runner, done, items, answer, inTime>>

(* Slip: the Timeout of a check is parsed and not applied.                 *)
LaunchUnbounded(w) ==
    /\ pc[w] = "received"
    /\ ~ctxDone
    /\ pc' = [pc EXCEPT ![w] = "waiting"]
    /\ runner' = [runner EXCEPT ![cur[w]] = "running"]
    /\ UNCHANGED <<ctxDone, next, cur, got, checkCtx, done, items, answer, inTime>>

(* withCheckTimeout and the go statement of runBounded.                    *)
Launch(w) ==
    /\ pc[w] = "received"
    /\ ~ctxDone
    /\ pc' = [pc EXCEPT ![w] = "waiting"]
    /\ runner' = [runner EXCEPT ![cur[w]] = "running"]
    /\ checkCtx' = [checkCtx EXCEPT ![cur[w]] = IF cur[w] \in Timed THEN "live" ELSE "none"]
    /\ UNCHANGED <<ctxDone, next, cur, got, done, items, answer, inTime>>

(* The runner's p.Check returns and the result goes into the buffered      *)
(* channel.  A context that is done may be noticed or not: only the gaps   *)
(* between requests look at it.                                            *)
Deliver(i) ==
    /\ runner[i] = "running"
    /\ runner' = [runner EXCEPT ![i] = "finished"]
    /\ \E o \in Results \cup RequestErrors \cup CheckCtxErrors(i) :
          /\ done' = [done EXCEPT ![i] = o]
          /\ inTime' = IF CheckCtxDone(i) \/ o = "timeout" THEN inTime ELSE inTime \cup {i}
    /\ UNCHANGED <<ctxDone, next, pc, cur, got, checkCtx, items, answer>>

(* The timer of a timed check fires.  Under a caller's context that is     *)
(* done the child is done already, with the caller's cause.                *)
Expire(i) ==
    /\ checkCtx[i] = "live"
    /\ ~ctxDone
    /\ checkCtx' = [checkCtx EXCEPT ![i] = "expired"]
    /\ UNCHANGED <<ctxDone, next, pc, cur, got, runner, done, items, answer, inTime>>

(* runBounded's outer select, the case of an outcome.                      *)
TakeOutcome(w) ==
    /\ pc[w] = "waiting"
    /\ done[cur[w]] # "none"
    /\ pc' = [pc EXCEPT ![w] = "settle"]
    /\ got' = [got EXCEPT ![w] = done[cur[w]]]
    /\ done' = [done EXCEPT ![cur[w]] = "none"]
    /\ UNCHANGED <<ctxDone, next, cur, checkCtx, runner, items, answer, inTime>>

(* runBounded's outer select, the case of a context that is done.          *)
SeeContext(w) ==
    /\ pc[w] = "waiting"
    /\ CheckCtxDone(cur[w])
    /\ pc' = [pc EXCEPT ![w] = "repoll"]
    /\ UNCHANGED <<ctxDone, next, cur, got, checkCtx, runner, done, items, answer, inTime>>

(* Slip: no second look at the channel once the context is done.           *)
RepollBlind(w) ==
    /\ pc[w] = "repoll"
    /\ pc' = [pc EXCEPT ![w] = "settle"]
    /\ \E e \in CheckCtxErrors(cur[w]) : got' = [got EXCEPT ![w] = e]
    /\ UNCHANGED <<ctxDone, next, cur, checkCtx, runner, done, items, answer, inTime>>

(* The inner select: an outcome that is there by now is still the answer,  *)
(* otherwise the runner is abandoned and the context's error is returned.  *)
Repoll(w) ==
    /\ pc[w] = "repoll"
    /\ pc' = [pc EXCEPT ![w] = "settle"]
    /\ IF done[cur[w]] # "none"
       THEN /\ got' = [got EXCEPT ![w] = done[cur[w]]]
            /\ done' = [done EXCEPT ![cur[w]] = "none"]
       ELSE /\ \E e \in CheckCtxErrors(cur[w]) : got' = [got EXCEPT ![w] = e]
            /\ UNCHANGED done
    /\ UNCHANGED <<ctxDone, next, cur, checkCtx, runner, items, answer, inTime>>

(* Slip: every DeadlineExceeded is reported as the check's own Timeout.    *)
ItemOfUnguarded(i, o) ==
    IF o \in Results
    THEN [result |-> o, error |-> "none"]
    ELSE [result |-> "none", error |-> o]

(* The slot an outcome is reported in.  Only a timed check can be reported *)
(* as timed out; the same error of an untimed one keeps its own text.      *)
ItemOf(i, o) ==
    CASE o \in Results                   -> [result |-> o, error |-> "none"]
      [] o = "timeout" /\ i \notin Timed -> [result |-> "none", error |-> "rpc"]
      [] OTHER                           -> [result |-> "none", error |-> o]

(* Slip: any error ends the worker, whatever the caller's context.         *)
SettleGivesUp(w) ==
    /\ pc[w] = "settle"
    /\ checkCtx' = [checkCtx EXCEPT ![cur[w]] = IF @ = "live" THEN "released" ELSE @]
    /\ IF got[w] \in Failures
       THEN /\ pc' = [pc EXCEPT ![w] = "exited"]
            /\ UNCHANGED items
       ELSE /\ pc' = [pc EXCEPT ![w] = "select"]
            /\ items' = [items EXCEPT ![cur[w]] = ItemOf(cur[w], got[w])]
    /\ UNCHANGED <<ctxDone, next, cur, got, runner, done, answer, inTime>>

(* cancel(), then the rest of the loop body: an error under a context that *)
(* is done ends the worker and leaves the slot blank.                      *)
Settle(w) ==
    /\ pc[w] = "settle"
    /\ checkCtx' = [checkCtx EXCEPT ![cur[w]] = IF @ = "live" THEN "released" ELSE @]
    /\ IF got[w] \in Failures /\ ctxDone
       THEN /\ pc' = [pc EXCEPT ![w] = "exited"]
            /\ UNCHANGED items
       ELSE /\ pc' = [pc EXCEPT ![w] = "select"]
            /\ items' = [items EXCEPT ![cur[w]] = ItemOf(cur[w], got[w])]
    /\ UNCHANGED <<ctxDone, next, cur, got, runner, done, answer, inTime>>

(* The aggregation loop.  A slot with neither field set is a nil Result    *)
(* that the loop dereferences.                                             *)
Aggregate ==
    IF \E i \in Checks : items[i] = Blank
    THEN [state |-> "panic", ok |-> FALSE, errored |-> FALSE]
    ELSE [state   |-> "report",
          ok      |-> \A i \in Checks : items[i].result = "pass",
          errored |-> \E i \in Checks : items[i].error # "none"]

(* Slip: the context is not read again after workers.Wait().               *)
FinishUnchecked ==
    /\ answer.state = "running"
    /\ \A w \in Workers : pc[w] = "exited"
    /\ answer' = Aggregate
    /\ UNCHANGED <<ctxDone, next, pc, cur, got, checkCtx, runner, done, items, inTime>>

(* workers.Wait() returns; the context is read once more.                  *)
Finish ==
    /\ answer.state = "running"
    /\ \A w \in Workers : pc[w] = "exited"
    /\ answer' = IF ctxDone
                 THEN [state |-> "error", ok |-> FALSE, errored |-> FALSE]
                 ELSE Aggregate
    /\ UNCHANGED <<ctxDone, next, pc, cur, got, checkCtx, runner, done, items, inTime>>

WorkerStep(w) ==
    \/ Receive(w)
    \/ Leave(w)
    \/ Launch(w)
    \/ TakeOutcome(w)
    \/ SeeContext(w)
    \/ Repoll(w)
    \/ Settle(w)

Next ==
    \/ Cancel
    \/ \E w \in Workers : WorkerStep(w)
    \/ \E i \in Checks : Deliver(i) \/ Expire(i)
    \/ Finish

Spec == Init /\ [][Next]_vars

(* The Go scheduler runs every goroutine that can run, and timers fire.    *)
(* Nothing is assumed of the runners: an RPC may hang for ever.            *)
HungSpec ==
    /\ Spec
    /\ \A w \in Workers : WF_vars(WorkerStep(w))
    /\ \A i \in Checks : WF_vars(Expire(i))
    /\ WF_vars(Finish)

-----------------------------------------------------------------------------
(* Type invariant.                                                         *)
TypeOK ==
    /\ ctxDone \in BOOLEAN
    /\ next \in 1 .. NumChecks + 1
    /\ pc \in [Workers -> {"select", "received", "waiting", "repoll", "settle", "exited"}]
    /\ cur \in [Workers -> 0 .. NumChecks]
    /\ got \in [Workers -> Outcomes \cup {"none"}]
    /\ checkCtx \in [Checks -> {"none", "live", "expired", "released"}]
    /\ runner \in [Checks -> {"idle", "running", "finished"}]
    /\ done \in [Checks -> Outcomes \cup {"none"}]
    /\ items \in [Checks -> Item]
    /\ answer \in [state : {"running", "report", "error", "panic"},
                   ok : BOOLEAN, errored : BOOLEAN]
    /\ inTime \subseteq Checks

(* A report has exactly one of Result and Error in every slot, and the     *)
(* aggregation never meets an empty one: jobs are dropped by workers that  *)
(* see the context done, and only then (batch.go:41-42 and 149-156).       *)
ReportComplete ==
    /\ answer.state # "panic"
    /\ answer.state = "report" =>
         \A i \in Checks : (items[i].result = "none") # (items[i].error = "none")

(* A check that answered before its deadline and before the cancellation   *)
(* is reported with that answer even when the worker's select saw the      *)
(* deadline first: it is never reported as timed out (batch.go:417-423).   *)
AnswerInTimeWins ==
    \A i \in inTime : i \in Timed => items[i].error # "timeout"

(* A slot blames a check only for what that check did: only a check with a *)
(* Timeout is reported as timed out, and one that has been abandoned only  *)
(* when its own deadline has passed; the caller's cancellation is never    *)
(* reported as a check's error (batch.go:126-137).                         *)
BlameIsOwn ==
    \A i \in Checks :
        /\ items[i].error = "timeout" =>
              i \in Timed /\ (checkCtx[i] = "expired" \/ runner[i] = "finished")
        /\ items[i].error # "canceled"

(* What README.md:451-452 and batch.go:88 say of --concurrency: up to N    *)
(* checks run at once.  A check the worker has abandoned goes on running   *)
(* and does not count against N, so this does not hold.                    *)
AtMostConcurrencyRunning ==
    Cardinality({i \in Checks : runner[i] = "running"}) <= WorkerCount

(* Every step implements the promise of CheckBatch: one verdict per check, *)
(* a report only of all of them, nothing changed after the return.         *)
verdictBar ==
    [i \in Checks |->
        CASE items[i].error # "none"   -> "errored"
          [] items[i].error = "none" /\ items[i].result = "pass" -> "passed"
          [] items[i].error = "none" /\ items[i].result = "fail" -> "failed"
          [] OTHER -> "unset"]

Contract == INSTANCE BatchContract WITH verdict <- verdictBar

ImplementsContract == Contract!Spec

(* A hung check costs its own budget and no more: a worker that waits for  *)
(* a timed check moves on, although the runner may never return            *)
(* (batch.go:392-400).                                                     *)
TimedCheckReleasesWorker ==
    \A w \in Workers :
        (pc[w] = "waiting" /\ cur[w] \in Timed) ~> (pc[w] # "waiting")

(* A canceled batch returns, whatever is hung: each select of a worker and *)
(* of runBounded also watches the context (batch.go:113-119 and 414-424).  *)
CancelEndsBatch == ctxDone ~> (answer.state # "running")

(* If every request ends, by an answer or by the transport's own timeout,  *)
(* the batch returns (batch.go:143).                                       *)
BatchReturns ==
    (\A i \in Checks : []<>(runner[i] # "running")) => <>(answer.state # "running")
=============================================================================
