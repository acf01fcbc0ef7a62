------------------------- MODULE BatchWorkersProofs -------------------------
(***************************************************************************)
(* Proofs about the worker pool of BatchWorkers, for every number of       *)
(* checks, every concurrency and every choice of timed checks.             *)
(***************************************************************************)
EXTENDS BatchWorkers, TLAPS

(* Every check that left the channel is accounted for: its slot is filled, *)
(* a worker holds it, or the caller's context is done and the report will  *)
(* not be built.                                                           *)
Held(i) == \E w \in Workers : Busy(w) /\ cur[w] = i

HoldersDiffer ==
    \A v, w \in Workers : Busy(v) /\ Busy(w) /\ v # w => cur[v] # cur[w]

HeldIsReceived ==
    \A w \in Workers :
        Busy(w) => /\ cur[w] \in Checks
                   /\ cur[w] < next
                   /\ items[cur[w]] = Blank

QueuedIsBlank == \A i \in Checks : i >= next => items[i] = Blank

ReceivedIsAccounted ==
    \A i \in Checks : i < next => items[i] # Blank \/ Held(i) \/ ctxDone

ExitIsJustified ==
    \A w \in Workers : pc[w] = "exited" => next > NumChecks \/ ctxDone

SettlesOutcome == \A w \in Workers : pc[w] = "settle" => got[w] \in Outcomes

SlotHasOneField ==
    \A i \in Checks :
        items[i] # Blank => (items[i].result = "none") # (items[i].error = "none")

AnswerFollowsWorkers ==
    /\ answer.state = "running" => ~answer.ok /\ ~answer.errored
    /\ answer.state # "running" => \A w \in Workers : pc[w] = "exited"
    /\ answer.state # "panic"
    /\ answer.state = "report" => \A i \in Checks : items[i] # Blank

IInv ==
    /\ TypeOK
    /\ HoldersDiffer
    /\ HeldIsReceived
    /\ QueuedIsBlank
    /\ ReceivedIsAccounted
    /\ ExitIsJustified
    /\ SettlesOutcome
    /\ SlotHasOneField
    /\ AnswerFollowsWorkers
-----------------------------------------------------------------------------
(* There is at least one worker, so "all workers have exited" is not void. *)
LEMMA WorkerCountPositive == WorkerCount \in Nat \ {0} /\ 1 \in Workers
  BY BatchAssumption DEF WorkerCount, Workers

(* make([]BatchItem, n): the slots before any check is settled.            *)
LEMMA BlankIsItem == Blank \in Item /\ Blank.result = "none" /\ Blank.error = "none"
  BY DEF Blank, Item, Results, Failures

(* ItemOf fills exactly one field of a slot, whatever the outcome.         *)
LEMMA ItemOfFills ==
  ASSUME NEW i \in Checks, NEW o \in Outcomes
  PROVE  /\ ItemOf(i, o) \in Item
         /\ ItemOf(i, o) # Blank
         /\ (ItemOf(i, o).result = "none") # (ItemOf(i, o).error = "none")
<1>1. CASE o \in Results
  BY <1>1 DEF ItemOf, Item, Blank, Results, Failures
<1>2. CASE o = "timeout" /\ i \notin Timed
  BY <1>2 DEF ItemOf, Item, Blank, Results, Failures
<1>3. CASE o \in Failures /\ ~(o = "timeout" /\ i \notin Timed)
  BY <1>3 DEF ItemOf, Item, Blank, Results, Failures
<1> QED  BY <1>1, <1>2, <1>3 DEF Outcomes

(* The state in which the workers are started satisfies the invariant.     *)
LEMMA InitIInv == Init => IInv
<1> SUFFICES ASSUME Init PROVE IInv
  OBVIOUS
<1> USE BatchAssumption, WorkerCountPositive, BlankIsItem
<1>1. TypeOK
  <2>1. 1 \in 1 .. NumChecks + 1 /\ 0 \in 0 .. NumChecks
    OBVIOUS
  <2> QED  BY <2>1 DEF Init, TypeOK
<1>2. QED
  BY <1>1 DEF Init, IInv, HoldersDiffer, HeldIsReceived, QueuedIsBlank, ReceivedIsAccounted,
     ExitIsJustified, SettlesOutcome, SlotHasOneField, AnswerFollowsWorkers, Busy, Checks

(* Type correctness is inductive once a busy worker holds a real check.    *)
LEMMA NextTypeOK ==
  ASSUME TypeOK, HeldIsReceived, SettlesOutcome, [Next]_vars
  PROVE  TypeOK'
<1> USE BatchAssumption, BlankIsItem DEF TypeOK
<1>1. CASE Cancel
  BY <1>1 DEF Cancel
<1>2. ASSUME NEW w \in Workers, Receive(w) PROVE TypeOK'
  BY <1>2 DEF Receive
<1>3. ASSUME NEW w \in Workers, Leave(w) PROVE TypeOK'
  BY <1>3 DEF Leave
<1>4. ASSUME NEW w \in Workers, Launch(w) PROVE TypeOK'
  BY <1>4 DEF Launch
<1>5. ASSUME NEW w \in Workers, TakeOutcome(w) PROVE TypeOK'
  <2>1. cur[w] \in Checks
    BY <1>5 DEF TakeOutcome, HeldIsReceived, Busy
  <2> QED  BY <1>5, <2>1 DEF TakeOutcome
<1>6. ASSUME NEW w \in Workers, SeeContext(w) PROVE TypeOK'
  BY <1>6 DEF SeeContext
<1>7. ASSUME NEW w \in Workers, Repoll(w) PROVE TypeOK'
  <2>1. cur[w] \in Checks
    BY <1>7 DEF Repoll, HeldIsReceived, Busy
  <2>2. CheckCtxErrors(cur[w]) \subseteq Outcomes
    BY DEF CheckCtxErrors, Outcomes, Failures
  <2> QED  BY <1>7, <2>1, <2>2 DEF Repoll
<1>8. ASSUME NEW w \in Workers, Settle(w) PROVE TypeOK'
  <2>1. cur[w] \in Checks /\ got[w] \in Outcomes
    BY <1>8 DEF Settle, HeldIsReceived, SettlesOutcome, Busy
  <2>2. ItemOf(cur[w], got[w]) \in Item
    BY <2>1, ItemOfFills
  <2> QED  BY <1>8, <2>1, <2>2 DEF Settle
<1>9. ASSUME NEW i \in Checks, Deliver(i) PROVE TypeOK'
  <2>1. Results \cup RequestErrors \cup CheckCtxErrors(i) \subseteq Outcomes
    BY DEF CheckCtxErrors, RequestErrors, Outcomes, Failures
  <2> QED  BY <1>9, <2>1 DEF Deliver
<1>10. ASSUME NEW i \in Checks, Expire(i) PROVE TypeOK'
  BY <1>10 DEF Expire
<1>11. CASE Finish
  BY <1>11 DEF Finish, Aggregate
<1>12. CASE UNCHANGED vars
  BY <1>12 DEF vars
<1> QED
  BY <1>1, <1>2, <1>3, <1>4, <1>5, <1>6, <1>7, <1>8, <1>9, <1>10, <1>11, <1>12
     DEF Next, WorkerStep

(* The invariant is inductive: one step per action, and under it one step  *)
(* per conjunct that the action can disturb.                               *)
LEMMA NextIInv ==
  ASSUME IInv, [Next]_vars
  PROVE  IInv'
<1> USE DEF IInv
<1>0. TypeOK'
  BY NextTypeOK
<1> USE <1>0, BatchAssumption, WorkerCountPositive, BlankIsItem DEF TypeOK
<1>1. CASE Cancel
  BY <1>1 DEF Cancel, HoldersDiffer, HeldIsReceived, QueuedIsBlank,
     ReceivedIsAccounted, ExitIsJustified, SettlesOutcome, SlotHasOneField,
     AnswerFollowsWorkers, Busy, Held
<1>2. ASSUME NEW w \in Workers, Receive(w) PROVE IInv'
  <2>1. HoldersDiffer'
    BY <1>2 DEF Receive, HoldersDiffer, HeldIsReceived, Busy
  <2>2. HeldIsReceived'
    BY <1>2 DEF Receive, HeldIsReceived, QueuedIsBlank, Busy, Checks
  <2>3. QueuedIsBlank'
    BY <1>2 DEF Receive, QueuedIsBlank, Checks
  <2>4. ReceivedIsAccounted'
    <3>1. SUFFICES ASSUME NEW i \in Checks, i < next', items[i] = Blank, ~ctxDone
                    PROVE  Held(i)'
      BY <1>2 DEF Receive, ReceivedIsAccounted
    <3>2. CASE i = next
      BY <1>2, <3>2 DEF Receive, Held, Busy
    <3>3. CASE i # next
      <4>1. i < next
        BY <1>2, <3>1, <3>3 DEF Receive, Checks
      <4>2. PICK v \in Workers : Busy(v) /\ cur[v] = i
        BY <3>1, <4>1 DEF ReceivedIsAccounted, Held
      <4>3. v # w
        BY <1>2, <4>2 DEF Receive, Busy
      <4> QED  BY <1>2, <4>2, <4>3 DEF Receive, Held, Busy
    <3> QED  BY <3>2, <3>3
  <2>5. ExitIsJustified'
    BY <1>2 DEF Receive, ExitIsJustified
  <2>6. SettlesOutcome'
    BY <1>2 DEF Receive, SettlesOutcome
  <2>7. SlotHasOneField'
    BY <1>2 DEF Receive, SlotHasOneField
  <2>8. AnswerFollowsWorkers'
    BY <1>2 DEF Receive, AnswerFollowsWorkers
  <2> QED  BY <2>1, <2>2, <2>3, <2>4, <2>5, <2>6, <2>7, <2>8
<1>3. ASSUME NEW w \in Workers, Leave(w) PROVE IInv'
  <2>1. HoldersDiffer'
    BY <1>3 DEF Leave, HoldersDiffer, Busy
  <2>2. HeldIsReceived'
    BY <1>3 DEF Leave, HeldIsReceived, Busy
  <2>3. QueuedIsBlank'
    BY <1>3 DEF Leave, QueuedIsBlank
  <2>4. ReceivedIsAccounted'
    BY <1>3 DEF Leave, ReceivedIsAccounted, Held, Busy
  <2>5. ExitIsJustified'
    BY <1>3 DEF Leave, ExitIsJustified
  <2>6. SettlesOutcome'
    BY <1>3 DEF Leave, SettlesOutcome
  <2>7. SlotHasOneField'
    BY <1>3 DEF Leave, SlotHasOneField
  <2>8. AnswerFollowsWorkers'
    BY <1>3 DEF Leave, AnswerFollowsWorkers
  <2> QED  BY <2>1, <2>2, <2>3, <2>4, <2>5, <2>6, <2>7, <2>8
<1>4. ASSUME NEW w \in Workers, Launch(w) PROVE IInv'
  BY <1>4 DEF Launch, HoldersDiffer, HeldIsReceived, QueuedIsBlank,
     ReceivedIsAccounted, ExitIsJustified, SettlesOutcome, SlotHasOneField,
     AnswerFollowsWorkers, Busy, Held
<1>5. ASSUME NEW w \in Workers, TakeOutcome(w) PROVE IInv'
  <2>1. HoldersDiffer'
    BY <1>5 DEF TakeOutcome, HoldersDiffer, Busy
  <2>2. HeldIsReceived'
    BY <1>5 DEF TakeOutcome, HeldIsReceived, Busy
  <2>3. QueuedIsBlank'
    BY <1>5 DEF TakeOutcome, QueuedIsBlank
  <2>4. ReceivedIsAccounted'
    BY <1>5 DEF TakeOutcome, ReceivedIsAccounted, Held, Busy
  <2>5. ExitIsJustified'
    BY <1>5 DEF TakeOutcome, ExitIsJustified
  <2>6. SettlesOutcome'
    <3>1. cur[w] \in Checks
      BY <1>5 DEF TakeOutcome, HeldIsReceived, Busy
    <3> QED  BY <1>5, <3>1 DEF TakeOutcome, SettlesOutcome
  <2>7. SlotHasOneField'
    BY <1>5 DEF TakeOutcome, SlotHasOneField
  <2>8. AnswerFollowsWorkers'
    BY <1>5 DEF TakeOutcome, AnswerFollowsWorkers
  <2> QED  BY <2>1, <2>2, <2>3, <2>4, <2>5, <2>6, <2>7, <2>8
<1>6. ASSUME NEW w \in Workers, SeeContext(w) PROVE IInv'
  BY <1>6 DEF SeeContext, HoldersDiffer, HeldIsReceived, QueuedIsBlank,
     ReceivedIsAccounted, ExitIsJustified, SettlesOutcome, SlotHasOneField,
     AnswerFollowsWorkers, Busy, Held
<1>7. ASSUME NEW w \in Workers, Repoll(w) PROVE IInv'
  <2>1. HoldersDiffer'
    BY <1>7 DEF Repoll, HoldersDiffer, Busy
  <2>2. HeldIsReceived'
    BY <1>7 DEF Repoll, HeldIsReceived, Busy
  <2>3. QueuedIsBlank'
    BY <1>7 DEF Repoll, QueuedIsBlank
  <2>4. ReceivedIsAccounted'
    BY <1>7 DEF Repoll, ReceivedIsAccounted, Held, Busy
  <2>5. ExitIsJustified'
    BY <1>7 DEF Repoll, ExitIsJustified
  <2>6. SettlesOutcome'
    <3>1. cur[w] \in Checks
      BY <1>7 DEF Repoll, HeldIsReceived, Busy
    <3>2. CheckCtxErrors(cur[w]) \subseteq Outcomes
      BY DEF CheckCtxErrors, Outcomes, Failures
    <3>3. done[cur[w]] # "none" => done[cur[w]] \in Outcomes
      BY <3>1
    <3> QED  BY <1>7, <3>2, <3>3 DEF Repoll, SettlesOutcome
  <2>7. SlotHasOneField'
    BY <1>7 DEF Repoll, SlotHasOneField
  <2>8. AnswerFollowsWorkers'
    BY <1>7 DEF Repoll, AnswerFollowsWorkers
  <2> QED  BY <2>1, <2>2, <2>3, <2>4, <2>5, <2>6, <2>7, <2>8
<1>8. ASSUME NEW w \in Workers, Settle(w) PROVE IInv'
  <2>a. /\ cur[w] \in Checks
        /\ cur[w] < next
        /\ Busy(w)
        /\ ItemOf(cur[w], got[w]) # Blank
        /\ (ItemOf(cur[w], got[w]).result = "none") # (ItemOf(cur[w], got[w]).error = "none")
    BY <1>8, ItemOfFills DEF Settle, HeldIsReceived, SettlesOutcome, Busy
  <2>1. HoldersDiffer'
    BY <1>8 DEF Settle, HoldersDiffer, Busy
  <2>2. HeldIsReceived'
    <3>1. ASSUME NEW v \in Workers, Busy(v)' PROVE v # w /\ Busy(v) /\ cur[v] # cur[w]
      BY <1>8, <3>1, <2>a DEF Settle, HoldersDiffer, Busy
    <3> QED  BY <1>8, <2>a, <3>1 DEF Settle, HeldIsReceived
  <2>3. QueuedIsBlank'
    BY <1>8, <2>a DEF Settle, QueuedIsBlank, Checks
  <2>4. ReceivedIsAccounted'
    <3>1. SUFFICES ASSUME NEW i \in Checks, i < next, items'[i] = Blank, ~ctxDone
                    PROVE  Held(i)'
      BY <1>8 DEF Settle, ReceivedIsAccounted
    <3>2. items'[cur[w]] # Blank
      BY <1>8, <2>a, <3>1 DEF Settle
    <3>3. i # cur[w] /\ items[i] = Blank
      BY <1>8, <3>1, <3>2 DEF Settle
    <3>4. PICK v \in Workers : Busy(v) /\ cur[v] = i
      BY <3>1, <3>3 DEF ReceivedIsAccounted, Held
    <3> QED  BY <1>8, <3>3, <3>4 DEF Settle, Held, Busy
  <2>5. ExitIsJustified'
    BY <1>8 DEF Settle, ExitIsJustified
  <2>6. SettlesOutcome'
    BY <1>8 DEF Settle, SettlesOutcome
  <2>7. SlotHasOneField'
    BY <1>8, <2>a DEF Settle, SlotHasOneField
  <2>8. AnswerFollowsWorkers'
    BY <1>8 DEF Settle, AnswerFollowsWorkers
  <2> QED  BY <2>1, <2>2, <2>3, <2>4, <2>5, <2>6, <2>7, <2>8
<1>9. ASSUME NEW i \in Checks, Deliver(i) PROVE IInv'
  BY <1>9 DEF Deliver, HoldersDiffer, HeldIsReceived, QueuedIsBlank,
     ReceivedIsAccounted, ExitIsJustified, SettlesOutcome, SlotHasOneField,
     AnswerFollowsWorkers, Busy, Held
<1>10. ASSUME NEW i \in Checks, Expire(i) PROVE IInv'
  BY <1>10 DEF Expire, HoldersDiffer, HeldIsReceived, QueuedIsBlank,
     ReceivedIsAccounted, ExitIsJustified, SettlesOutcome, SlotHasOneField,
     AnswerFollowsWorkers, Busy, Held
<1>11. CASE Finish
  <2>1. AnswerFollowsWorkers'
    <3>1. CASE ctxDone
      BY <1>11, <3>1 DEF Finish, AnswerFollowsWorkers
    <3>2. CASE ~ctxDone
      <4>1. next > NumChecks
        BY <1>11, <3>2 DEF Finish, ExitIsJustified
      <4>2. ASSUME NEW i \in Checks PROVE items[i] # Blank
        <5>1. i < next
          BY <4>1 DEF Checks
        <5>2. ~Held(i)
          BY <1>11 DEF Finish, Held, Busy
        <5> QED  BY <3>2, <5>1, <5>2 DEF ReceivedIsAccounted
      <4>3. answer'.state = "report"
        BY <1>11, <3>2, <4>2 DEF Finish, Aggregate
      <4> QED  BY <1>11, <4>2, <4>3 DEF Finish, AnswerFollowsWorkers
    <3> QED  BY <3>1, <3>2
  <2> QED
    BY <1>11, <2>1 DEF Finish, HoldersDiffer, HeldIsReceived, QueuedIsBlank,
       ReceivedIsAccounted, ExitIsJustified, SettlesOutcome, SlotHasOneField, Busy, Held
<1>12. CASE UNCHANGED vars
  BY <1>12 DEF vars, HoldersDiffer, HeldIsReceived, QueuedIsBlank,
     ReceivedIsAccounted, ExitIsJustified, SettlesOutcome, SlotHasOneField,
     AnswerFollowsWorkers, Busy, Held
<1> QED
  BY <1>1, <1>2, <1>3, <1>4, <1>5, <1>6, <1>7, <1>8, <1>9, <1>10, <1>11, <1>12
     DEF Next, WorkerStep

(* The type invariant of the worker pool.                                  *)
THEOREM PoolTypeCorrect == Spec => []TypeOK
<1>1. IInv => TypeOK
  BY DEF IInv
<1> QED  BY <1>1, InitIInv, NextIInv, PTL DEF Spec

(* The aggregation loop never meets an empty slot, and every slot of a     *)
(* report has exactly one of Result and Error: a job is only dropped by a  *)
(* worker that saw the context done, and the context stays done until the  *)
(* caller reads it after workers.Wait().                                   *)
THEOREM PoolReportComplete == Spec => []ReportComplete
<1>1. IInv => ReportComplete
  BY DEF IInv, AnswerFollowsWorkers, SlotHasOneField, ReportComplete
<1> QED  BY <1>1, InitIInv, NextIInv, PTL DEF Spec
-----------------------------------------------------------------------------
(* Who is to blame: what a context, a runner and its channel say about a   *)
(* check that is queued, that is run, and that is settled.                 *)
Unlaunched(i) == runner[i] = "idle" /\ done[i] = "none" /\ checkCtx[i] = "none"

LaunchIsFirst ==
    /\ \A i \in Checks : i >= next => Unlaunched(i)
    /\ \A w \in Workers : pc[w] = "received" => Unlaunched(cur[w])

ContextIsOwn ==
    \A w \in Workers : pc[w] \in {"waiting", "repoll", "settle"} =>
        checkCtx[cur[w]] \in IF cur[w] \in Timed THEN {"live", "expired"} ELSE {"none"}

RunnerAnswers ==
    \A i \in Checks :
        /\ done[i] # "none" => runner[i] = "finished"
        /\ done[i] = "canceled" => ctxDone \/ checkCtx[i] = "released"
        /\ i \in inTime => runner[i] = "finished"

AnswerWaits ==
    \A w \in Workers :
        pc[w] \in {"waiting", "repoll"} /\ cur[w] \in inTime
            => done[cur[w]] \notin {"none", "timeout"}

ErrorHasCause ==
    \A w \in Workers : pc[w] = "settle" =>
        /\ got[w] = "timeout" =>
              /\ cur[w] \notin inTime
              /\ ctxDone \/ checkCtx[cur[w]] = "expired" \/ runner[cur[w]] = "finished"
        /\ got[w] = "canceled" => ctxDone

SlotHasCause ==
    \A i \in Checks :
        /\ items[i].error # "canceled"
        /\ items[i].error = "timeout" =>
              /\ i \in Timed
              /\ checkCtx[i] = "expired" \/ (checkCtx[i] = "released" /\ runner[i] = "finished")
              /\ i \notin inTime

BlameIInv ==
    /\ LaunchIsFirst
    /\ ContextIsOwn
    /\ RunnerAnswers
    /\ AnswerWaits
    /\ ErrorHasCause
    /\ SlotHasCause

(* Before the workers start nothing has been run and nobody is blamed.     *)
LEMMA InitBlame == Init => BlameIInv
BY BatchAssumption, BlankIsItem
   DEF Init, BlameIInv, LaunchIsFirst, Unlaunched, ContextIsOwn, RunnerAnswers, AnswerWaits,
       ErrorHasCause, SlotHasCause, Checks

(* One step per action; what disturbs no context, runner or slot keeps the *)
(* conjuncts about them.                                                   *)
LEMMA NextBlame ==
  ASSUME IInv, BlameIInv, [Next]_vars
  PROVE  BlameIInv'
<1> USE BatchAssumption, BlankIsItem DEF IInv, BlameIInv, TypeOK, HeldIsReceived, HoldersDiffer, Busy
<1>1. CASE Cancel
  BY <1>1 DEF Cancel, LaunchIsFirst, Unlaunched, ContextIsOwn, RunnerAnswers, AnswerWaits,
     ErrorHasCause, SlotHasCause
<1>2. ASSUME NEW w \in Workers, Receive(w) PROVE BlameIInv'
  BY <1>2 DEF Receive, LaunchIsFirst, Unlaunched, ContextIsOwn, RunnerAnswers, AnswerWaits,
     ErrorHasCause, SlotHasCause, Checks
<1>3. ASSUME NEW w \in Workers, Leave(w) PROVE BlameIInv'
  BY <1>3 DEF Leave, LaunchIsFirst, Unlaunched, ContextIsOwn, RunnerAnswers, AnswerWaits,
     ErrorHasCause, SlotHasCause
<1>4. ASSUME NEW w \in Workers, Launch(w) PROVE BlameIInv'
  <2> USE <1>4 DEF Launch
  <2>0. cur[w] \in Checks /\ Unlaunched(cur[w]) /\ cur[w] \notin inTime /\ items[cur[w]] = Blank
    BY DEF LaunchIsFirst, RunnerAnswers, Unlaunched
  <2>1. LaunchIsFirst'
    BY <2>0 DEF LaunchIsFirst, Unlaunched
  <2>2. ContextIsOwn'
    BY <2>0 DEF ContextIsOwn
  <2>3. RunnerAnswers'
    BY <2>0 DEF RunnerAnswers, Unlaunched
  <2>4. AnswerWaits'
    BY <2>0 DEF AnswerWaits
  <2>5. ErrorHasCause'
    BY <2>0 DEF ErrorHasCause
  <2>6. SlotHasCause'
    BY <2>0 DEF SlotHasCause
  <2> QED  BY <2>1, <2>2, <2>3, <2>4, <2>5, <2>6
<1>5. ASSUME NEW w \in Workers, TakeOutcome(w) PROVE BlameIInv'
  <2> USE <1>5 DEF TakeOutcome
  <2>0. cur[w] \in Checks
    OBVIOUS
  <2>1. LaunchIsFirst'
    BY <2>0 DEF LaunchIsFirst, Unlaunched
  <2>2. ContextIsOwn'
    BY <2>0 DEF ContextIsOwn
  <2>3. RunnerAnswers'
    BY <2>0 DEF RunnerAnswers
  <2>4. AnswerWaits'
    BY <2>0 DEF AnswerWaits
  <2>5. ErrorHasCause'
    <3>1. done[cur[w]] = "timeout" => cur[w] \notin inTime
      BY <2>0 DEF AnswerWaits
    <3>2. runner[cur[w]] = "finished"
      BY <2>0 DEF RunnerAnswers
    <3>3. done[cur[w]] = "canceled" => ctxDone
      BY <2>0 DEF RunnerAnswers, ContextIsOwn
    <3> QED  BY <2>0, <3>1, <3>2, <3>3 DEF ErrorHasCause
  <2>6. SlotHasCause'
    BY <2>0 DEF SlotHasCause
  <2> QED  BY <2>1, <2>2, <2>3, <2>4, <2>5, <2>6
<1>6. ASSUME NEW w \in Workers, SeeContext(w) PROVE BlameIInv'
  BY <1>6 DEF SeeContext, LaunchIsFirst, Unlaunched, ContextIsOwn, RunnerAnswers, AnswerWaits,
     ErrorHasCause, SlotHasCause
<1>7. ASSUME NEW w \in Workers, Repoll(w) PROVE BlameIInv'
  <2> USE <1>7 DEF Repoll
  <2>0. cur[w] \in Checks
    OBVIOUS
  <2>1. LaunchIsFirst'
    BY <2>0 DEF LaunchIsFirst, Unlaunched
  <2>2. ContextIsOwn'
    BY <2>0 DEF ContextIsOwn
  <2>3. RunnerAnswers'
    BY <2>0 DEF RunnerAnswers
  <2>4. AnswerWaits'
    BY <2>0 DEF AnswerWaits
  <2>5. ErrorHasCause'
    <3>1. CASE done[cur[w]] # "none"
      <4>1. done[cur[w]] = "timeout" => cur[w] \notin inTime
        BY <2>0 DEF AnswerWaits
      <4>2. runner[cur[w]] = "finished"
        BY <2>0, <3>1 DEF RunnerAnswers
      <4>3. done[cur[w]] = "canceled" => ctxDone
        BY <2>0, <3>1 DEF RunnerAnswers, ContextIsOwn
      <4> QED  BY <2>0, <3>1, <4>1, <4>2, <4>3 DEF ErrorHasCause
    <3>2. CASE done[cur[w]] = "none"
      <4>1. PICK e \in CheckCtxErrors(cur[w]) : got' = [got EXCEPT ![w] = e]
        BY <3>2
      <4>2. e = "timeout" => ctxDone \/ checkCtx[cur[w]] = "expired"
        BY <4>1 DEF CheckCtxErrors
      <4>3. e = "canceled" => ctxDone
        BY <2>0, <4>1 DEF CheckCtxErrors, ContextIsOwn
      <4>4. cur[w] \notin inTime
        BY <2>0, <3>2 DEF AnswerWaits
      <4> QED  BY <2>0, <3>2, <4>1, <4>2, <4>3, <4>4 DEF ErrorHasCause
    <3> QED  BY <3>1, <3>2
  <2>6. SlotHasCause'
    BY <2>0 DEF SlotHasCause
  <2> QED  BY <2>1, <2>2, <2>3, <2>4, <2>5, <2>6
<1>8. ASSUME NEW w \in Workers, Settle(w) PROVE BlameIInv'
  <2> USE <1>8 DEF Settle
  <2>0. cur[w] \in Checks /\ got[w] \in Outcomes
    BY DEF SettlesOutcome
  <2>a. \A v \in Workers : v # w /\ Busy(v) => cur[v] # cur[w]
    OBVIOUS
  <2>1. LaunchIsFirst'
    BY <2>0, <2>a DEF LaunchIsFirst, Unlaunched
  <2>2. ContextIsOwn'
    BY <2>0, <2>a DEF ContextIsOwn
  <2>3. RunnerAnswers'
    BY <2>0 DEF RunnerAnswers
  <2>4. AnswerWaits'
    BY <2>0 DEF AnswerWaits
  <2>5. ErrorHasCause'
    BY <2>0, <2>a DEF ErrorHasCause
  <2>6. SlotHasCause'
    <3>1. CASE got[w] \in Failures /\ ctxDone
      BY <2>0, <3>1 DEF SlotHasCause
    <3>2. CASE ~(got[w] \in Failures /\ ctxDone)
      <4> DEFINE i == cur[w]
      <4>1. items' = [items EXCEPT ![i] = ItemOf(i, got[w])]
        BY <3>2
      <4>2. ItemOf(i, got[w]).error # "canceled"
        BY <2>0, <3>2 DEF ItemOf, ErrorHasCause, Results, Failures, Outcomes
      <4>3. ItemOf(i, got[w]).error = "timeout" => got[w] = "timeout" /\ i \in Timed
        BY <2>0 DEF ItemOf, Results, Failures, Outcomes
      <4>4. got[w] = "timeout" =>
              /\ i \notin inTime
              /\ checkCtx[i] = "expired" \/ runner[i] = "finished"
        BY <2>0, <3>2 DEF ErrorHasCause, Failures
      <4>5. i \in Timed => checkCtx[i] \in {"live", "expired"}
        BY <2>0 DEF ContextIsOwn
      <4> QED  BY <2>0, <4>1, <4>2, <4>3, <4>4, <4>5 DEF SlotHasCause
    <3> QED  BY <3>1, <3>2
  <2> QED  BY <2>1, <2>2, <2>3, <2>4, <2>5, <2>6
<1>9. ASSUME NEW i \in Checks, Deliver(i) PROVE BlameIInv'
  <2> USE <1>9 DEF Deliver
  <2>1. PICK o \in Results \cup RequestErrors \cup CheckCtxErrors(i) :
          /\ done' = [done EXCEPT ![i] = o]
          /\ inTime' = IF CheckCtxDone(i) \/ o = "timeout" THEN inTime ELSE inTime \cup {i}
    OBVIOUS
  <2>2. /\ o # "none"
        /\ o = "canceled" => ctxDone \/ checkCtx[i] = "released"
    BY <2>1 DEF Results, RequestErrors, CheckCtxErrors
  <2>3. LaunchIsFirst'
    BY <2>1 DEF LaunchIsFirst, Unlaunched
  <2>4. ContextIsOwn'
    BY DEF ContextIsOwn
  <2>5. RunnerAnswers'
    BY <2>1, <2>2 DEF RunnerAnswers
  <2>6. AnswerWaits'
    BY <2>1, <2>2 DEF AnswerWaits, RunnerAnswers
  <2>7. ErrorHasCause'
    BY <2>1 DEF ErrorHasCause, CheckCtxDone
  <2>8. SlotHasCause'
    BY <2>1 DEF SlotHasCause, CheckCtxDone
  <2> QED  BY <2>3, <2>4, <2>5, <2>6, <2>7, <2>8
<1>10. ASSUME NEW i \in Checks, Expire(i) PROVE BlameIInv'
  BY <1>10 DEF Expire, LaunchIsFirst, Unlaunched, ContextIsOwn, RunnerAnswers, AnswerWaits,
     ErrorHasCause, SlotHasCause
<1>11. CASE Finish \/ UNCHANGED vars
  BY <1>11 DEF Finish, vars, LaunchIsFirst, Unlaunched, ContextIsOwn, RunnerAnswers, AnswerWaits,
     ErrorHasCause, SlotHasCause
<1> QED
  BY <1>1, <1>2, <1>3, <1>4, <1>5, <1>6, <1>7, <1>8, <1>9, <1>10, <1>11 DEF Next, WorkerStep

(* An answer that came in time is never replaced by a timeout, even when   *)
(* the worker's select saw the deadline first.                             *)
THEOREM PoolAnswerInTimeWins == Spec => []AnswerInTimeWins
<1>1. IInv /\ BlameIInv => AnswerInTimeWins
  BY DEF IInv, BlameIInv, SlotHasCause, TypeOK, AnswerInTimeWins
<1> QED  BY <1>1, InitIInv, NextIInv, InitBlame, NextBlame, PTL DEF Spec

(* A slot blames a check only for what that check did.                     *)
THEOREM PoolBlameIsOwn == Spec => []BlameIsOwn
<1>1. BlameIInv => BlameIsOwn
  BY DEF BlameIInv, SlotHasCause, BlameIsOwn
<1> QED  BY <1>1, InitIInv, NextIInv, InitBlame, NextBlame, PTL DEF Spec
-----------------------------------------------------------------------------
(* How a slot reads in the contract: blank is undecided, and a slot with   *)
(* one field is a verdict.                                                 *)
LEMMA VerdictOfSlot ==
  ASSUME TypeOK, SlotHasOneField, NEW i \in Checks
  PROVE  /\ verdictBar[i] = "unset" <=> items[i] = Blank
         /\ verdictBar[i] # "unset" => verdictBar[i] \in Contract!Verdicts
         /\ verdictBar[i] = "passed" <=> items[i].result = "pass"
         /\ verdictBar[i] = "errored" <=> items[i].error # "none"
  BY BlankIsItem DEF TypeOK, SlotHasOneField, verdictBar, Item, Blank, Results, Contract!Verdicts

(* Settle decides the check the worker holds, or leaves its slot blank.    *)
LEMMA SettleDecides ==
  ASSUME IInv, IInv', NEW w \in Workers, Settle(w)
  PROVE  Contract!Decide(cur[w]) \/ UNCHANGED Contract!contractVars
<1> USE DEF IInv
<1>1. CASE items' = items
  BY <1>1 DEF Settle, Contract!contractVars, verdictBar
<1>2. CASE items' = [items EXCEPT ![cur[w]] = ItemOf(cur[w], got[w])]
  <2> DEFINE i == cur[w]
  <2>1. i \in Checks /\ items[i] = Blank
    BY DEF Settle, HeldIsReceived, Busy
  <2>2. answer = Contract!Pending
    BY DEF Settle, AnswerFollowsWorkers, TypeOK, Contract!Pending
  <2>3. verdictBar[i] = "unset"
    BY <2>1, VerdictOfSlot
  <2>4. items'[i] # Blank
    BY <1>2, <2>1, ItemOfFills DEF TypeOK, Settle, SettlesOutcome
  <2>5. verdictBar'[i] \in Contract!Verdicts
    <3>1. ItemOf(i, got[w]).result = "none" <=> ItemOf(i, got[w]).error # "none"
      BY <2>1, ItemOfFills DEF Settle, SettlesOutcome
    <3>2. items'[i] = ItemOf(i, got[w]) /\ items'[i] \in Item
      BY <1>2, <2>1 DEF TypeOK
    <3> QED
      BY <2>1, <3>1, <3>2 DEF verdictBar, Item, Results, Contract!Verdicts
  <2>6. verdictBar' = [verdictBar EXCEPT ![i] = verdictBar'[i]]
    BY <1>2, <2>1 DEF verdictBar, TypeOK
  <2> QED
    BY <2>1, <2>2, <2>3, <2>5, <2>6 DEF Settle, Contract!Decide
<1> QED  BY <1>1, <1>2 DEF Settle

(* The caller's return is one of the two returns of the contract.          *)
LEMMA FinishReturns ==
  ASSUME IInv, IInv', Finish
  PROVE  Contract!ReturnReport \/ Contract!ReturnError
<1> USE DEF IInv
<1>1. answer = Contract!Pending
  BY DEF Finish, AnswerFollowsWorkers, TypeOK, Contract!Pending
<1>2. verdictBar' = verdictBar
  BY DEF Finish, verdictBar
<1>3. CASE ctxDone
  BY <1>1, <1>2, <1>3 DEF Finish, Contract!ReturnError, Contract!GoError
<1>4. CASE ~ctxDone
  <2>1. answer' = Aggregate /\ Aggregate.state # "panic"
    BY <1>4 DEF Finish, AnswerFollowsWorkers
  <2>2. \A i \in Checks : items[i] # Blank
    BY <2>1 DEF Aggregate
  <2>3. \A i \in Contract!Checks : verdictBar[i] # "unset"
    BY <2>2, VerdictOfSlot DEF Contract!Checks, Checks
  <2>4. Aggregate = Contract!ReportOf(verdictBar)
    BY <2>2, VerdictOfSlot DEF Aggregate, Contract!ReportOf, Contract!Checks, Checks
  <2> QED
    BY <1>1, <1>2, <2>1, <2>3, <2>4 DEF Finish, Contract!ReturnReport
<1> QED  BY <1>3, <1>4

(* The pool implements the contract of CheckBatch: at most one verdict per *)
(* check, a report only of all of them with the flags that follow from     *)
(* them, a Go error only under a context that is done, and nothing changes *)
(* after the return.                                                       *)
THEOREM PoolImplementsContract == Spec => ImplementsContract
<1>1. Init => Contract!Init
  BY BlankIsItem DEF Init, Contract!Init, Contract!Pending, Contract!Checks, Checks, verdictBar, Blank
<1>2. ASSUME IInv, IInv', [Next]_vars
      PROVE  [Contract!Next]_(Contract!contractVars)
  <2>1. CASE Cancel
    BY <2>1 DEF Cancel, Contract!Cancel, Contract!Next, verdictBar
  <2>2. ASSUME NEW w \in Workers, Settle(w) PROVE [Contract!Next]_(Contract!contractVars)
    <3>1. cur[w] \in Contract!Checks
      BY <1>2, <2>2 DEF IInv, Settle, HeldIsReceived, Busy, Checks, Contract!Checks
    <3> QED  BY <1>2, <2>2, <3>1, SettleDecides DEF Contract!Next
  <2>3. CASE Finish
    BY <1>2, <2>3, FinishReturns DEF Contract!Next
  <2>4. ASSUME NEW w \in Workers,
               Receive(w) \/ Leave(w) \/ Launch(w) \/ TakeOutcome(w) \/ SeeContext(w) \/ Repoll(w)
        PROVE  UNCHANGED Contract!contractVars
    BY <2>4 DEF Receive, Leave, Launch, TakeOutcome, SeeContext, Repoll, verdictBar,
       Contract!contractVars
  <2>5. ASSUME NEW i \in Checks, Deliver(i) \/ Expire(i)
        PROVE  UNCHANGED Contract!contractVars
    BY <2>5 DEF Deliver, Expire, verdictBar, Contract!contractVars
  <2>6. CASE UNCHANGED vars
    BY <2>6 DEF vars, verdictBar, Contract!contractVars
  <2> QED
    BY <1>2, <2>1, <2>2, <2>3, <2>4, <2>5, <2>6 DEF Next, WorkerStep
<1> QED
  BY <1>1, <1>2, InitIInv, NextIInv, PTL DEF Spec, Contract!Spec, ImplementsContract
=============================================================================
