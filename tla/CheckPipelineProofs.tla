------------------------ MODULE CheckPipelineProofs ------------------------
(***************************************************************************)
(* Proofs about CheckPipeline, for every set of requests, all thresholds   *)
(* and overrides, and any contents of the ledger.                          *)
(***************************************************************************)
EXTENDS CheckPipeline, TLAPS

(* What each step of the pipeline finds: the report says of every entry    *)
(* what its answer said, judged at the ledger of that answer.              *)
InstanceJudged ==
    report.instance = Assess(resp.instance, resp.ledger, thresholdsFor("instance"))

DataJudged ==
    report.data = [i \in DOMAIN req.keys |->
                      Assess(resp.data[req.keys[i]], resp.ledger, thresholdsFor("data"))]

CodeJudged ==
    report.code = IF resp.executable = "wasm"
                  THEN <<Assess(codeResp.code, codeResp.ledger, thresholdsFor("code"))>>
                  ELSE <<>>

ReportFaithful ==
    /\ pc \in {"coding", "pricing", "simulating"} => report.deployed
    /\ pc \in {"coding", "pricing", "simulating", "deciding"} /\ report.deployed =>
          resp.instance # Gone /\ InstanceJudged /\ DataJudged
    /\ pc = "coding" => resp.executable = "wasm"
    /\ pc \in {"pricing", "simulating", "deciding"} /\ report.deployed => CodeJudged
    /\ pc = "deciding" /\ ~report.deployed => resp.instance = Gone
    /\ pc \in {"simulating", "deciding"} =>
          report.status = IF report.deployed THEN worstStatus(report) ELSE "missing"

CallMade ==
    pc = "deciding" /\ req.op = "check" /\ report.deployed /\ req.fn => sim.kind # "none"

(* While the pipeline runs, nothing has failed but the advisory call.      *)
OnlyTimeFailed ==
    /\ exit = Running <=> pc # "exited"
    /\ pc # "exited" => failed \subseteq {"time"}

(* The part of TypeOK that the verdict rests on.                           *)
AnswersTyped ==
    /\ req \in Requests
    /\ resp.instance \in Entry /\ resp.ledger \in Int
    /\ \A k \in Asked : resp.data[k] \in Entry
    /\ codeResp.code \in Entry /\ codeResp.ledger \in Int
    /\ sim.kind \in {"none", "rejected", "returned"}
    /\ sim.kind = "returned" => sim.val \in ScVals
    /\ report.deployed \in BOOLEAN
    /\ DOMAIN report = DOMAIN NoReport

IInv ==
    /\ AnswersTyped
    /\ ReportFaithful
    /\ CallMade
    /\ OnlyTimeFailed
    /\ PassMeansAlive
    /\ FailHasReason
    /\ RuntimeErrorHasCause
    /\ StatusBacksVerdict
-----------------------------------------------------------------------------
(* ResolveThresholds: a critical threshold is the own one or the global.   *)
LEMMA CriticalResolves ==
  ASSUME NEW k \in Kinds
  PROVE  /\ thresholdsFor(k).critical \in Nat
         /\ thresholdsFor(k).critical = IF Overrides[k].critical # Unset
                                        THEN Overrides[k].critical ELSE Global.critical
BY PipelineAssumption
   DEF thresholdsFor, ResolveThresholds, OrElse, Thresholds, ThresholdOverrides, Unset

(* Evaluate, Absent and ttlCheck: the step of an entry does not fail just  *)
(* when the entry is alive.                                                *)
LEMMA AliveOutcome ==
  ASSUME NEW e \in Entry, NEW l \in Int, NEW k \in Kinds
  PROVE  /\ ttlOutcome(Assess(e, l, thresholdsFor(k))) # "fail" <=> Alive(e, l, k)
         /\ Assess(e, l, thresholdsFor(k)).status \in Statuses
         /\ Assess(e, l, thresholdsFor(k)).status \in {"critical", "expired", "missing"}
              <=> ~Alive(e, l, k)
<1> DEFINE c == thresholdsFor(k).critical
           w == thresholdsFor(k).warn
           s == Assess(e, l, thresholdsFor(k)).status
<1>1. c \in Nat /\ c = IF Overrides[k].critical # Unset
                       THEN Overrides[k].critical ELSE Global.critical
  BY CriticalResolves
<1>2. e = Gone => s = "missing" /\ ~Alive(e, l, k)
  BY DEF Assess, Alive
<1>3. ASSUME e # Gone, e.kind = "untimed"
      PROVE  s = "unknown" /\ Alive(e, l, k)
  BY <1>3 DEF Assess, Evaluate, Alive
<1>4. ASSUME e # Gone, e.kind # "untimed"
      PROVE  /\ s \in {"expired", "critical", "warning", "healthy"}
             /\ s \in {"expired", "critical"} <=> ~Alive(e, l, k)
  <2>1. e.kind = "timed" /\ e.until \in Int
    BY <1>4, PipelineAssumption DEF Entry, Entries, Gone, Untimed, Timed
  <2>2. s = IF e.until - l < 0 THEN "expired"
            ELSE IF e.until - l <= c THEN "critical"
            ELSE IF e.until - l <= w THEN "warning" ELSE "healthy"
    BY <1>4 DEF Assess, Evaluate
  <2>3. Alive(e, l, k) <=> e.until > l + c
    BY <1>1, <1>4, <2>1 DEF Alive
  <2> HIDE DEF s, c, w
  <2> QED  BY <1>1, <2>1, <2>2, <2>3
<1>5. ttlOutcome(Assess(e, l, thresholdsFor(k))) # "fail" <=> s \in {"healthy", "unknown", "warning"}
  BY DEF ttlOutcome
<1>6. /\ s \in Statuses
      /\ s \in {"critical", "expired", "missing"} <=> ~Alive(e, l, k)
      /\ s \in {"healthy", "unknown", "warning"} <=> Alive(e, l, k)
  <2> HIDE DEF s
  <2> QED  BY <1>2, <1>3, <1>4 DEF Statuses
<1> QED  BY <1>5, <1>6

(* Worst: of no status in the set is the severity above that of the worst. *)
LEMMA WorstIsWorst ==
  ASSUME NEW S \in SUBSET Statuses
  PROVE  /\ Worst(S) \in S \cup {"healthy"}
         /\ \A t \in S : Severity[t] <= Severity[Worst(S)]
<1> DEFINE T == S \cup {"healthy"}
           top(s) == \A t \in T : Severity[t] <= Severity[s]
<1>1. \E s \in T : top(s)
  <2> USE DEF Severity, Statuses
  <2>1. CASE "missing" \in S
    <3>1. top("missing")  OBVIOUS
    <3> QED  BY <2>1, <3>1
  <2>2. CASE "missing" \notin S /\ "expired" \in S
    <3>1. top("expired")  BY <2>2
    <3> QED  BY <2>2, <3>1
  <2>3. CASE "missing" \notin S /\ "expired" \notin S /\ "critical" \in S
    <3>1. top("critical")  BY <2>3
    <3> QED  BY <2>3, <3>1
  <2>4. CASE S \subseteq {"healthy", "unknown", "warning"} /\ "warning" \in S
    <3>1. top("warning")  BY <2>4
    <3> QED  BY <2>4, <3>1
  <2>5. CASE S \subseteq {"healthy", "unknown"} /\ "unknown" \in S
    <3>1. top("unknown")  BY <2>5
    <3> QED  BY <2>5, <3>1
  <2>6. CASE S \subseteq {"healthy"}
    <3>1. top("healthy")  BY <2>6
    <3> QED  BY <3>1
  <2> QED  BY <2>1, <2>2, <2>3, <2>4, <2>5, <2>6
<1> QED  BY <1>1 DEF Worst

(* compareScVals: by value between integers, and exactly otherwise.        *)
LEMMA CompareMeans ==
  ASSUME NEW e, NEW a
  PROVE  compareScVals(e, a) <=>
            \/ e = a
            \/ {e.type, a.type} \subseteq IntTypes /\ e.val = a.val
BY DEF compareScVals

(* Every entry asked for, through the report, is an outcome of some step.  *)
LEMMA OutcomesMeanAlive ==
  ASSUME AnswersTyped, ReportFaithful, pc = "deciding", report.deployed
  PROVE  /\ Outcomes["instance_ttl"][1] # "fail" <=> Alive(resp.instance, resp.ledger, "instance")
         /\ (\A i \in DOMAIN Outcomes["code_ttl"] : Outcomes["code_ttl"][i] # "fail")
              <=> (resp.executable = "wasm" => Alive(codeResp.code, codeResp.ledger, "code"))
         /\ (\A i \in DOMAIN Outcomes["data_ttl"] : Outcomes["data_ttl"][i] # "fail")
              <=> \A k \in Asked : Alive(resp.data[k], resp.ledger, "data")
<1> USE DEF AnswersTyped
<1>0. /\ InstanceJudged /\ DataJudged /\ CodeJudged
      /\ {"instance", "code", "data"} \subseteq Kinds
  BY DEF ReportFaithful, Kinds
<1>1. Outcomes["instance_ttl"][1] # "fail" <=> Alive(resp.instance, resp.ledger, "instance")
  <2>1. Outcomes["instance_ttl"][1] = ttlOutcome(report.instance)
    BY DEF Outcomes
  <2> QED  BY <1>0, <2>1, AliveOutcome DEF InstanceJudged
<1>2. (\A i \in DOMAIN Outcomes["code_ttl"] : Outcomes["code_ttl"][i] # "fail")
        <=> (resp.executable = "wasm" => Alive(codeResp.code, codeResp.ledger, "code"))
  <2> DEFINE code == Assess(codeResp.code, codeResp.ledger, thresholdsFor("code"))
             outcome == ttlOutcome(code)
  <2>1. CASE resp.executable = "wasm"
    <3>1. report.code = <<code>>
      BY <1>0, <2>1 DEF CodeJudged
    <3>2. Outcomes["code_ttl"] = IF report.code = <<>> THEN <<"skip">>
                                 ELSE <<ttlOutcome(report.code[1])>>
      BY DEF Outcomes
    <3>3. Outcomes["code_ttl"] = <<outcome>>
      <4> HIDE DEF code
      <4> QED  BY <3>1, <3>2
    <3>4. outcome # "fail" <=> Alive(codeResp.code, codeResp.ledger, "code")
      BY <1>0, AliveOutcome
    <3> HIDE DEF outcome
    <3> QED  BY <2>1, <3>3, <3>4
  <2>2. CASE resp.executable # "wasm"
    <3>1. report.code = <<>>
      BY <1>0, <2>2 DEF CodeJudged
    <3>2. Outcomes["code_ttl"] = <<"skip">>
      BY <3>1 DEF Outcomes
    <3> QED  BY <2>2, <3>2
  <2> QED  BY <2>1, <2>2
<1>3. (\A i \in DOMAIN Outcomes["data_ttl"] : Outcomes["data_ttl"][i] # "fail")
        <=> \A k \in Asked : Alive(resp.data[k], resp.ledger, "data")
  <2>1. Outcomes["data_ttl"] = [i \in DOMAIN report.data |-> ttlOutcome(report.data[i])]
    BY DEF Outcomes
  <2>2. /\ DOMAIN report.data = DOMAIN req.keys
        /\ \A i \in DOMAIN req.keys :
              report.data[i] = Assess(resp.data[req.keys[i]], resp.ledger, thresholdsFor("data"))
    BY <1>0 DEF DataJudged
  <2>3. \A i \in DOMAIN req.keys :
           ttlOutcome(report.data[i]) # "fail" <=> Alive(resp.data[req.keys[i]], resp.ledger, "data")
    <3> TAKE i \in DOMAIN req.keys
    <3>1. resp.data[req.keys[i]] \in Entry
      BY DEF Asked
    <3> QED  BY <1>0, <2>2, <3>1, AliveOutcome
  <2> QED  BY <2>1, <2>2, <2>3 DEF Asked
<1> QED  BY <1>1, <1>2, <1>3

(* worstStatus: the status of the report is critical or worse just when an *)
(* entry is not alive.                                                     *)
LEMMA StatusMeansAlive ==
  ASSUME AnswersTyped, ReportFaithful, pc = "deciding", report.deployed
  PROVE  /\ report.status \in Statuses
         /\ Severity[report.status] >= Severity["critical"] <=> ~EntriesAlive
<1> USE DEF AnswersTyped
<1> DEFINE S == StatusesOf(report)
           bad == {"critical", "expired", "missing"}
<1>0. /\ InstanceJudged /\ DataJudged /\ CodeJudged
      /\ {"instance", "code", "data"} \subseteq Kinds
      /\ report.status = Worst(S)
  BY DEF ReportFaithful, Kinds, worstStatus
<1>1. /\ report.instance.status \in Statuses
      /\ report.instance.status \in bad <=> ~Alive(resp.instance, resp.ledger, "instance")
  BY <1>0, AliveOutcome DEF InstanceJudged
<1>2. /\ {report.code[i].status : i \in DOMAIN report.code} \subseteq Statuses
      /\ (\E i \in DOMAIN report.code : report.code[i].status \in bad)
           <=> ~(resp.executable = "wasm" => Alive(codeResp.code, codeResp.ledger, "code"))
  <2> DEFINE code == Assess(codeResp.code, codeResp.ledger, thresholdsFor("code"))
  <2>1. report.code = IF resp.executable = "wasm" THEN <<code>> ELSE <<>>
    BY <1>0 DEF CodeJudged
  <2>2. /\ code.status \in Statuses
        /\ code.status \in bad <=> ~Alive(codeResp.code, codeResp.ledger, "code")
    BY <1>0, AliveOutcome
  <2> HIDE DEF code
  <2> QED  BY <2>1, <2>2
<1>3. /\ {report.data[i].status : i \in DOMAIN report.data} \subseteq Statuses
      /\ (\E i \in DOMAIN report.data : report.data[i].status \in bad)
           <=> ~\A k \in Asked : Alive(resp.data[k], resp.ledger, "data")
  <2>1. /\ DOMAIN report.data = DOMAIN req.keys
        /\ \A i \in DOMAIN req.keys :
              report.data[i] = Assess(resp.data[req.keys[i]], resp.ledger, thresholdsFor("data"))
    BY <1>0 DEF DataJudged
  <2>2. \A i \in DOMAIN req.keys :
           /\ report.data[i].status \in Statuses
           /\ report.data[i].status \in bad <=> ~Alive(resp.data[req.keys[i]], resp.ledger, "data")
    <3> TAKE i \in DOMAIN req.keys
    <3>1. resp.data[req.keys[i]] \in Entry
      BY DEF Asked
    <3> QED  BY <1>0, <2>1, <3>1, AliveOutcome
  <2> QED  BY <2>1, <2>2 DEF Asked
<1>4. /\ S \in SUBSET Statuses
      /\ (\E s \in S : s \in bad) <=> ~EntriesAlive
  BY <1>1, <1>2, <1>3 DEF StatusesOf, EntriesAlive
<1> HIDE DEF S
<1>5. /\ report.status \in S \cup {"healthy"}
      /\ \A t \in S : Severity[t] <= Severity[report.status]
  BY <1>0, <1>4, WorstIsWorst
<1>6. \A t \in Statuses : /\ Severity[t] \in 0 .. 5
                          /\ Severity[t] >= Severity["critical"] <=> t \in bad
  BY DEF Severity, Statuses
<1>7. "healthy" \in Statuses /\ "healthy" \notin bad /\ "critical" \in Statuses
  BY DEF Statuses
<1> HIDE DEF bad
<1> QED  BY <1>4, <1>5, <1>6, <1>7

(* Check: the verdict of the steps is that of the answers.                 *)
LEMMA VerdictMeans ==
  ASSUME AnswersTyped, ReportFaithful, CallMade, pc = "deciding", req.op = "check"
  PROVE  /\ ~StepAborts
         /\ CheckOK <=> EntriesAlive /\ CallAsExpected
         /\ report.status \in Statuses
         /\ Severity[report.status] >= Severity["critical"] <=> ~EntriesAlive
<1>1. CASE ~report.deployed
  <2>1. /\ StepsRun = {"deployed"}
        /\ Outcomes["deployed"] = <<"fail">>
    BY <1>1 DEF StepsRun, Outcomes
  <2>2. resp.instance = Gone /\ report.status = "missing"
    BY <1>1 DEF ReportFaithful
  <2>3. ~EntriesAlive
    BY <2>2 DEF EntriesAlive, Alive
  <2>4. ~CheckOK /\ ~StepAborts
    BY <2>1 DEF CheckOK, StepAborts
  <2>5. Severity["missing"] >= Severity["critical"] /\ "missing" \in Statuses
    BY DEF Severity, Statuses
  <2> QED  BY <2>2, <2>3, <2>4, <2>5
<1>2. CASE report.deployed
  <2>1. ~StepAborts
    BY <1>2 DEF StepAborts, CallMade
  <2>2. Outcomes["deployed"] = <<"pass">>
    BY <1>2 DEF Outcomes
  <2>3. DOMAIN Outcomes["instance_ttl"] = {1}
    BY DEF Outcomes
  <2>4. (\A i \in DOMAIN Outcomes["simulate"] : Outcomes["simulate"][i] # "fail")
          <=> (req.fn => sim.kind = "returned")
    BY DEF Outcomes
  <2>5. (\A i \in DOMAIN Outcomes["expect"] : Outcomes["expect"][i] # "fail")
          <=> (req.expect # NoExpect => expectOutcome # "fail")
    BY DEF Outcomes
  <2>6. expectOutcome # "fail" <=>
           /\ req.fn /\ sim.kind = "returned" /\ req.expect # BadExpect
           /\ \/ req.expect = sim.val
              \/ {req.expect.type, sim.val.type} \subseteq IntTypes /\ req.expect.val = sim.val.val
    BY CompareMeans DEF expectOutcome
  <2>7. CheckOK <=> \A s \in checkSteps : \A i \in DOMAIN Outcomes[s] : Outcomes[s][i] # "fail"
    BY <1>2 DEF CheckOK, StepsRun
  <2>8. CheckOK <=>
          /\ \A i \in DOMAIN Outcomes["instance_ttl"] : Outcomes["instance_ttl"][i] # "fail"
          /\ \A i \in DOMAIN Outcomes["code_ttl"] : Outcomes["code_ttl"][i] # "fail"
          /\ \A i \in DOMAIN Outcomes["data_ttl"] : Outcomes["data_ttl"][i] # "fail"
          /\ \A i \in DOMAIN Outcomes["simulate"] : Outcomes["simulate"][i] # "fail"
          /\ \A i \in DOMAIN Outcomes["expect"] : Outcomes["expect"][i] # "fail"
    BY <2>2, <2>7 DEF checkSteps
  <2>9. CheckOK <=> EntriesAlive /\ CallAsExpected
    BY <1>2, <2>3, <2>4, <2>5, <2>6, <2>8, OutcomesMeanAlive DEF EntriesAlive, CallAsExpected
  <2> QED  BY <1>2, <2>1, <2>9, StatusMeansAlive
<1> QED  BY <1>1, <1>2 DEF AnswersTyped
-----------------------------------------------------------------------------
Verdicts ==
    PassMeansAlive /\ FailHasReason /\ RuntimeErrorHasCause /\ StatusBacksVerdict

(* As long as there is no exit code, nothing is said.                      *)
LEMMA RunningHasNoVerdict ==
  ASSUME exit = Running  PROVE  Verdicts
BY DEF Verdicts, PassMeansAlive, FailHasReason, RuntimeErrorHasCause, StatusBacksVerdict, Running

(* A Go error, from a call that the verdict needs.                         *)
LEMMA FailKeepsIInv ==
  ASSUME IInv, NEW call \in {"plan", "entries", "decode", "code", "extend", "simulate"},
         Fail(call), UNCHANGED <<req, ctxDone, measured, resp, codeResp, report, sim>>
  PROVE  IInv'
<1>1. AnswersTyped'
  BY DEF IInv, AnswersTyped, Asked
<1>2. ReportFaithful' /\ CallMade' /\ OnlyTimeFailed'
  BY DEF Fail, ReportFaithful, CallMade, OnlyTimeFailed, Running
<1>3. PassMeansAlive' /\ FailHasReason' /\ StatusBacksVerdict'
  BY DEF Fail, PassMeansAlive, FailHasReason, StatusBacksVerdict
<1>4. RuntimeErrorHasCause'
  BY DEF Fail, RuntimeErrorHasCause
<1> QED  BY <1>1, <1>2, <1>3, <1>4 DEF IInv

(* The last step: the exit code is the verdict of the answers, or 2.       *)
LEMMA DecideKeepsIInv ==
  ASSUME IInv, Decide  PROVE  IInv'
<1> USE DEF IInv
<1>1. /\ AnswersTyped'
      /\ ReportFaithful' /\ CallMade'
  BY DEF Decide, AnswersTyped, Asked, ReportFaithful, CallMade
<1>2. /\ EntriesAlive' <=> EntriesAlive
      /\ CallAsExpected' <=> CallAsExpected
      /\ req' = req /\ report' = report
  BY DEF Decide, EntriesAlive, CallAsExpected, Asked
<1>3. req.op = "check" =>
         /\ ~StepAborts
         /\ CheckOK <=> EntriesAlive /\ CallAsExpected
         /\ Severity[report.status] >= Severity["critical"] <=> ~EntriesAlive
  BY VerdictMeans DEF Decide
<1>4. ~StepAborts
  BY <1>3 DEF StepAborts
<1>5. PICK written \in BOOLEAN, closed \in BOOLEAN :
         /\ failed' = failed \cup (IF written /\ closed THEN {} ELSE {"output"})
         /\ exit' = IF ~written THEN 2
                    ELSE IF req.op = "check" /\ ~CheckOK THEN 1
                    ELSE IF ~closed THEN 2 ELSE 0
  BY <1>4 DEF Decide
<1>6. OnlyTimeFailed'
  BY <1>5 DEF Decide, OnlyTimeFailed, Running
<1>7. PassMeansAlive' /\ FailHasReason'
  BY <1>2, <1>3, <1>5 DEF PassMeansAlive, FailHasReason
<1>8. RuntimeErrorHasCause'
  BY <1>5 DEF RuntimeErrorHasCause
<1>9. exit' \in {0, 1} /\ req.op = "check" => (exit' = 1 <=> ~(EntriesAlive /\ CallAsExpected))
  BY <1>3, <1>5
<1>10. Severity[report.status] < Severity["critical"] /\ req.op = "check" => EntriesAlive
  <2>1. \A t \in Statuses : Severity[t] \in Int
    BY DEF Severity, Statuses
  <2>2. req.op = "check" => report.status \in Statuses
    BY VerdictMeans DEF Decide
  <2> QED  BY <1>3, <2>1, <2>2 DEF Severity
<1>11. StatusBacksVerdict'
  BY <1>2, <1>3, <1>9, <1>10 DEF StatusBacksVerdict
<1> QED  BY <1>1, <1>6, <1>7, <1>8, <1>11

LEMMA InitIInv == Init => IInv
<1> SUFFICES ASSUME Init PROVE IInv
  OBVIOUS
<1> USE PipelineAssumption DEF Init
<1>1. AnswersTyped
  <2>1. Gone \in Entry
    BY DEF Entry, Entries
  <2>2. \A k \in Asked : k \in DataKeys
    BY DEF Asked, RequestShape
  <2> QED  BY <2>1, <2>2 DEF AnswersTyped, NoResp, NoCodeResp, NoReport
<1>2. ReportFaithful /\ CallMade /\ OnlyTimeFailed
  BY DEF ReportFaithful, CallMade, OnlyTimeFailed
<1> QED  BY <1>1, <1>2, RunningHasNoVerdict DEF IInv, Verdicts

LEMMA NextIInv == IInv /\ [Next]_vars => IInv'
<1> SUFFICES ASSUME IInv, [Next]_vars PROVE IInv'
  OBVIOUS
<1> DEFINE Rest == AnswersTyped /\ ReportFaithful /\ CallMade /\ OnlyTimeFailed
(* An action that does not end the pipeline need only keep the first half. *)
<1>0. ASSUME Rest', exit' = Running PROVE IInv'
  <2>1. Verdicts'
    BY <1>0, RunningHasNoVerdict DEF Verdicts, PassMeansAlive, FailHasReason,
       RuntimeErrorHasCause, StatusBacksVerdict, Running
  <2> QED  BY <1>0, <2>1 DEF IInv, Verdicts
<1>r. pc # "exited" => exit = Running
  BY DEF IInv, OnlyTimeFailed
<1> USE DEF IInv
<1>1. CASE Cancel
  <2>1. Rest'
    BY <1>1 DEF Cancel, AnswersTyped, Asked, ReportFaithful, InstanceJudged, DataJudged,
       CodeJudged, CallMade, OnlyTimeFailed, worstStatus, StatusesOf
  <2> QED  BY <1>0, <1>1, <1>r, <2>1 DEF Cancel
<1>2. CASE PlanFails
  BY <1>2, FailKeepsIInv DEF PlanFails
<1>3. CASE ReadEntries
  <2>1. PICK l \in Ledgers, i \in Entry, x \in Executables, d \in [Asked -> Entry] :
           resp' = [ledger |-> l, instance |-> i, executable |-> x,
                    data |-> [k \in DataKeys |-> IF k \in Asked THEN d[k] ELSE Gone]]
    BY <1>3 DEF ReadEntries
  <2>2. Asked \subseteq DataKeys
    BY PipelineAssumption DEF Asked, AnswersTyped, RequestShape
  <2>3. \A k \in Asked : resp'.data[k] \in Entry
    BY <2>1, <2>2
  <2>4. AnswersTyped'
    BY <1>3, <2>1, <2>3 DEF ReadEntries, AnswersTyped, Asked, Ledgers
  <2>5. ReportFaithful' /\ CallMade' /\ OnlyTimeFailed'
    BY <1>3 DEF ReadEntries, ReportFaithful, CallMade, OnlyTimeFailed
  <2> QED  BY <1>0, <1>3, <1>r, <2>4, <2>5 DEF ReadEntries
<1>4. CASE ReadEntriesFails
  BY <1>4, FailKeepsIInv DEF ReadEntriesFails
<1>5. CASE UseMeasurement \/ Measure \/ FallBack
  <2>1. Rest'
    BY <1>5 DEF UseMeasurement, Measure, FallBack, AnswersTyped, Asked, ReportFaithful,
       CallMade, OnlyTimeFailed
  <2> QED  BY <1>0, <1>5, <1>r, <2>1 DEF UseMeasurement, Measure, FallBack
<1>6. CASE TimingAborted
  <2>1. Rest'
    BY <1>6 DEF TimingAborted, Fail, AnswersTyped, Asked, ReportFaithful, CallMade,
       OnlyTimeFailed, Running
  <2>2. PassMeansAlive' /\ FailHasReason' /\ StatusBacksVerdict'
    BY <1>6 DEF TimingAborted, Fail, PassMeansAlive, FailHasReason, StatusBacksVerdict
  <2>3. RuntimeErrorHasCause'
    BY <1>6 DEF TimingAborted, Fail, RuntimeErrorHasCause, OnlyTimeFailed
  <2> QED  BY <2>1, <2>2, <2>3
<1>7. CASE ReportUndeployed
  <2>1. /\ report'.deployed = FALSE /\ report'.status = "missing"
        /\ DOMAIN report' = DOMAIN NoReport
        /\ pc' = "deciding" /\ pc = "judging"
        /\ resp.instance = Gone
        /\ UNCHANGED <<req, ctxDone, measured, resp, codeResp, sim, failed, exit>>
    BY <1>7 DEF ReportUndeployed, NoReport, SimulateNext
  <2> HIDE <1>7
  <2>2. Rest'
    BY <2>1 DEF AnswersTyped, Asked, ReportFaithful, CallMade, OnlyTimeFailed
  <2> QED  BY <1>0, <1>r, <2>1, <2>2
<1>8. CASE InstanceUndecodable
  BY <1>8, FailKeepsIInv DEF InstanceUndecodable
<1>9. CASE JudgeEntries
  <2>1. /\ report'.deployed = TRUE
        /\ report'.instance = Assess(resp.instance, resp.ledger, thresholdsFor("instance"))
        /\ report'.data = [i \in DOMAIN req.keys |->
                Assess(resp.data[req.keys[i]], resp.ledger, thresholdsFor("data"))]
        /\ report'.code = <<>>
        /\ DOMAIN report' = DOMAIN NoReport
        /\ pc' = IF resp.executable = "wasm" THEN "coding" ELSE "pricing"
        /\ pc = "judging" /\ resp.instance # Gone
        /\ UNCHANGED <<req, ctxDone, measured, resp, codeResp, sim, failed, exit>>
    BY <1>9 DEF JudgeEntries, NoReport
  <2> HIDE <1>9
  <2>2. InstanceJudged' /\ DataJudged'
    BY <2>1 DEF InstanceJudged, DataJudged, thresholdsFor
  <2>3. pc' = "pricing" => CodeJudged'
    BY <2>1 DEF CodeJudged
  <2>4. Rest'
    BY <2>1, <2>2, <2>3 DEF AnswersTyped, Asked, ReportFaithful, CallMade, OnlyTimeFailed
  <2> QED  BY <1>0, <1>r, <2>1, <2>4
<1>10. CASE ReadCode
  <2>1. PICK l \in Ledgers, e \in Entry :
           /\ codeResp' = [ledger |-> l, code |-> e]
           /\ report' = [report EXCEPT !.code = <<Assess(e, l, thresholdsFor("code"))>>]
    BY <1>10 DEF ReadCode
  <2>2. /\ pc = "coding" /\ pc' = "pricing"
        /\ UNCHANGED <<req, ctxDone, measured, resp, sim, failed, exit>>
    BY <1>10 DEF ReadCode
  <2>3. /\ report'.code = <<Assess(e, l, thresholdsFor("code"))>>
        /\ report'.deployed = report.deployed
        /\ report'.instance = report.instance /\ report'.data = report.data
        /\ DOMAIN report' = DOMAIN report
    BY <2>1 DEF AnswersTyped, NoReport
  <2>4. codeResp'.code = e /\ codeResp'.ledger = l
    BY <2>1
  <2>5. InstanceJudged' /\ DataJudged' /\ CodeJudged'
    BY <2>2, <2>3, <2>4 DEF ReportFaithful, InstanceJudged, DataJudged, CodeJudged, thresholdsFor
  <2>6. Rest'
    BY <2>2, <2>3, <2>4, <2>5 DEF AnswersTyped, Asked, Ledgers, NoReport, ReportFaithful,
       CallMade, OnlyTimeFailed
  <2> QED  BY <1>0, <1>r, <2>2, <2>6
<1>11. CASE ReadCodeFails
  BY <1>11, FailKeepsIInv DEF ReadCodeFails
<1>12. CASE NoteEstimate \/ PriceEstimate
  <2>1. /\ pc = "pricing" /\ pc' = "pricing"
        /\ UNCHANGED <<req, ctxDone, measured, resp, codeResp, sim, failed, exit>>
        /\ \E b \in BOOLEAN : AddEstimate(b)
    BY <1>12 DEF NoteEstimate, PriceEstimate
  <2>2. /\ report'.deployed = report.deployed /\ report'.instance = report.instance
        /\ report'.code = report.code /\ report'.data = report.data
        /\ DOMAIN report' = DOMAIN report
    BY <2>1 DEF AddEstimate, AnswersTyped, NoReport
  <2>3. InstanceJudged' /\ DataJudged' /\ CodeJudged'
    BY <2>1, <2>2 DEF ReportFaithful, InstanceJudged, DataJudged, CodeJudged, thresholdsFor
  <2>4. Rest'
    BY <2>1, <2>2, <2>3 DEF AnswersTyped, Asked, NoReport, ReportFaithful, CallMade, OnlyTimeFailed
  <2>5. exit' = Running
    BY <1>r, <2>1
  <2> QED  BY <1>0, <2>4, <2>5
<1>13. CASE PriceFails
  BY <1>13, FailKeepsIInv DEF PriceFails
<1>14. CASE FinishReport
  <2>1. /\ pc = "pricing" /\ pc' = SimulateNext(report) /\ report.deployed
        /\ UNCHANGED <<req, ctxDone, measured, resp, codeResp, sim, failed, exit>>
        /\ report' = [report EXCEPT !.status = worstStatus(report)]
    BY <1>14 DEF FinishReport, ReportFaithful
  <2>2. /\ report'.deployed = report.deployed /\ report'.instance = report.instance
        /\ report'.code = report.code /\ report'.data = report.data
        /\ report'.status = worstStatus(report)
        /\ DOMAIN report' = DOMAIN report
    BY <2>1 DEF AnswersTyped, NoReport
  <2>3. InstanceJudged' /\ DataJudged' /\ CodeJudged'
    BY <2>1, <2>2 DEF ReportFaithful, InstanceJudged, DataJudged, CodeJudged, thresholdsFor
  <2>4. report'.status = worstStatus(report')
    BY <2>2 DEF worstStatus, StatusesOf
  <2>5. /\ pc' \in {"simulating", "deciding"}
        /\ pc' = "deciding" => ~(req.op = "check" /\ req.fn)
    BY <2>1 DEF SimulateNext
  <2>6. ReportFaithful'
    BY <2>1, <2>2, <2>3, <2>4, <2>5 DEF ReportFaithful
  <2>7. Rest'
    BY <2>1, <2>2, <2>5, <2>6 DEF AnswersTyped, Asked, NoReport, CallMade, OnlyTimeFailed
  <2>8. exit' = Running
    BY <1>r, <2>1
  <2> QED  BY <1>0, <2>7, <2>8
<1>15. CASE Simulate
  <2>1. /\ pc = "simulating" /\ pc' = "deciding"
        /\ UNCHANGED <<req, ctxDone, measured, resp, codeResp, report, failed, exit>>
        /\ sim'.kind \in {"rejected", "returned"}
        /\ sim'.kind = "returned" => sim'.val \in ScVals
    BY <1>15 DEF Simulate
  <2> HIDE <1>15
  <2>2. ReportFaithful'
    BY <2>1 DEF ReportFaithful, InstanceJudged, DataJudged, CodeJudged, worstStatus, StatusesOf,
       thresholdsFor
  <2>3. Rest'
    BY <2>1, <2>2 DEF AnswersTyped, Asked, CallMade, OnlyTimeFailed
  <2> QED  BY <1>0, <1>r, <2>1, <2>3
<1>16. CASE SimulateFails
  BY <1>16, FailKeepsIInv DEF SimulateFails
<1>17. CASE Decide
  BY <1>17, DecideKeepsIInv
<1>18. CASE UNCHANGED vars
  BY <1>18 DEF vars, AnswersTyped, Asked, ReportFaithful, InstanceJudged, DataJudged,
     CodeJudged, CallMade, OnlyTimeFailed, worstStatus, StatusesOf, PassMeansAlive,
     FailHasReason, RuntimeErrorHasCause, StatusBacksVerdict, EntriesAlive, CallAsExpected
<1> QED
  BY <1>1, <1>2, <1>3, <1>4, <1>5, <1>6, <1>7, <1>8, <1>9, <1>10, <1>11, <1>12, <1>13,
     <1>14, <1>15, <1>16, <1>17, <1>18 DEF Next
-----------------------------------------------------------------------------
(* Exit code 0 of a check vouches for every entry at the ledger of its own *)
(* answer and for the call, whatever the thresholds and the answers are.   *)
THEOREM PipelinePassMeansAlive == Spec => []PassMeansAlive
<1>1. IInv => PassMeansAlive
  BY DEF IInv
<1> QED  BY <1>1, InitIInv, NextIInv, PTL DEF Spec

(* Exit code 1 is never the fault of a warning, of an entry without a TTL  *)
(* or of a call that is advisory.                                          *)
THEOREM PipelineFailHasReason == Spec => []FailHasReason
<1>1. IInv => FailHasReason
  BY DEF IInv
<1> QED  BY <1>1, InitIInv, NextIInv, PTL DEF Spec

(* Exit code 2 has a cause that is not the health of the contract.         *)
THEOREM PipelineRuntimeErrorHasCause == Spec => []RuntimeErrorHasCause
<1>1. IInv => RuntimeErrorHasCause
  BY DEF IInv
<1> QED  BY <1>1, InitIInv, NextIInv, PTL DEF Spec

(* The status of a report and the verdict of its steps do not contradict   *)
(* each other, though each is computed on its own.                         *)
THEOREM PipelineStatusBacksVerdict == Spec => []StatusBacksVerdict
<1>1. IInv => StatusBacksVerdict
  BY DEF IInv
<1> QED  BY <1>1, InitIInv, NextIInv, PTL DEF Spec
-----------------------------------------------------------------------------
LEMMA AssessTyped ==
  ASSUME NEW e \in Entry, NEW l \in 0 .. MaxLedger, NEW k \in Kinds
  PROVE  Assess(e, l, thresholdsFor(k)) \in TTL
<1>1. l \in Int
  BY PipelineAssumption
<1>2. Assess(e, l, thresholdsFor(k)).status \in Statuses
  BY <1>1, AliveOutcome
<1> QED  BY <1>2 DEF Assess, TTL

LEMMA FunctionIsSeq ==
  ASSUME NEW S, NEW n \in Nat, NEW f \in [1 .. n -> S]
  PROVE  f \in Seq(S)
OBVIOUS

LEMMA RemainderFits ==
  ASSUME NEW x \in Nat, NEW m \in Nat
  PROVE  x % (m + 1) \in 0 .. m
OBVIOUS

LEMMA BasicsTyped ==
  /\ Gone \in Entry /\ 0 \in 0 .. MaxLedger /\ Ledgers \subseteq 0 .. MaxLedger
  /\ MaxUint \in Nat /\ NoTTL \in TTL
  /\ NoReport \in [deployed : BOOLEAN, instance : TTL, code : Seq(TTL), data : Seq(TTL),
                    estimates : Seq([priced : BOOLEAN, extendTo : 0 .. MaxUint]),
                    status : Statuses, ledger : 0 .. MaxLedger]
<1>1. Gone \in Entry /\ 0 \in 0 .. MaxLedger /\ Ledgers \subseteq 0 .. MaxLedger
      /\ MaxUint \in Nat
  BY PipelineAssumption DEF Entry, Entries, Gone, Ledgers
<1>2. NoTTL \in TTL
  BY <1>1 DEF NoTTL, TTL, Statuses
<1> QED  BY <1>1, <1>2 DEF NoReport, Statuses

(* A request is one of its shape.                                          *)
LEMMA RequestTyped ==
  ASSUME req \in Requests
  PROVE  /\ req.keys \in Seq(DataKeys) /\ req.extend \in 0 .. MaxUint
         /\ req.op \in {"inspect", "check"} /\ Asked \subseteq DataKeys
BY PipelineAssumption DEF RequestShape, Asked

ReportType ==
    [deployed : BOOLEAN, instance : TTL, code : Seq(TTL), data : Seq(TTL),
     estimates : Seq([priced : BOOLEAN, extendTo : 0 .. MaxUint]),
     status : Statuses, ledger : 0 .. MaxLedger]

LEMMA InitType == Init => TypeOK
<1> SUFFICES ASSUME Init PROVE TypeOK
  OBVIOUS
<1>1. resp \in [ledger : 0 .. MaxLedger, instance : Entry, executable : Executables,
                data : [DataKeys -> Entry]]
  BY BasicsTyped DEF Init, NoResp, Executables
<1>2. codeResp \in [ledger : 0 .. MaxLedger, code : Entry]
  BY BasicsTyped DEF Init, NoCodeResp
<1> QED  BY <1>1, <1>2, BasicsTyped DEF Init, TypeOK, Running

LEMMA NextType == TypeOK /\ [Next]_vars => TypeOK'
<1> SUFFICES ASSUME TypeOK, [Next]_vars PROVE TypeOK'
  OBVIOUS
<1>1. CASE Cancel \/ UseMeasurement \/ Measure \/ FallBack
  <2>1. CASE Cancel
    BY <2>1 DEF Cancel, TypeOK
  <2>2. CASE UseMeasurement
    BY <2>2 DEF UseMeasurement, TypeOK
  <2>3. CASE Measure
    BY <2>3 DEF Measure, TypeOK
  <2>4. CASE FallBack
    BY <2>4 DEF FallBack, TypeOK
  <2> QED  BY <1>1, <2>1, <2>2, <2>3, <2>4
<1>2. CASE PlanFails \/ ReadEntriesFails \/ TimingAborted \/ InstanceUndecodable
           \/ ReadCodeFails \/ PriceFails \/ SimulateFails
  <2>1. /\ pc' = "exited" /\ exit' = 2
        /\ UNCHANGED <<req, ctxDone, measured, resp, codeResp, report, sim>>
        /\ \E call \in {"plan", "entries", "time", "decode", "code", "extend", "simulate"} :
              failed' = failed \cup {call}
    BY <1>2 DEF PlanFails, ReadEntriesFails, TimingAborted, InstanceUndecodable, ReadCodeFails,
                PriceFails, SimulateFails, Fail
  <2> QED  BY <2>1 DEF TypeOK
<1>3. CASE ReadEntries
  <2>1. PICK l \in Ledgers, i \in Entry, x \in Executables, d \in [Asked -> Entry] :
            resp' = [ledger |-> l, instance |-> i, executable |-> x,
                     data |-> [k \in DataKeys |-> IF k \in Asked THEN d[k] ELSE Gone]]
    BY <1>3 DEF ReadEntries
  <2>2. [k \in DataKeys |-> IF k \in Asked THEN d[k] ELSE Gone] \in [DataKeys -> Entry]
    BY BasicsTyped
  <2>3. resp' \in [ledger : 0 .. MaxLedger, instance : Entry, executable : Executables,
                   data : [DataKeys -> Entry]]
    BY <2>1, <2>2, BasicsTyped
  <2> QED  BY <1>3, <2>3 DEF ReadEntries, TypeOK
<1>4. CASE ReportUndeployed
  <2>1. Assess(Gone, resp.ledger, thresholdsFor("instance")) \in TTL
    BY AssessTyped, BasicsTyped DEF TypeOK, Kinds
  <2>2. resp.ledger \in 0 .. MaxLedger /\ pc' \in {"simulating", "deciding"}
    BY <1>4 DEF TypeOK, ReportUndeployed, SimulateNext
  <2> HIDE DEF Assess, thresholdsFor
  <2> QED  BY <1>4, <2>1, <2>2, BasicsTyped DEF ReportUndeployed, TypeOK
<1>5. CASE JudgeEntries
  <2> DEFINE i == Assess(resp.instance, resp.ledger, thresholdsFor("instance"))
             d == [n \in DOMAIN req.keys |->
                      Assess(resp.data[req.keys[n]], resp.ledger, thresholdsFor("data"))]
  <2>1. i \in TTL
    BY AssessTyped DEF TypeOK, Kinds
  <2>2. d \in Seq(TTL)
    <3>1. \A n \in DOMAIN req.keys : resp.data[req.keys[n]] \in Entry
      BY RequestTyped DEF TypeOK
    <3>2. \A n \in DOMAIN req.keys : d[n] \in TTL
      BY <3>1, AssessTyped DEF TypeOK, Kinds
    <3>3. DOMAIN req.keys = 1 .. Len(req.keys) /\ Len(req.keys) \in Nat
      BY RequestTyped DEF TypeOK
    <3>4. DOMAIN d = DOMAIN req.keys /\ d = [n \in DOMAIN d |-> d[n]]
      OBVIOUS
    <3> HIDE DEF d
    <3>5. d \in [1 .. Len(req.keys) -> TTL]
      BY <3>2, <3>3, <3>4
    <3> QED  BY <3>3, <3>5, FunctionIsSeq
  <2>3. report' = [NoReport EXCEPT !.deployed = TRUE, !.instance = i, !.data = d,
                                   !.ledger = resp.ledger]
    BY <1>5 DEF JudgeEntries
  <2>4. resp.ledger \in 0 .. MaxLedger /\ pc' \in {"coding", "pricing"}
    BY <1>5 DEF TypeOK, JudgeEntries
  <2> HIDE DEF i, d
  <2>5. report' \in ReportType
    BY <2>1, <2>2, <2>3, <2>4, BasicsTyped DEF ReportType
  <2> QED  BY <1>5, <2>4, <2>5 DEF JudgeEntries, TypeOK, ReportType
<1>6. CASE ReadCode
  <2>1. PICK l \in Ledgers, e \in Entry :
          /\ codeResp' = [ledger |-> l, code |-> e]
          /\ report' = [report EXCEPT !.code = <<Assess(e, l, thresholdsFor("code"))>>]
    BY <1>6 DEF ReadCode
  <2>2. Assess(e, l, thresholdsFor("code")) \in TTL
    BY AssessTyped, BasicsTyped DEF Kinds
  <2> DEFINE c == <<Assess(e, l, thresholdsFor("code"))>>
  <2>3. c \in Seq(TTL) /\ report' = [report EXCEPT !.code = c]
    <3> HIDE DEF TTL, Assess, thresholdsFor
    <3> QED  BY <2>1, <2>2
  <2> HIDE DEF c
  <2>4. report' \in ReportType
    <3>1. report \in ReportType
      BY DEF TypeOK, ReportType
    <3> QED  BY <2>3, <3>1 DEF ReportType
  <2>5. codeResp' \in [ledger : 0 .. MaxLedger, code : Entry]
    BY <2>1, BasicsTyped
  <2> QED  BY <1>6, <2>4, <2>5 DEF ReadCode, TypeOK, ReportType
<1>7. CASE NoteEstimate \/ PriceEstimate
  <2>1. ExtendTo \in 0 .. MaxUint
    <3>1. report.ledger \in Nat /\ req.extend \in Nat /\ MaxUint \in Nat
      BY RequestTyped, PipelineAssumption DEF TypeOK
    <3>2. report.ledger + req.extend \in Nat
      BY <3>1
    <3> QED  BY <3>1, <3>2, RemainderFits DEF ExtendTo
  <2>2. \A p \in BOOLEAN : AddEstimate(p) => report' \in ReportType
    <3> DEFINE Estimates == [priced : BOOLEAN, extendTo : 0 .. MaxUint]
    <3>1. SUFFICES ASSUME NEW p \in BOOLEAN, AddEstimate(p)
                   PROVE  report' \in ReportType
      OBVIOUS
    <3> DEFINE es == Append(report.estimates, [priced |-> p, extendTo |-> ExtendTo])
    <3>2. report.estimates \in Seq(Estimates)
      BY DEF TypeOK
    <3>3. [priced |-> p, extendTo |-> ExtendTo] \in Estimates
      BY <2>1
    <3>4. es \in Seq(Estimates)
      <4> HIDE DEF Estimates, ExtendTo
      <4> QED  BY <3>2, <3>3
    <3>5. report' = [report EXCEPT !.estimates = es]
      BY <3>1 DEF AddEstimate
    <3>6. report \in ReportType
      BY DEF TypeOK, ReportType
    <3> HIDE DEF es
    <3> QED  BY <3>4, <3>5, <3>6 DEF ReportType
  <2> QED  BY <1>7, <2>2 DEF NoteEstimate, PriceEstimate, TypeOK, ReportType
<1>8. CASE FinishReport
  <2>1. StatusesOf(report) \in SUBSET Statuses
    <3>1. report.instance \in TTL /\ report.code \in Seq(TTL) /\ report.data \in Seq(TTL)
      BY DEF TypeOK
    <3>2. /\ \A n \in DOMAIN report.code : report.code[n] \in TTL
          /\ \A n \in DOMAIN report.data : report.data[n] \in TTL
      <4> HIDE DEF TTL
      <4> QED  BY <3>1
    <3>3. \A t \in TTL : t.status \in Statuses
      BY DEF TTL
    <3> QED  BY <3>1, <3>2, <3>3 DEF StatusesOf
  <2>2. worstStatus(report) \in Statuses
    BY <2>1, WorstIsWorst DEF worstStatus, Statuses
  <2>3. pc' \in {"simulating", "deciding"}
    BY <1>8 DEF FinishReport, SimulateNext
  <2> QED  BY <1>8, <2>2, <2>3 DEF FinishReport, TypeOK
<1>9. CASE Simulate
  BY <1>9 DEF Simulate, TypeOK
<1>10. CASE Decide
  <2>1. exit' \in {0, 1, 2}
    BY <1>10 DEF Decide
  <2> QED  BY <1>10, <2>1 DEF Decide, TypeOK
<1>11. CASE UNCHANGED vars
  BY <1>11 DEF vars, TypeOK
<1> QED
  BY <1>1, <1>2, <1>3, <1>4, <1>5, <1>6, <1>7, <1>8, <1>9, <1>10, <1>11 DEF Next

(* The report that inspect.go builds keeps its shape from step to step:    *)
(* statuses of the scale, ledgers of the answers, targets that are uint32. *)
THEOREM PipelineTypeCorrect == Spec => []TypeOK
BY InitType, NextType, PTL DEF Spec
-----------------------------------------------------------------------------
(* The answers in the order of the targets, as in EstimatesMatchEntries.   *)
Answers ==
    <<<<resp.instance, resp.ledger>>>>
      \o (IF resp.executable = "wasm" THEN <<<<codeResp.code, codeResp.ledger>>>> ELSE <<>>)
      \o [i \in DOMAIN req.keys |-> <<resp.data[req.keys[i]], resp.ledger>>]

Matching ==
    /\ Len(report.estimates) = Len(Answers)
    /\ \A i \in DOMAIN Answers :
          report.estimates[i].priced <=>
             Answers[i][1].kind = "timed" /\ Answers[i][1].until >= Answers[i][2]

MatchesAtExit == exit = 0 /\ req.extend > 0 /\ report.deployed => Matching

LEMMA MatchingIsMatch == EstimatesMatchEntries <=> MatchesAtExit
BY DEF EstimatesMatchEntries, MatchesAtExit, Matching, Answers

(* The estimates so far are those of the first targets.                    *)
PricedRight ==
    \A i \in 1 .. Len(report.estimates) :
        report.estimates[i].priced <=> CanExtend(Targets[i])

EstimatesFollow ==
    /\ pc = "coding" => report.estimates = <<>>
    /\ pc = "pricing" => Len(report.estimates) <= Len(Targets) /\ PricedRight
    /\ pc \in {"simulating", "deciding"} /\ report.deployed /\ req.extend > 0 =>
          Len(report.estimates) = Len(Targets) /\ PricedRight

EIInv == TypeOK /\ IInv /\ EstimatesFollow /\ EstimatesMatchEntries

LEMMA TwoParts ==
  ASSUME NEW S, NEW c \in Seq(S), NEW d \in Seq(S), NEW t, t = c \o d
  PROVE  /\ t \in Seq(S) /\ Len(t) = Len(c) + Len(d)
         /\ \A i \in 1 .. Len(c) : t[i] = c[i]
         /\ \A i \in 1 .. Len(d) : t[Len(c) + i] = d[i]
<1>1. t \in Seq(S)
  OBVIOUS
<1>2. Len(t) = Len(c) + Len(d)
  OBVIOUS
<1>3. \A i \in 1 .. Len(c) : t[i] = c[i]
  OBVIOUS
<1>4. \A i \in 1 .. Len(d) : t[Len(c) + i] = d[i]
  OBVIOUS
<1> QED  BY <1>1, <1>2, <1>3, <1>4

LEMMA ThreeParts ==
  ASSUME NEW S, NEW a \in S, NEW c \in Seq(S), NEW d \in Seq(S),
         NEW t, t = <<a>> \o c \o d
  PROVE  /\ t \in Seq(S) /\ Len(t) = 1 + Len(c) + Len(d)
         /\ t[1] = a
         /\ \A i \in 1 .. Len(c) : t[1 + i] = c[i]
         /\ \A i \in 1 .. Len(d) : t[1 + Len(c) + i] = d[i]
<1> DEFINE s == <<a>> \o c
<1>0. Len(c) \in Nat /\ Len(d) \in Nat
  OBVIOUS
<1>1. /\ s \in Seq(S) /\ Len(s) = 1 + Len(c) /\ s[1] = a
      /\ \A i \in 1 .. Len(c) : s[1 + i] = c[i]
  OBVIOUS
<1>2. t = s \o d
  OBVIOUS
<1> HIDE DEF s
<1>3. /\ t \in Seq(S) /\ Len(t) = Len(s) + Len(d)
      /\ \A i \in 1 .. Len(s) : t[i] = s[i]
      /\ \A i \in 1 .. Len(d) : t[Len(s) + i] = d[i]
  BY <1>1, <1>2, TwoParts
<1>4. t[1] = a
  BY <1>0, <1>1, <1>3
<1>5. \A i \in 1 .. Len(c) : t[1 + i] = c[i]
  <2> SUFFICES ASSUME NEW i \in 1 .. Len(c) PROVE t[1 + i] = c[i]
    OBVIOUS
  <2>1. 1 + i \in 1 .. Len(s)
    BY <1>0, <1>1
  <2> QED  BY <2>1, <1>1, <1>2, <1>3
<1>6. \A i \in 1 .. Len(d) : t[1 + Len(c) + i] = d[i]
  BY <1>1, <1>2, <1>3
<1>7. t \in Seq(S) /\ Len(t) = 1 + Len(c) + Len(d)
  BY <1>1, <1>2, <1>3
<1> QED  BY <1>4, <1>5, <1>6, <1>7

(* Evaluate: there is something to extend in the entries alive then.       *)
LEMMA ExtendsTheAlive ==
  ASSUME NEW e \in Entry, NEW l \in 0 .. MaxLedger, NEW k \in Kinds
  PROVE  CanExtend(Assess(e, l, thresholdsFor(k))) <=> e.kind = "timed" /\ e.until >= l
<1> DEFINE t == Assess(e, l, thresholdsFor(k))
<1>1. t.entry = e /\ t.status = IF e = Gone THEN "missing" ELSE Evaluate(e, l, thresholdsFor(k))
  BY DEF Assess
<1>2. l \in Int /\ MaxUntil \in Nat
  BY PipelineAssumption
<1>3. CASE e.kind = "timed"
  <2>1. e # Gone /\ e.until \in Int
    BY <1>2, <1>3 DEF Entry, Entries, Gone, Untimed, Timed
  <2>2. t.status = "expired" <=> e.until - l < 0
    BY <1>1, <1>3, <2>1 DEF Evaluate
  <2> QED  BY <1>1, <1>2, <1>3, <2>1, <2>2 DEF CanExtend
<1>4. CASE e.kind # "timed"
  <2> QED  BY <1>1, <1>4 DEF CanExtend
<1> QED  BY <1>3, <1>4

(* The targets are found again by position.                                *)
LEMMA TargetsAreAnswers ==
  ASSUME TypeOK, InstanceJudged, DataJudged, CodeJudged
  PROVE  /\ Len(Targets) = Len(Answers) /\ Len(Targets) \in Nat
         /\ DOMAIN Answers = 1 .. Len(Answers)
         /\ \A i \in DOMAIN Answers :
               CanExtend(Targets[i]) <=>
                  Answers[i][1].kind = "timed" /\ Answers[i][1].until >= Answers[i][2]
<1> DEFINE A == Entry \X (0 .. MaxLedger)
           a == <<resp.instance, resp.ledger>>
           c == IF resp.executable = "wasm" THEN <<<<codeResp.code, codeResp.ledger>>>> ELSE <<>>
           d == [i \in DOMAIN req.keys |-> <<resp.data[req.keys[i]], resp.ledger>>]
           R(x, t) == CanExtend(t) <=> x[1].kind = "timed" /\ x[1].until >= x[2]
<1>1. /\ report.instance \in TTL /\ report.code \in Seq(TTL) /\ report.data \in Seq(TTL)
      /\ resp.ledger \in 0 .. MaxLedger /\ codeResp.ledger \in 0 .. MaxLedger
      /\ resp.instance \in Entry /\ codeResp.code \in Entry
      /\ DOMAIN req.keys = 1 .. Len(req.keys) /\ Len(req.keys) \in Nat
      /\ \A i \in DOMAIN req.keys : resp.data[req.keys[i]] \in Entry
  BY RequestTyped DEF TypeOK
<1>2. a \in A /\ R(a, report.instance)
  BY <1>1, ExtendsTheAlive DEF InstanceJudged, Kinds
<1>3. /\ c \in Seq(A) /\ Len(c) = Len(report.code)
      /\ \A i \in 1 .. Len(c) : R(c[i], report.code[i])
  <2>1. CASE resp.executable = "wasm"
    <3>1. c = <<<<codeResp.code, codeResp.ledger>>>>
          /\ report.code = <<Assess(codeResp.code, codeResp.ledger, thresholdsFor("code"))>>
      BY <2>1 DEF CodeJudged
    <3>2. <<codeResp.code, codeResp.ledger>> \in A
      BY <1>1
    <3>3. R(<<codeResp.code, codeResp.ledger>>,
            Assess(codeResp.code, codeResp.ledger, thresholdsFor("code")))
      BY <1>1, ExtendsTheAlive DEF Kinds
    <3> HIDE DEF A, c
    <3>4. /\ c \in Seq(A) /\ Len(c) = 1 /\ c[1] = <<codeResp.code, codeResp.ledger>>
          /\ Len(report.code) = 1
          /\ report.code[1] = Assess(codeResp.code, codeResp.ledger, thresholdsFor("code"))
      BY <3>1, <3>2
    <3>5. \A i \in 1 .. Len(c) : i = 1
      BY <3>4
    <3> HIDE DEF R
    <3> QED  BY <3>3, <3>4, <3>5
  <2>2. CASE resp.executable # "wasm"
    <3>1. c = <<>> /\ report.code = <<>>
      BY <2>2 DEF CodeJudged
    <3> HIDE DEF A, c, R
    <3> QED  BY <3>1
  <2> QED  BY <2>1, <2>2
<1>4. /\ d \in Seq(A) /\ Len(d) = Len(report.data)
      /\ \A i \in 1 .. Len(d) : R(d[i], report.data[i])
  <2>1. \A i \in DOMAIN req.keys : d[i] \in A
    BY <1>1
  <2>2. DOMAIN d = DOMAIN req.keys /\ d = [i \in DOMAIN d |-> d[i]]
    OBVIOUS
  <2>3. ASSUME NEW i \in DOMAIN req.keys
        PROVE  R(d[i], report.data[i])
    <3>1. report.data[i] = Assess(resp.data[req.keys[i]], resp.ledger, thresholdsFor("data"))
      BY DEF DataJudged
    <3>2. d[i] = <<resp.data[req.keys[i]], resp.ledger>> /\ resp.data[req.keys[i]] \in Entry
      BY <1>1
    <3> HIDE DEF d
    <3> QED  BY <1>1, <3>1, <3>2, ExtendsTheAlive DEF Kinds
  <2>4. DOMAIN report.data = DOMAIN req.keys
    BY DEF DataJudged
  <2> HIDE DEF d, A, R
  <2>5. d \in [1 .. Len(req.keys) -> A]
    BY <1>1, <2>1, <2>2
  <2>6. d \in Seq(A)
    BY <1>1, <2>5, FunctionIsSeq
  <2>7. Len(d) = Len(req.keys) /\ Len(report.data) = Len(req.keys)
    BY <1>1, <2>2, <2>4, <2>6
  <2> QED  BY <1>1, <2>3, <2>6, <2>7
<1>5. Answers = <<a>> \o c \o d /\ Targets = <<report.instance>> \o report.code \o report.data
  BY DEF Answers, Targets
<1> HIDE DEF A, a, c, d, R
<1>6. /\ Answers \in Seq(A) /\ Len(Answers) = 1 + Len(c) + Len(d)
      /\ Answers[1] = a
      /\ \A i \in 1 .. Len(c) : Answers[1 + i] = c[i]
      /\ \A i \in 1 .. Len(d) : Answers[1 + Len(c) + i] = d[i]
  <2>1. /\ a \in A /\ c \in Seq(A) /\ d \in Seq(A) /\ Answers = <<a>> \o c \o d
    BY <1>2, <1>3, <1>4, <1>5
  <2> QED  BY <2>1, ThreeParts
<1>7. /\ Targets \in Seq(TTL) /\ Len(Targets) = 1 + Len(c) + Len(d)
      /\ Targets[1] = report.instance
      /\ \A i \in 1 .. Len(c) : Targets[1 + i] = report.code[i]
      /\ \A i \in 1 .. Len(d) : Targets[1 + Len(c) + i] = report.data[i]
  <2> DEFINE cs == report.code
             ds == report.data
  <2>1. cs \in Seq(TTL) /\ ds \in Seq(TTL) /\ Targets = <<report.instance>> \o cs \o ds
    BY <1>1, <1>5
  <2>2. Len(cs) = Len(c) /\ Len(ds) = Len(d)
    BY <1>3, <1>4
  <2> HIDE DEF cs, ds
  <2>3. /\ Targets \in Seq(TTL) /\ Len(Targets) = 1 + Len(cs) + Len(ds)
        /\ Targets[1] = report.instance
        /\ \A i \in 1 .. Len(cs) : Targets[1 + i] = cs[i]
        /\ \A i \in 1 .. Len(ds) : Targets[1 + Len(cs) + i] = ds[i]
    BY <1>1, <2>1, ThreeParts
  <2> QED  BY <2>2, <2>3 DEF cs, ds
<1>8. ASSUME NEW i \in 1 .. Len(Answers)  PROVE R(Answers[i], Targets[i])
  <2>0. Len(c) \in Nat /\ Len(d) \in Nat
    BY <1>3, <1>4
  <2>1. CASE i = 1
    BY <2>1, <1>2, <1>6, <1>7
  <2>2. CASE i \in 2 .. 1 + Len(c)
    <3>1. PICK j \in 1 .. Len(c) : i = 1 + j
      <4>1. i - 1 \in 1 .. Len(c) /\ i = 1 + (i - 1)
        BY <2>0, <2>2
      <4> QED  BY <4>1
    <3> QED  BY <3>1, <1>3, <1>6, <1>7
  <2>3. CASE i \in 2 + Len(c) .. 1 + Len(c) + Len(d)
    <3>1. PICK j \in 1 .. Len(d) : i = 1 + Len(c) + j
      <4>1. i - 1 - Len(c) \in 1 .. Len(d) /\ i = 1 + Len(c) + (i - 1 - Len(c))
        BY <2>0, <2>3
      <4> QED  BY <4>1
    <3> QED  BY <3>1, <1>4, <1>6, <1>7
  <2> QED  BY <2>1, <2>2, <2>3, <2>0, <1>6
<1>9. DOMAIN Answers = 1 .. Len(Answers) /\ Len(Answers) \in Nat
  BY <1>6
<1> QED  BY <1>6, <1>7, <1>8, <1>9 DEF R

Counted == Len(Targets) \in Nat

LEMMA TargetsCounted == TypeOK => Counted
<1> SUFFICES ASSUME TypeOK PROVE Len(Targets) \in Nat
  BY DEF Counted
<1>1. /\ report.instance \in TTL /\ report.code \in Seq(TTL) /\ report.data \in Seq(TTL)
  BY DEF TypeOK
<1> HIDE DEF TTL
<1>2. Targets \in Seq(TTL)
  BY <1>1, ThreeParts DEF Targets
<1> QED  BY <1>2

LEMMA InitEIInv == Init => EIInv
<1>1. Init => EstimatesFollow /\ EstimatesMatchEntries
  BY DEF Init, EstimatesFollow, EstimatesMatchEntries, Running
<1> QED  BY <1>1, InitType, InitIInv DEF EIInv

(* What an exit code says rests on the report and the answers alone.       *)
LEMMA KeptAtExit ==
  ASSUME EIInv, pc # "exited", pc' = "exited", exit' = 2
  PROVE  EstimatesFollow' /\ EstimatesMatchEntries'
<1>1. EstimatesFollow'
  BY DEF EstimatesFollow
<1>2. MatchesAtExit'
  BY DEF MatchesAtExit
<1>3. EstimatesMatchEntries' <=> MatchesAtExit'
  BY MatchingIsMatch, PTL
<1> QED  BY <1>1, <1>2, <1>3

(* No exit code yet, no claim about one.                                   *)
LEMMA KeptWhileRunning ==
  ASSUME EIInv, pc # "exited", exit' = exit
  PROVE  EstimatesMatchEntries'
<1>1. exit' # 0
  BY DEF EIInv, IInv, OnlyTimeFailed, Running
<1>2. MatchesAtExit'
  BY <1>1 DEF MatchesAtExit
<1>3. EstimatesMatchEntries' <=> MatchesAtExit'
  BY MatchingIsMatch, PTL
<1> QED  BY <1>2, <1>3

LEMMA NextEIInv == EIInv /\ [Next]_vars => EIInv'
<1> SUFFICES ASSUME EIInv, [Next]_vars
             PROVE  EstimatesFollow' /\ EstimatesMatchEntries'
  BY NextType, NextIInv DEF EIInv
<1>0. TypeOK' /\ Len(Targets') \in Nat
  <2>1. TypeOK'
    BY NextType DEF EIInv
  <2>2. TypeOK' => Counted'
    BY TargetsCounted, PTL
  <2> QED  BY <2>1, <2>2 DEF Counted
<1>1. CASE PlanFails \/ ReadEntriesFails \/ TimingAborted \/ InstanceUndecodable
           \/ ReadCodeFails \/ PriceFails \/ SimulateFails
  BY <1>1, KeptAtExit DEF PlanFails, ReadEntriesFails, TimingAborted, InstanceUndecodable,
        ReadCodeFails, PriceFails, SimulateFails, Fail
<1>2. CASE Cancel \/ UNCHANGED vars
  <2>1. UNCHANGED <<pc, req, resp, codeResp, report, exit>>
    BY <1>2 DEF Cancel, vars
  <2>2. Targets' = Targets
    BY <2>1 DEF Targets
  <2>3. EstimatesFollow'
    BY <2>1, <2>2 DEF EIInv, EstimatesFollow, PricedRight, CanExtend
  <2>4. Answers' = Answers
    BY <2>1 DEF Answers
  <2>5. MatchesAtExit
    BY MatchingIsMatch DEF EIInv
  <2>6. MatchesAtExit'
    BY <2>1, <2>4, <2>5 DEF MatchesAtExit, Matching
  <2>7. EstimatesMatchEntries'
    <3>1. EstimatesMatchEntries' <=> MatchesAtExit'
      BY MatchingIsMatch, PTL
    <3> QED  BY <2>6, <3>1
  <2> QED  BY <2>3, <2>7
<1>3. CASE ReadEntries \/ UseMeasurement \/ Measure \/ FallBack
  <2>1. EstimatesFollow'
    BY <1>3 DEF ReadEntries, UseMeasurement, Measure, FallBack, EstimatesFollow
  <2> QED  BY <1>3, <2>1, KeptWhileRunning
           DEF ReadEntries, UseMeasurement, Measure, FallBack
<1>4. CASE ReportUndeployed
  <2>1. EstimatesFollow'
    BY <1>4 DEF ReportUndeployed, SimulateNext, EstimatesFollow, NoReport
  <2> QED  BY <1>4, <2>1, KeptWhileRunning DEF ReportUndeployed
<1>5. CASE JudgeEntries
  <2>1. report'.estimates = <<>> /\ pc' \in {"coding", "pricing"}
    BY <1>5 DEF JudgeEntries, NoReport
  <2>2. EstimatesFollow'
    BY <1>0, <2>1 DEF EstimatesFollow, PricedRight
  <2> QED  BY <1>5, <2>2, KeptWhileRunning DEF JudgeEntries
<1>6. CASE ReadCode
  <2>1. report.estimates = <<>>
    BY <1>6 DEF ReadCode, EIInv, EstimatesFollow
  <2>2. report'.estimates = report.estimates /\ pc' = "pricing"
    BY <1>6 DEF ReadCode
  <2>3. EstimatesFollow'
    BY <1>0, <2>1, <2>2 DEF EstimatesFollow, PricedRight
  <2> QED  BY <1>6, <2>3, KeptWhileRunning DEF ReadCode
<1>7. CASE NoteEstimate \/ PriceEstimate
  <2> DEFINE n == Len(report.estimates)
  <2>1. PICK p \in BOOLEAN : AddEstimate(p) /\ (p <=> CanExtend(Targets[n + 1]))
    BY <1>7 DEF NoteEstimate, PriceEstimate, Target
  <2>2. /\ pc = "pricing" /\ pc' = "pricing" /\ exit' = exit
        /\ report.estimates \in Seq([priced : BOOLEAN, extendTo : 0 .. MaxUint])
        /\ n < Len(Targets) /\ PricedRight
    BY <1>7 DEF NoteEstimate, PriceEstimate, Estimating, EIInv, TypeOK, EstimatesFollow
  <2>3. /\ report'.instance = report.instance /\ report'.code = report.code
        /\ report'.data = report.data
        /\ report'.estimates = Append(report.estimates,
                                      [priced |-> p, extendTo |-> ExtendTo])
    BY <2>1 DEF AddEstimate, EIInv, TypeOK
  <2>4. Targets' = Targets
    BY <2>3 DEF Targets
  <2>5. /\ Len(report'.estimates) = n + 1
        /\ report'.estimates[n + 1] = [priced |-> p, extendTo |-> ExtendTo]
        /\ \A i \in 1 .. n : report'.estimates[i] = report.estimates[i]
        /\ n \in Nat
    <3> HIDE DEF ExtendTo
    <3> QED  BY <2>2, <2>3
  <2>6. PricedRight'
    <3> SUFFICES ASSUME NEW i \in 1 .. Len(report'.estimates)
                 PROVE  report'.estimates[i].priced <=> CanExtend(Targets[i])
      BY <2>4 DEF PricedRight, CanExtend
    <3>1. CASE i \in 1 .. n
      BY <3>1, <2>2, <2>5 DEF PricedRight
    <3>2. CASE i = n + 1
      BY <3>2, <2>1, <2>5
    <3> QED  BY <3>1, <3>2, <2>5
  <2>7. Len(report'.estimates) <= Len(Targets')
    BY <1>0, <2>2, <2>4, <2>5
  <2>8. EstimatesFollow'
    BY <2>2, <2>6, <2>7 DEF EstimatesFollow
  <2> QED  BY <2>2, <2>8, KeptWhileRunning
<1>8. CASE FinishReport
  <2>1. /\ report'.instance = report.instance /\ report'.code = report.code
        /\ report'.data = report.data /\ report'.estimates = report.estimates
        /\ req' = req /\ pc' \in {"simulating", "deciding"} /\ pc = "pricing" /\ exit' = exit
    BY <1>8 DEF FinishReport, SimulateNext
  <2>2. Targets' = Targets
    BY <2>1 DEF Targets
  <2>3. Len(report.estimates) <= Len(Targets) /\ PricedRight
    BY <2>1 DEF EIInv, EstimatesFollow
  <2>4. Len(report.estimates) \in Nat /\ ~Estimating
    BY <1>8 DEF FinishReport, EIInv, TypeOK
  <2>5. req.extend > 0 => Len(report'.estimates) = Len(Targets')
    BY <1>0, <2>1, <2>2, <2>3, <2>4 DEF Estimating
  <2>6. PricedRight'
    BY <2>1, <2>2, <2>3 DEF PricedRight, CanExtend
  <2>7. EstimatesFollow'
    BY <2>1, <2>5, <2>6 DEF EstimatesFollow
  <2> QED  BY <2>1, <2>7, KeptWhileRunning
<1>9. CASE Simulate
  <2>1. /\ report' = report /\ req' = req /\ exit' = exit
        /\ pc = "simulating" /\ pc' = "deciding"
    BY <1>9 DEF Simulate
  <2>2. Targets' = Targets
    BY <2>1 DEF Targets
  <2>3. EstimatesFollow'
    BY <2>1, <2>2 DEF EIInv, EstimatesFollow, PricedRight, CanExtend
  <2> QED  BY <2>1, <2>3, KeptWhileRunning
<1>10. CASE Decide
  <2>1. /\ report' = report /\ req' = req /\ resp' = resp /\ codeResp' = codeResp
        /\ pc = "deciding" /\ pc' = "exited"
    BY <1>10 DEF Decide
  <2>2. EstimatesFollow'
    BY <2>1 DEF EstimatesFollow
  <2>3. ASSUME req.extend > 0, report.deployed
        PROVE  Matching
    <3>1. InstanceJudged /\ DataJudged /\ CodeJudged
      BY <2>1, <2>3 DEF EIInv, IInv, ReportFaithful
    <3>2. Len(report.estimates) = Len(Targets) /\ PricedRight
      BY <2>1, <2>3 DEF EIInv, EstimatesFollow
    <3> QED  BY <3>1, <3>2, TargetsAreAnswers DEF EIInv, PricedRight, Matching
  <2>4. Answers' = Answers
    BY <2>1 DEF Answers
  <2>5. MatchesAtExit'
    BY <2>1, <2>3, <2>4 DEF MatchesAtExit, Matching
  <2>6. EstimatesMatchEntries'
    <3>1. EstimatesMatchEntries' <=> MatchesAtExit'
      BY MatchingIsMatch, PTL
    <3> QED  BY <2>5, <3>1
  <2> QED  BY <2>2, <2>6
<1> QED
  BY <1>1, <1>2, <1>3, <1>4, <1>5, <1>6, <1>7, <1>8, <1>9, <1>10 DEF Next

(* estimateExtends: in a finished inspection every entry that was read has *)
(* its estimate at its own position, and a price just when it was alive at *)
(* the ledger of its own answer.                                           *)
THEOREM PipelineEstimatesMatchEntries == Spec => []EstimatesMatchEntries
<1>1. EIInv => EstimatesMatchEntries
  BY DEF EIInv
<1> QED  BY <1>1, InitEIInv, NextEIInv, PTL DEF Spec
=============================================================================
