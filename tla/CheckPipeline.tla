--------------------------- MODULE CheckPipeline ---------------------------
(***************************************************************************)
(* One inspection or one check of a contract, from the request to the exit *)
(* code: inspectUncached and estimateExtends (internal/probe/inspect.go),  *)
(* ledgerCloseTime (ledger_time.go), Check and its steps (check.go), and   *)
(* the commands that turn the result into an exit code                     *)
(* (cmd/soroprobe/commands.go).  One action is one RPC or the computation  *)
(* between two.  Every answer may come from another ledger, with any       *)
(* contents, and the caller may cancel between any two steps.              *)
(*                                                                         *)
(* What is in front of this pipeline is in modules of its own: the inspect *)
(* cache in InspectCache, the batches in BatchWorkers and BatchPrefetch.   *)
(***************************************************************************)
EXTENDS Health, Sequences

CONSTANTS
    Requests,   \* the requests that may be made, see RequestShape
    DataKeys,   \* data keys that a request may name
    ScVals,     \* values that a call may return: [type, val]
    Global,     \* Options.Thresholds
    Overrides,  \* Options.ThresholdOverrides
    MaxUntil,   \* bound of the model: the last ledger an entry lives until
    MaxLedger,  \* bound of the model: the last ledger of an answer
    MaxUint     \* the largest uint32

(* expect is a ScVal, NoExpect, or BadExpect for a specification that does *)
(* not encode.  malformed: the contract ID or a data key does not parse.   *)
(* extend is 0 when no estimate is asked for; a check cannot ask for one.  *)
NoExpect == [type |-> "none", val |-> 0]
BadExpect == [type |-> "bad", val |-> 0]

RequestShape ==
    [op : {"inspect", "check"}, malformed : BOOLEAN, keys : Seq(DataKeys),
     fn : BOOLEAN, expect : ScVals \cup {NoExpect, BadExpect}, extend : 0 .. MaxUint]

(* Validate of the configuration: no resolved pair has critical above warn.*)
ASSUME PipelineAssumption ==
    /\ Requests \subseteq RequestShape
    /\ \A r \in Requests : r.op = "check" => r.extend = 0
    /\ MaxUntil \in Nat /\ MaxLedger \in Nat \ {0} /\ MaxUint \in Nat
    /\ MaxLedger <= MaxUint
    /\ Global \in Thresholds /\ Overrides \in ThresholdOverrides
    /\ \A k \in Kinds : LET t == ResolveThresholds(k, Global, Overrides)
                        IN  t.critical <= t.warn

VARIABLES
    pc,        \* the step that comes next
    req,       \* the request
    ctxDone,   \* the caller's context is done
    measured,  \* ledgerTimeCache holds a measurement that has not expired
    resp,      \* the answer of round one: instance and data entries
    codeResp,  \* the answer of round two: the code entry
    report,    \* the InspectResult
    sim,       \* the outcome of Simulate
    failed,    \* history: the calls that have failed
    exit       \* the exit code, Running before the end

vars == <<pc, req, ctxDone, measured, resp, codeResp, report, sim, failed, exit>>

Ledgers == 1 .. MaxLedger
Entry == Entries(0 .. MaxUntil)
Executables == {"wasm", "stellar_asset", "undecodable"}
Running == -1

NoResp == [ledger |-> 0, instance |-> Gone, executable |-> "undecodable",
           data |-> [k \in DataKeys |-> Gone]]
NoCodeResp == [ledger |-> 0, code |-> Gone]
NoTTL == [entry |-> Gone, ledger |-> 0, status |-> "missing"]
NoReport == [deployed |-> FALSE, instance |-> NoTTL, code |-> <<>>, data |-> <<>>,
             estimates |-> <<>>, status |-> "missing", ledger |-> 0]

thresholdsFor(kind) == ResolveThresholds(kind, Global, Overrides)

Asked == {req.keys[i] : i \in DOMAIN req.keys}
-----------------------------------------------------------------------------
Init ==
    /\ req \in Requests
    /\ pc = "reading"
    /\ ctxDone = FALSE
    /\ measured \in BOOLEAN  \* TRUE: by an earlier call of this Prober
    /\ resp = NoResp /\ codeResp = NoCodeResp /\ report = NoReport
    /\ sim = [kind |-> "none", val |-> NoExpect]
    /\ failed = {}
    /\ exit = Running

(* A Go error ends the command with exit code 2 (main.go).  It wins over   *)
(* what closing the report file may say.                                   *)
Fail(call) ==
    /\ failed' = failed \cup {call}
    /\ pc' = "exited"
    /\ exit' = 2

Cancel ==
    /\ pc # "exited"
    /\ ~ctxDone
    /\ ctxDone' = TRUE
    /\ UNCHANGED <<pc, req, measured, resp, codeResp, report, sim, failed, exit>>

(* planInspect: everything is encoded before anything is sent.             *)
PlanFails ==
    /\ pc = "reading"
    /\ req.malformed
    /\ Fail("plan")
    /\ UNCHANGED <<req, ctxDone, measured, resp, codeResp, report, sim>>

(* Round one: instance and data entries in one answer, at one ledger.      *)
ReadEntries ==
    /\ pc = "reading"
    /\ ~req.malformed /\ ~ctxDone
    /\ \E l \in Ledgers, i \in Entry, x \in Executables, d \in [Asked -> Entry] :
          resp' = [ledger |-> l, instance |-> i, executable |-> x,
                   data |-> [k \in DataKeys |-> IF k \in Asked THEN d[k] ELSE Gone]]
    /\ pc' = "timing"
    /\ UNCHANGED <<req, ctxDone, measured, codeResp, report, sim, failed, exit>>

ReadEntriesFails ==
    /\ pc = "reading"
    /\ ~req.malformed
    /\ Fail("entries")
    /\ UNCHANGED <<req, ctxDone, measured, resp, codeResp, report, sim>>
-----------------------------------------------------------------------------
(* ledgerCloseTime.  The estimate is advisory: when the ledgers cannot be  *)
(* had, or do not show time passing, the 5-second target is used.          *)
UseMeasurement ==
    /\ pc = "timing"
    /\ measured
    /\ pc' = "judging"
    /\ UNCHANGED <<req, ctxDone, measured, resp, codeResp, report, sim, failed, exit>>

Measure ==
    /\ pc = "timing"
    /\ ~measured /\ ~ctxDone
    /\ measured' = TRUE
    /\ pc' = "judging"
    /\ UNCHANGED <<req, ctxDone, resp, codeResp, report, sim, failed, exit>>

(* GetLatestLedger or GetLedgers fails, or its answer is of no use.        *)
FallBack ==
    /\ pc = "timing"
    /\ ~measured /\ ~ctxDone
    /\ failed' \in {failed, failed \cup {"time"}}
    /\ pc' = "judging"
    /\ UNCHANGED <<req, ctxDone, measured, resp, codeResp, report, sim, exit>>

(* The caller's own context is an error, not a reason to fall back.        *)
TimingAborted ==
    /\ pc = "timing"
    /\ ~measured /\ ctxDone
    /\ Fail("time")
    /\ UNCHANGED <<req, ctxDone, measured, resp, codeResp, report, sim>>
-----------------------------------------------------------------------------
(* What Check does once it has the report: simulate only what a step reads.*)
SimulateNext(rep) ==
    IF req.op = "check" /\ rep.deployed /\ req.fn THEN "simulating" ELSE "deciding"

(* No instance: the report says no more than that.                         *)
ReportUndeployed ==
    /\ pc = "judging"
    /\ resp.instance = Gone
    /\ report' = [NoReport EXCEPT !.instance = Assess(Gone, resp.ledger, thresholdsFor("instance")),
                                  !.ledger = resp.ledger]
    /\ pc' = SimulateNext(report')
    /\ UNCHANGED <<req, ctxDone, measured, resp, codeResp, sim, failed, exit>>

(* readInstanceEntry: the entry is no contract instance.                   *)
InstanceUndecodable ==
    /\ pc = "judging"
    /\ resp.instance # Gone
    /\ resp.executable = "undecodable"
    /\ Fail("decode")
    /\ UNCHANGED <<req, ctxDone, measured, resp, codeResp, report, sim>>

(* A Stellar Asset Contract has no code entry and no round two.            *)
JudgeEntries ==
    /\ pc = "judging"
    /\ resp.instance # Gone
    /\ resp.executable # "undecodable"
    /\ report' = [NoReport EXCEPT
          !.deployed = TRUE,
          !.instance = Assess(resp.instance, resp.ledger, thresholdsFor("instance")),
          !.data = [i \in DOMAIN req.keys |->
                       Assess(resp.data[req.keys[i]], resp.ledger, thresholdsFor("data"))],
          !.ledger = resp.ledger]
    /\ pc' = IF resp.executable = "wasm" THEN "coding" ELSE "pricing"
    /\ UNCHANGED <<req, ctxDone, measured, resp, codeResp, sim, failed, exit>>

(* Slip: the code entry is judged at the ledger of round one.              *)
ReadCodeAtOldLedger ==
    /\ pc = "coding"
    /\ ~ctxDone
    /\ \E l \in Ledgers, e \in Entry :
          /\ codeResp' = [ledger |-> l, code |-> e]
          /\ report' = [report EXCEPT !.code = <<Assess(e, resp.ledger, thresholdsFor("code"))>>]
    /\ pc' = "pricing"
    /\ UNCHANGED <<req, ctxDone, measured, resp, sim, failed, exit>>

(* inspectCode, round two: judged at the ledger of its own answer, which   *)
(* may be later than the report's.                                         *)
ReadCode ==
    /\ pc = "coding"
    /\ ~ctxDone
    /\ \E l \in Ledgers, e \in Entry :
          /\ codeResp' = [ledger |-> l, code |-> e]
          /\ report' = [report EXCEPT !.code = <<Assess(e, l, thresholdsFor("code"))>>]
    /\ pc' = "pricing"
    /\ UNCHANGED <<req, ctxDone, measured, resp, sim, failed, exit>>

ReadCodeFails ==
    /\ pc = "coding"
    /\ Fail("code")
    /\ UNCHANGED <<req, ctxDone, measured, resp, codeResp, report, sim>>
-----------------------------------------------------------------------------
(* estimateExtends: the instance, the code if any, the data keys in order. *)
Targets == <<report.instance>> \o report.code \o report.data

Estimating == req.extend > 0 /\ Len(report.estimates) < Len(Targets)

Target == Targets[Len(report.estimates) + 1]

(* There is something to extend, and it need not be restored first.        *)
CanExtend(ttl) ==
    /\ ttl.entry # Gone
    /\ ttl.status # "expired"
    /\ ttl.entry.kind = "timed"

(* Slip: the sum does not fit a uint32.                                    *)
ExtendToUnwrapped == report.ledger + req.extend

(* The target ledger is a uint32 sum, of the ledger of round one.          *)
ExtendTo == (report.ledger + req.extend) % (MaxUint + 1)

AddEstimate(priced) ==
    report' = [report EXCEPT !.estimates =
                  Append(@, [priced |-> priced, extendTo |-> ExtendTo])]

(* An entry that cannot be extended gets a note.                           *)
NoteEstimate ==
    /\ pc = "pricing"
    /\ Estimating
    /\ ~CanExtend(Target)
    /\ AddEstimate(FALSE)
    /\ UNCHANGED <<pc, req, ctxDone, measured, resp, codeResp, sim, failed, exit>>

PriceEstimate ==
    /\ pc = "pricing"
    /\ Estimating
    /\ CanExtend(Target) /\ ~ctxDone
    /\ AddEstimate(TRUE)
    /\ UNCHANGED <<pc, req, ctxDone, measured, resp, codeResp, sim, failed, exit>>

(* One extension that cannot be simulated fails the whole inspection.      *)
PriceFails ==
    /\ pc = "pricing"
    /\ Estimating
    /\ CanExtend(Target)
    /\ Fail("extend")
    /\ UNCHANGED <<req, ctxDone, measured, resp, codeResp, report, sim>>

StatusesOf(rep) ==
    {rep.instance.status} \cup {rep.code[i].status : i \in DOMAIN rep.code}
                          \cup {rep.data[i].status : i \in DOMAIN rep.data}

(* Slip: the code entry is not counted.                                    *)
worstStatusOfRoundOne(rep) ==
    Worst({rep.instance.status} \cup {rep.data[i].status : i \in DOMAIN rep.data})

worstStatus(rep) == Worst(StatusesOf(rep))

FinishReport ==
    /\ pc = "pricing"
    /\ ~Estimating
    /\ report' = [report EXCEPT !.status = worstStatus(report)]
    /\ pc' = SimulateNext(report)
    /\ UNCHANGED <<req, ctxDone, measured, resp, codeResp, sim, failed, exit>>
-----------------------------------------------------------------------------
(* Simulate, as Check sees it: a rejected call is a result, not an error.  *)
Simulate ==
    /\ pc = "simulating"
    /\ ~ctxDone
    /\ sim' \in [kind : {"rejected"}, val : {NoExpect}] \cup [kind : {"returned"}, val : ScVals]
    /\ pc' = "deciding"
    /\ UNCHANGED <<req, ctxDone, measured, resp, codeResp, report, failed, exit>>

(* The arguments do not encode, or the call cannot be made.                *)
SimulateFails ==
    /\ pc = "simulating"
    /\ Fail("simulate")
    /\ UNCHANGED <<req, ctxDone, measured, resp, codeResp, report, sim>>

(* Slip: a warning fails the check.                                        *)
ttlOutcomeStrict(ttl) == IF ttl.status \in {"healthy", "unknown"} THEN "pass" ELSE "fail"

(* ttlCheck: a warning is a signal, not a failure.                         *)
ttlOutcome(ttl) ==
    CASE ttl.status \in {"healthy", "unknown"} -> "pass"
      [] ttl.status = "warning"                -> "warn"
      [] OTHER                                 -> "fail"

IntTypes == {"u32", "i32", "u64", "i64", "u128", "i128", "u256", "i256", "timepoint", "duration"}

(* compareScVals: integers by value whatever their width, the rest as is.  *)
compareScVals(expected, actual) ==
    IF expected.type \in IntTypes \/ actual.type \in IntTypes
    THEN {expected.type, actual.type} \subseteq IntTypes /\ expected.val = actual.val
    ELSE expected = actual

(* expectCheck: no function, no value and no encoding are failures too.    *)
expectOutcome ==
    IF /\ req.fn /\ sim.kind = "returned"
       /\ req.expect # BadExpect /\ compareScVals(req.expect, sim.val)
    THEN "pass" ELSE "fail"

(* The outcomes that each step of checkSteps contributes.                  *)
Outcomes ==
    [deployed     |-> <<IF report.deployed THEN "pass" ELSE "fail">>,
     instance_ttl |-> <<ttlOutcome(report.instance)>>,
     code_ttl     |-> IF report.code = <<>> THEN <<"skip">> ELSE <<ttlOutcome(report.code[1])>>,
     data_ttl     |-> [i \in DOMAIN report.data |-> ttlOutcome(report.data[i])],
     simulate     |-> IF ~req.fn THEN <<"skip">>
                      ELSE <<IF sim.kind = "returned" THEN "pass" ELSE "fail">>,
     expect       |-> IF req.expect = NoExpect THEN <<>> ELSE <<expectOutcome>>]

checkSteps == {"deployed", "instance_ttl", "code_ttl", "data_ttl", "simulate", "expect"}

(* Slip: the pipeline goes on without an instance.                         *)
StepsRunAll == checkSteps

(* errStop: without an instance only the first step runs.                  *)
StepsRun == IF report.deployed THEN checkSteps ELSE {"deployed"}

(* simulateStep: a step that lacks its simulation aborts Check.            *)
StepAborts == req.op = "check" /\ "simulate" \in StepsRun /\ req.fn /\ sim.kind = "none"

CheckOK == \A s \in StepsRun : \A i \in DOMAIN Outcomes[s] : Outcomes[s][i] # "fail"

(* The steps, then the output, then the verdict: the report is written     *)
(* before the exit code is decided.  The error of closing its file is      *)
(* joined to the verdict's: errors.As still finds a failed check in both.  *)
Decide ==
    /\ pc = "deciding"
    /\ \E written, closed \in BOOLEAN :
          /\ failed' = failed \cup (IF StepAborts THEN {"step"} ELSE {})
                             \cup (IF written /\ closed THEN {} ELSE {"output"})
          /\ exit' = IF StepAborts \/ ~written THEN 2
                     ELSE IF req.op = "check" /\ ~CheckOK THEN 1
                     ELSE IF ~closed THEN 2 ELSE 0
    /\ pc' = "exited"
    /\ UNCHANGED <<req, ctxDone, measured, resp, codeResp, report, sim>>

Next ==
    \/ Cancel
    \/ PlanFails \/ ReadEntries \/ ReadEntriesFails
    \/ UseMeasurement \/ Measure \/ FallBack \/ TimingAborted
    \/ ReportUndeployed \/ InstanceUndecodable \/ JudgeEntries
    \/ ReadCode \/ ReadCodeFails
    \/ NoteEstimate \/ PriceEstimate \/ PriceFails \/ FinishReport
    \/ Simulate \/ SimulateFails
    \/ Decide

Spec == Init /\ [][Next]_vars
-----------------------------------------------------------------------------
TTL == [entry : Entry, ledger : 0 .. MaxLedger, status : Statuses]

TypeOK ==
    /\ pc \in {"reading", "timing", "judging", "coding", "pricing", "simulating",
               "deciding", "exited"}
    /\ req \in Requests
    /\ ctxDone \in BOOLEAN /\ measured \in BOOLEAN
    /\ resp \in [ledger : 0 .. MaxLedger, instance : Entry, executable : Executables,
                 data : [DataKeys -> Entry]]
    /\ codeResp \in [ledger : 0 .. MaxLedger, code : Entry]
    /\ report \in [deployed : BOOLEAN, instance : TTL, code : Seq(TTL), data : Seq(TTL),
                   estimates : Seq([priced : BOOLEAN, extendTo : 0 .. MaxUint]),
                   status : Statuses, ledger : 0 .. MaxLedger]
    /\ sim \in [kind : {"none", "rejected", "returned"}, val : ScVals \cup {NoExpect}]
    /\ failed \subseteq {"plan", "entries", "time", "decode", "code", "extend",
                         "simulate", "step", "output"}
    /\ exit \in {Running, 0, 1, 2}

-----------------------------------------------------------------------------
(* The entry was there, at the ledger of the answer it came in, and had    *)
(* more ledgers left than the critical threshold of its kind: its own one, *)
(* or else the global one.  An entry without a TTL is given the benefit of *)
(* the doubt.                                                              *)
Alive(entry, ledger, kind) ==
    LET critical == IF Overrides[kind].critical # Unset
                    THEN Overrides[kind].critical ELSE Global.critical
    IN  entry # Gone /\ (entry.kind = "timed" => entry.until > ledger + critical)

EntriesAlive ==
    /\ Alive(resp.instance, resp.ledger, "instance")
    /\ resp.executable = "wasm" => Alive(codeResp.code, codeResp.ledger, "code")
    /\ \A k \in Asked : Alive(resp.data[k], resp.ledger, "data")

CallAsExpected ==
    /\ req.fn => sim.kind = "returned"
    /\ req.expect # NoExpect =>
          /\ req.fn /\ req.expect # BadExpect
          /\ \/ req.expect = sim.val
             \/ {req.expect.type, sim.val.type} \subseteq IntTypes /\ req.expect.val = sim.val.val

(* Exit code 0 of a check (README.md:407, "All checks passed") means that  *)
(* every entry asked for was read and found alive where it was read, the   *)
(* call asked for returned, and returned what was expected of it.  It is   *)
(* lost when an entry, a threshold or a step drops out on the long way     *)
(* from the two answers to the exit code.                                  *)
PassMeansAlive ==
    exit = 0 /\ req.op = "check" => EntriesAlive /\ CallAsExpected

(* Exit code 1 (README.md:408, "the contract has a problem") is never the  *)
(* fault of a warning, of an entry without a TTL, of an advisory call that *)
(* failed or of the report's file: an entry is gone, expired or critical,  *)
(* or the call did not do what was asked (README.md:471-472).              *)
FailHasReason ==
    exit = 1 => req.op = "check" /\ ~(EntriesAlive /\ CallAsExpected)

(* Exit code 2 (README.md:409, "SoroProbe could not run") has a cause that *)
(* is not the contract's health: a call failed that the verdict needs, or  *)
(* the output did.  The close time is not needed, unless the caller has    *)
(* gone; and a contract that is not deployed is a verdict, whatever else   *)
(* was asked for.                                                          *)
RuntimeErrorHasCause ==
    exit = 2 =>
        \/ failed \cap {"plan", "entries", "decode", "code", "extend", "simulate", "output"} # {}
        \/ failed = {"time"} /\ ctxDone

(* The status and the verdict are computed apart, from the report and from *)
(* the steps (inspect.go:473, check.go:182), and clients read either.  A   *)
(* status worse than a warning fails the check; a check that fails below   *)
(* it has failed in its call.                                              *)
StatusBacksVerdict ==
    exit \in {0, 1} /\ req.op = "check" =>
        /\ Severity[report.status] >= Severity["critical"] => exit = 1
        /\ Severity[report.status] < Severity["critical"] /\ exit = 1 => ~CallAsExpected

(* A finished inspection of a deployed contract with an estimate says of   *)
(* every entry it read what an extension costs, and has a price for those  *)
(* alone that were alive at the ledger of their own answer                 *)
(* (README.md:383-385): the targets are found again by position, after     *)
(* round two has put the code between the instance and the data.           *)
EstimatesMatchEntries ==
    exit = 0 /\ req.extend > 0 /\ report.deployed =>
        LET read == <<<<resp.instance, resp.ledger>>>>
                    \o (IF resp.executable = "wasm" THEN <<<<codeResp.code, codeResp.ledger>>>> ELSE <<>>)
                    \o [i \in DOMAIN req.keys |-> <<resp.data[req.keys[i]], resp.ledger>>]
        IN  /\ Len(report.estimates) = Len(read)
            /\ \A i \in DOMAIN read :
                  report.estimates[i].priced <=>
                      read[i][1].kind = "timed" /\ read[i][1].until >= read[i][2]

=============================================================================
