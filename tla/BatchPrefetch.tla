---------------------------- MODULE BatchPrefetch ----------------------------
(***************************************************************************)
(* checkBatchPrefetched of internal/probe/batch.go: a batch without        *)
(* concurrency and without timeouts reads the ledger entries of all its    *)
(* checks first, in two rounds of chunked getLedgerEntries calls, and then *)
(* runs the checks in order against what it has read.                      *)
(*                                                                         *)
(* Round one reads the instance and data entries the checks name; round    *)
(* two the code entries their instances lead to.  A chunk that fails fails *)
(* the checks that need one of its keys, and the batch goes on.            *)
(***************************************************************************)
EXTENDS Naturals, SequencesExt

CONSTANTS
    Plan,       \* Plan[i]: the keys of planInspect for check i, the instance
                \* key first; empty when planInspect fails
    CodeKeys,   \* keys of code entries
    MaxKeys,    \* maxLedgerKeysPerRequest
    MaxLedger   \* bound of the model: the last ledger that closes

Checks == DOMAIN Plan

InstanceKeys == {Plan[i][1] : i \in {j \in Checks : Plan[j] # <<>>}}
PlannedKeys  == UNION {ToSet(Plan[i]) : i \in Checks}

(* A ledger key holds the contract it belongs to: plans that share one are *)
(* of the same contract and begin with the same instance key.              *)
ASSUME PrefetchAssumption ==
    /\ Plan \in Seq(ToSet(Plan)) /\ Plan # <<>>
    /\ \A i \in Checks : Plan[i] \in Seq(ToSet(Plan[i]))
    /\ \A i, j \in Checks :
          ToSet(Plan[i]) \cap ToSet(Plan[j]) # {} => Plan[i][1] = Plan[j][1]
    /\ PlannedKeys \cap CodeKeys = {} /\ "none" \notin PlannedKeys
    /\ CodeKeys \cap {"none", "absent", "asset", "broken", "entry"} = {}
    /\ MaxKeys \in Nat \ {0}
    /\ MaxLedger \in Nat \ {0}

(* What a key's entry holds: an instance names a Wasm code entry, belongs  *)
(* to an asset contract, or cannot be read; RPC omits an absent entry.     *)
Contents(k) ==
    IF k \in InstanceKeys
    THEN {"absent", "asset", "broken"} \cup CodeKeys
    ELSE {"absent", "entry"}

VARIABLES
    ctxDone,   \* the caller's context has been canceled
    phase,     \* "plan", "initial", "collect", "code", "run"
    check,     \* i of the loops over the checks, and the next of its keys
    nth,
    todo,      \* the keys of the round that are still to be asked for
    ledger,    \* the latest ledger the endpoint has reported
    fetched,   \* the maps entries and latest: key -> [ledger, content]
    errors,    \* the map errors: key -> the error of the call it was in
    states,    \* states[i]: batchCheckState, its err and its codeKey
    running,   \* batchedProber.Check runs for the next item
    items,     \* out.Items
    flags,     \* out.OK and out.Errored
    answer     \* what CheckBatch returned

reads == <<todo, ledger, fetched, errors>>
out == <<items, flags>>
vars == <<ctxDone, phase, check, nth, reads, states, running, out, answer>>

NoState == [err |-> "none", codeKey |-> "none"]
Pending == [state |-> "running", ok |-> FALSE, errored |-> FALSE]
GoError == [state |-> "error", ok |-> FALSE, errored |-> FALSE]

(* The map seen: a key joins a round once.                                 *)
Joined(k) == IF k \in ToSet(todo) THEN todo ELSE Append(todo, k)

(* The first of the keys that is in S.                                     *)
FirstIn(S, keys) == keys[Min({n \in DOMAIN keys : keys[n] \in S})]

This == Len(items) + 1
-----------------------------------------------------------------------------
Init ==
    /\ ctxDone = FALSE
    /\ phase = "plan"
    /\ check = 1 /\ nth = 1
    /\ todo = <<>>
    /\ ledger = 1
    /\ fetched = [k \in {} |-> 0]
    /\ errors = [k \in {} |-> 0]
    /\ states = [i \in Checks |-> NoState]
    /\ running = FALSE
    /\ items = <<>>
    /\ flags = [ok |-> TRUE, errored |-> FALSE]
    /\ answer = Pending

Cancel ==
    /\ ~ctxDone
    /\ ctxDone' = TRUE
    /\ UNCHANGED <<phase, check, nth, reads, states, running, out, answer>>

(* ctx.Err() at the head of an iteration of the first or the last loop.    *)
ReturnError ==
    /\ answer = Pending
    /\ ctxDone
    /\ \/ phase = "plan" /\ check \in Checks /\ nth = 1
       \/ phase = "run" /\ ~running /\ This \in Checks
    /\ answer' = GoError
    /\ UNCHANGED <<ctxDone, phase, check, nth, reads, states, running, out>>

(* The first loop, a check that cannot be planned.                         *)
PlanFails ==
    /\ phase = "plan" /\ check \in Checks /\ Plan[check] = <<>>
    /\ ~ctxDone
    /\ states' = [states EXCEPT ![check].err = "plan"]
    /\ check' = check + 1
    /\ UNCHANGED <<ctxDone, phase, nth, reads, running, out, answer>>

(* The first loop, one key of a check.                                     *)
PlanKey ==
    /\ phase = "plan" /\ check \in Checks /\ nth \in DOMAIN Plan[check]
    /\ nth = 1 => ~ctxDone
    /\ todo' = Joined(Plan[check][nth])
    /\ IF nth = Len(Plan[check])
       THEN check' = check + 1 /\ nth' = 1
       ELSE check' = check /\ nth' = nth + 1
    /\ UNCHANGED <<ctxDone, phase, ledger, fetched, errors, states, running, out, answer>>

(* A loop over the checks has ended.                                       *)
LoopEnds ==
    /\ check \notin Checks
    /\ \/ phase = "plan" /\ phase' = "initial"
       \/ phase = "collect" /\ phase' = "code"
    /\ check' = 1
    /\ UNCHANGED <<ctxDone, nth, reads, states, running, out, answer>>

Fetching == phase \in {"initial", "code"} /\ todo # <<>>

ChunkLen == Min({MaxKeys, Len(todo)})
Chunk == ToSet(SubSeq(todo, 1, ChunkLen))

(* A map after the assignments of a loop over some keys.                   *)
Put(map, new) ==
    [k \in DOMAIN map \cup DOMAIN new |-> IF k \in DOMAIN new THEN new[k] ELSE map[k]]

(* A chunk is answered as of one ledger, and ledgers never go back.        *)
ChunkAnswered(rest) ==
    /\ \E l \in ledger .. MaxLedger, c \in [Chunk -> UNION {Contents(k) : k \in Chunk}] :
          /\ \A k \in Chunk : c[k] \in Contents(k)
          /\ ledger' = l
          /\ fetched' = Put(fetched, [k \in Chunk |-> [ledger |-> l, content |-> c[k]]])
    /\ todo' = rest
    /\ UNCHANGED errors

ChunkFailed(rest) ==
    /\ errors' = Put(errors, [k \in Chunk |-> "rpc"])
    /\ todo' = rest
    /\ UNCHANGED <<ledger, fetched>>

Rest == SubSeq(todo, ChunkLen + 1, Len(todo))

(* Slip: the loop stops when fewer than a full chunk of keys is left.      *)
FetchChunkFullOnly ==
    /\ Fetching
    /\ ~ctxDone
    /\ LET rest == IF Len(Rest) < MaxKeys THEN <<>> ELSE Rest
       IN  ChunkAnswered(rest) \/ ChunkFailed(rest)
    /\ UNCHANGED <<ctxDone, phase, check, nth, states, running, out, answer>>

(* fetchBatchEntries, one iteration: a call for the next chunk.            *)
FetchChunk ==
    /\ Fetching
    /\ ~ctxDone
    /\ ChunkAnswered(Rest) \/ ChunkFailed(Rest)
    /\ UNCHANGED <<ctxDone, phase, check, nth, states, running, out, answer>>

(* Slip: the loop goes on without leaving the keys behind.                 *)
FetchAbandonedStays ==
    /\ Fetching
    /\ ctxDone
    /\ errors' = Put(errors, [k \in ToSet(todo) |-> "canceled"])
    /\ UNCHANGED <<ctxDone, phase, check, nth, todo, ledger, fetched, states, running, out, answer>>

(* fetchBatchEntries under a context that is done: no more calls.          *)
FetchAbandoned ==
    /\ Fetching
    /\ ctxDone
    /\ errors' = Put(errors, [k \in ToSet(todo) |-> "canceled"])
    /\ todo' = <<>>
    /\ UNCHANGED <<ctxDone, phase, check, nth, ledger, fetched, states, running, out, answer>>

Content(k) == IF k \in DOMAIN fetched THEN fetched[k].content ELSE "absent"

(* Slip: one failed chunk is taken to fail every check.                    *)
StateAfterInitialAllFail(i) ==
    LET held == Content(Plan[i][1])
    IN  CASE errors # <<>>                         -> [err |-> "rpc", codeKey |-> "none"]
          [] errors = <<>> /\ held = "broken"      -> [err |-> "unreadable", codeKey |-> "none"]
          [] errors = <<>> /\ held \in CodeKeys    -> [err |-> "none", codeKey |-> held]
          [] errors = <<>> /\ held \in {"absent", "asset"} -> NoState

(* What the second loop finds out of a check that has a plan.              *)
StateAfterInitial(i) ==
    LET held == Content(Plan[i][1])
        fails == ToSet(Plan[i]) \cap DOMAIN errors # {}
    IN  CASE fails                           -> [err |-> errors[FirstIn(DOMAIN errors, Plan[i])],
                                                 codeKey |-> "none"]
          [] ~fails /\ held = "broken"       -> [err |-> "unreadable", codeKey |-> "none"]
          [] ~fails /\ held \in CodeKeys     -> [err |-> "none", codeKey |-> held]
          [] ~fails /\ held \in {"absent", "asset"} -> NoState

(* The second loop, between the rounds.                                    *)
CollectCodeKey ==
    /\ phase = "collect" /\ check \in Checks
    /\ LET after == IF states[check].err = "none" THEN StateAfterInitial(check) ELSE states[check]
       IN  /\ states' = [states EXCEPT ![check] = after]
           /\ todo' = IF after.codeKey = "none" THEN todo ELSE Joined(after.codeKey)
    /\ check' = check + 1
    /\ UNCHANGED <<ctxDone, phase, nth, ledger, fetched, errors, running, out, answer>>

(* A round has ended; after the second one the maps of both are merged.    *)
FetchEnds ==
    /\ todo = <<>>
    /\ \/ phase = "initial" /\ phase' = "collect"
       \/ phase = "code" /\ phase' = "run"
    /\ UNCHANGED <<ctxDone, check, nth, reads, states, running, out, answer>>

RecordError(e) ==
    /\ items' = Append(items, [result |-> "none", error |-> e, ledger |-> 0])
    /\ flags' = [ok |-> FALSE, errored |-> TRUE]

RecordResult(res, at) ==
    /\ items' = Append(items, [result |-> res, error |-> "none", ledger |-> at])
    /\ flags' = [flags EXCEPT !.ok = @ /\ res = "pass"]

(* The error the last loop finds before it calls Check, "none" otherwise.  *)
ErrorBefore(i) ==
    IF states[i].err = "none" /\ states[i].codeKey \in DOMAIN errors
    THEN errors[states[i].codeKey]
    ELSE states[i].err

(* Slip: the branch of a prefetch error does not raise the flags.          *)
RecordFetchErrorUnflagged ==
    /\ phase = "run" /\ ~running /\ This \in Checks
    /\ ~ctxDone
    /\ ErrorBefore(This) # "none"
    /\ items' = Append(items, [result |-> "none", error |-> ErrorBefore(This), ledger |-> 0])
    /\ UNCHANGED <<ctxDone, phase, check, nth, reads, states, running, flags, answer>>

(* A check that the prefetch has failed.                                   *)
RecordFetchError ==
    /\ phase = "run" /\ ~running /\ This \in Checks
    /\ ~ctxDone
    /\ ErrorBefore(This) # "none"
    /\ RecordError(ErrorBefore(This))
    /\ UNCHANGED <<ctxDone, phase, check, nth, reads, states, running, answer>>

BeginCheck ==
    /\ phase = "run" /\ ~running /\ This \in Checks
    /\ ~ctxDone
    /\ ErrorBefore(This) = "none"
    /\ running' = TRUE
    /\ UNCHANGED <<ctxDone, phase, check, nth, reads, states, out, answer>>

(* The keys that end a call of the cached client: failed, or never read.   *)
Misses(keys) == {k \in ToSet(keys) : k \in DOMAIN errors \/ k \notin DOMAIN fetched}

Missed(keys) ==
    LET k == FirstIn(Misses(keys), keys)
    IN  [error |-> IF k \in DOMAIN errors THEN errors[k] ELSE "not prefetched", ledger |-> 0]

(* Slip: the answer names the ledger of the last key's chunk.              *)
LookupLast(keys) ==
    IF Misses(keys) # {} THEN Missed(keys)
    ELSE [error |-> "none", ledger |-> fetched[keys[Len(keys)]].ledger]

(* cachedLedgerClient.GetLedgerEntries: the first key that failed or is    *)
(* unknown decides, and the ledger is that of the first key.               *)
Lookup(keys) ==
    IF Misses(keys) # {} THEN Missed(keys)
    ELSE [error |-> "none", ledger |-> fetched[keys[1]].ledger]

(* The entries Inspect asks for, one call after the other.                 *)
Inspection(i) ==
    LET held == Content(Plan[i][1])
        first == Lookup(Plan[i])
    IN  IF first.error = "none" /\ held \in CodeKeys /\ Lookup(<<held>>).error # "none"
        THEN Lookup(<<held>>)
        ELSE first

(* Check returns.  The close time and the simulation are calls of their    *)
(* own, which may fail, and fail with the context's error once it is done. *)
EndCheck ==
    /\ running
    /\ running' = FALSE
    /\ LET seen == Inspection(This)
           own == {"rpc"} \cup (IF ctxDone THEN {"canceled"} ELSE {})
       IN  IF seen.error # "none"
           THEN RecordError(seen.error)
           ELSE \/ \E e \in own : RecordError(e)
                \/ \E res \in {"pass", "fail"} : RecordResult(res, seen.ledger)
    /\ UNCHANGED <<ctxDone, phase, check, nth, reads, states, answer>>

(* The loop has ended: the report carries the flags it has kept.           *)
ReturnReport ==
    /\ answer = Pending
    /\ phase = "run" /\ ~running /\ This \notin Checks
    /\ answer' = [state |-> "report", ok |-> flags.ok, errored |-> flags.errored]
    /\ UNCHANGED <<ctxDone, phase, check, nth, reads, states, running, out>>

Work ==
    \/ PlanFails
    \/ PlanKey
    \/ LoopEnds
    \/ FetchChunk
    \/ FetchAbandoned
    \/ CollectCodeKey
    \/ FetchEnds
    \/ RecordFetchError
    \/ BeginCheck
    \/ EndCheck
    \/ ReturnError
    \/ ReturnReport

Next == Cancel \/ Work

(* One goroutine that runs, and every call it makes ends: by an answer, an *)
(* error or the transport's own timeout.                                   *)
Spec == Init /\ [][Next]_vars /\ WF_vars(Work)
-----------------------------------------------------------------------------
(* Whatever fails, a check never asks its batch for an entry that was not  *)
(* read for it: the rounds cover what Inspect goes on to ask for, the last *)
(* partial chunk and shared keys included (batch.go:345-353).              *)
NothingUnprefetched ==
    \A i \in DOMAIN items : items[i].error # "not prefetched"

KeysOf(i) ==
    ToSet(Plan[i]) \cup (IF states[i].codeKey = "none" THEN {} ELSE {states[i].codeKey})

(* The failure of a chunk reaches the checks that need one of its keys and *)
(* no other: those have no result, and a check whose keys were all read    *)
(* has one unless it could not be planned, its instance could not be read, *)
(* or a call of its own failed (batch.go:209-217 and 274-289).             *)
FailureIsContained ==
    \A i \in DOMAIN items :
        /\ items[i].result # "none" => KeysOf(i) \subseteq DOMAIN fetched
        /\ ErrorBefore(i) \in {"rpc", "canceled"} => KeysOf(i) \cap DOMAIN errors # {}

(* The ledger a report names is not later than the one at which any entry  *)
(* it judges was read, also when the check's keys lie in several chunks    *)
(* (batch.go:354-356; inspect_cache.go:18-20).                             *)
LedgerIsHonest ==
    \A i \in DOMAIN items : items[i].result # "none" =>
        \A k \in KeysOf(i) : items[i].ledger <= fetched[k].ledger

(* The batch makes the same promise as the concurrent one.                 *)
verdictBar ==
    [i \in Checks |->
        CASE i \notin DOMAIN items -> "unset"
          [] i \in DOMAIN items /\ items[i].error # "none"  -> "errored"
          [] i \in DOMAIN items /\ items[i].error = "none" /\ items[i].result = "pass" -> "passed"
          [] OTHER -> "failed"]

Contract == INSTANCE BatchContract WITH verdict <- verdictBar, NumChecks <- Len(Plan)

(* Each step of the prefetched strategy is a step of the contract or       *)
(* leaves it unchanged (batch.go:61-68, 268-303).                          *)
ImplementsContract == Contract!Spec

(* The call returns, whatever fails and whenever it is canceled.           *)
PrefetchedReturns == <>(answer # Pending)
=============================================================================
