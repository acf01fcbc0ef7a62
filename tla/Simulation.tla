----------------------------- MODULE Simulation -----------------------------
(***************************************************************************)
(* The simulate command, for one call and for a file of calls, from the    *)
(* flags to the exit code: newSimulateCmd and runSimulateFile              *)
(* (cmd/soroprobe/commands.go), SimulateBatch, Simulate, typeArgs and      *)
(* CompareCost (internal/probe/simulate.go), SpreadCost (spread.go), and   *)
(* the interface sources behind typeArgs (internal/abi), of which          *)
(* ChainSource shares its cache with every other call of the process.      *)
(* Each RPC is a step, between which the contract may be upgraded, other   *)
(* calls may fill the cache and the caller may cancel.                     *)
(*                                                                         *)
(* Whether the contract rejects the call is not modelled: the code has the *)
(* answer's figures go through the gates either way.                       *)
(***************************************************************************)
EXTENDS Integers, Sequences, FiniteSetsExt

CONSTANTS
    Requests,   \* the commands that may be given, see RequestShape
    Wasms,      \* hashes of contract code
    Exports,    \* for each of them, the functions it exports
    Functions,  \* functions that may be called
    Figures,    \* costFigures: the names of the figures that are compared
    MaxFigure   \* bound of the model: the largest figure

Cost == [Figures -> 0 .. MaxFigure]

(* A baseline is a cost, none, or one that was taken of another call.      *)
NoBaseline == [kind |-> "none", cost |-> [f \in Figures |-> 0]]
OtherCall == [kind |-> "other", cost |-> [f \in Figures |-> 0]]
BaselineOf(c) == [kind |-> "cost", cost |-> c]

Unset == -1  \* a threshold that was not given: a nil pointer in the code

(* An interface lists functions; a call names one, with its arguments.  A  *)
(* call of a file may have all of the fields, unlike what the help says of *)
(* it, and nobody looks at the thresholds there: a negative one is like 0, *)
(* one without what it judges has no effect.                               *)
CallShape ==
    [malformed : BOOLEAN, fn : Functions,
     baseline : {NoBaseline, OtherCall} \cup {BaselineOf(c) : c \in Cost},
     maxIncrease : Nat \cup {Unset}, repeat : Int, maxSpread : Nat \cup {Unset}]

(* flagged: along with a file, a flag was given that is for one call.      *)
RequestShape ==
    [mode : {"call", "file"}, source : {"none", "chain", "vault"}, calls : Seq(CallShape),
     flagged : BOOLEAN]

ASSUME SimulationAssumption ==
    /\ Requests \subseteq RequestShape
    /\ \A r \in Requests : r.mode = "call" => Len(r.calls) = 1
    /\ Exports \in [Wasms -> SUBSET Functions]
    /\ MaxFigure \in Nat

VARIABLES
    pc,       \* the step that comes next
    req,      \* the command
    ctxDone,  \* the caller's context is done
    wasm,     \* what the instance entry on the ledger says the contract is
    cache,    \* ChainSource.cache: interfaces, by the hash of their Wasm
    read,     \* what this call has read in the instance entry
    typedBy,  \* the Wasm whose interface types this call, or None
    runs,     \* the costs of this call's runs so far
    items,    \* the calls that are done, with their verdicts and their runs
    exit,     \* the exit code, Running before the end
    met,      \* history: what each call has met; call 0 is the command
    during    \* history: what the contract has been since this call began

vars == <<pc, req, ctxDone, wasm, cache, read, typedBy, runs, items, exit, met, during>>

None == "none"
Running == -1
Executables == Wasms \cup {"asset", "gone"}  \* an asset contract has no Wasm

(* The call that is being made, and the runs it makes of it.               *)
This == Len(items) + 1
Call == req.calls[This]
Repeat == IF Call.repeat < 1 THEN 1 ELSE Call.repeat
-----------------------------------------------------------------------------
Init ==
    /\ req \in Requests
    /\ pc = "flags"
    /\ ctxDone = FALSE
    /\ wasm \in IF req.source = "chain" THEN Executables ELSE {"gone"}  \* else not looked at
    /\ cache = <<>>
    /\ read = None /\ typedBy = None /\ runs = <<>> /\ items = <<>>
    /\ exit = Running
    /\ met = {} /\ during = {}

Cancel ==
    /\ pc # "exited"
    /\ ~ctxDone
    /\ ctxDone' = TRUE
    /\ UNCHANGED <<pc, req, wasm, cache, read, typedBy, runs, items, exit, met, during>>

(* The contract is deployed, upgraded or lost while the command runs.      *)
Upgrade ==
    /\ req.source = "chain"
    /\ pc \notin {"flags", "exited"}
    /\ wasm' \in Executables \ {wasm}
    /\ during' = during \cup {wasm'}
    /\ UNCHANGED <<pc, req, ctxDone, cache, read, typedBy, runs, items, exit, met>>

(* The cache is by hash, never by contract, so an upgrade needs no         *)
(* invalidation.                                                           *)
CacheKeyByContract(w) == "contract"  \* Slip

CacheKey(w) == w

(* A reader that was overtaken keeps what is cached.                       *)
Stored(w) ==
    [k \in DOMAIN cache \cup {CacheKey(w)} |-> IF k \in DOMAIN cache THEN cache[k] ELSE w]

(* Another call of the process has read the code of some contract.         *)
OtherCallStores ==
    /\ req.source = "chain"
    /\ pc # "exited"
    /\ \E w \in Wasms : cache' = Stored(w) /\ cache' # cache
    /\ UNCHANGED <<pc, req, ctxDone, wasm, read, typedBy, runs, items, exit, met, during>>
-----------------------------------------------------------------------------
BadFlags ==
    \/ req.mode = "file" /\ req.flagged
    \/ /\ req.mode = "call"
       /\ \/ req.calls[1].maxIncrease # Unset /\ req.calls[1].baseline = NoBaseline
          \/ req.calls[1].maxSpread # Unset /\ req.calls[1].repeat < 2
    \/ req.calls = <<>>

AcceptCommand ==
    /\ pc = "flags"
    /\ ~BadFlags
    /\ pc' = "starting"
    /\ UNCHANGED <<req, ctxDone, wasm, cache, read, typedBy, runs, items, exit, met, during>>

(* Also for a file that cannot be read or created, and a percentage that   *)
(* does not parse or is negative.                                          *)
RejectCommand ==
    /\ pc = "flags"
    /\ pc' = "exited"
    /\ exit' = 2
    /\ met' = {<<0, "flags">>}
    /\ UNCHANGED <<req, ctxDone, wasm, cache, read, typedBy, runs, items, during>>

(* An item ends its call; the next call of the file begins.                *)
Conclude(item) ==
    /\ items' = Append(items, item)
    /\ pc' = IF This = Len(req.calls) THEN "deciding" ELSE "starting"
    /\ runs' = <<>>
    /\ UNCHANGED <<typedBy, exit>>

Abort ==
    /\ pc' = "exited"
    /\ exit' = 2
    /\ UNCHANGED <<typedBy, runs, items>>

ErrorItem == [error |-> TRUE, exceeded |-> FALSE, noisy |-> FALSE, runs |-> <<>>]

(* Simulate returns an error.  In a file it is the call's own, unless the  *)
(* caller has gone.                                                        *)
CallFails(cause) ==
    /\ met' = met \cup {<<This, cause>>}
    /\ IF req.mode = "call" \/ ctxDone
       THEN Abort
       ELSE Conclude(ErrorItem)

(* SimulateBatch looks at the context before each call.                    *)
GiveUp ==
    /\ pc = "starting"
    /\ req.mode = "file" /\ ctxDone
    /\ Abort
    /\ UNCHANGED <<req, ctxDone, wasm, cache, read, met, during>>

(* A malformed call, and a baseline of another one, reach no network.      *)
RefuseCall ==
    /\ pc = "starting"
    /\ ~(req.mode = "file" /\ ctxDone)
    /\ Call.malformed \/ Call.baseline = OtherCall
    /\ CallFails("plan")
    /\ UNCHANGED <<req, ctxDone, wasm, cache, read, during>>

StartCall ==
    /\ pc = "starting"
    /\ ~(req.mode = "file" /\ ctxDone)
    /\ ~Call.malformed /\ Call.baseline # OtherCall
    /\ pc' = CASE req.source = "none"  -> "encoding"
               [] req.source = "chain" -> "reading"
               [] req.source = "vault" -> "asking"
    /\ read' = None /\ typedBy' = None
    /\ during' = {wasm}
    /\ UNCHANGED <<req, ctxDone, wasm, cache, runs, items, exit, met>>
-----------------------------------------------------------------------------
(* SoroVault.Interface: what the registry has on file, current or not.     *)
AskVault ==
    /\ pc = "asking"
    /\ ~ctxDone
    /\ typedBy' \in Wasms
    /\ pc' = "typing"
    /\ UNCHANGED <<req, ctxDone, wasm, cache, read, runs, items, exit, met, during>>

(* ChainSource.Interface: the instance entry, the cache, the code entry.   *)
ReadInstance ==
    /\ pc = "reading"
    /\ ~ctxDone
    /\ read' = wasm
    /\ pc' = "cached"
    /\ UNCHANGED <<req, ctxDone, wasm, cache, typedBy, runs, items, exit, met, during>>

(* Slip: an asset contract, or none, is taken for a Wasm one.              *)
LookUpUnguarded ==
    /\ pc = "cached"
    /\ IF CacheKey(read) \in DOMAIN cache
       THEN typedBy' = cache[CacheKey(read)] /\ pc' = "typing"
       ELSE pc' = "fetching" /\ UNCHANGED typedBy
    /\ UNCHANGED <<req, ctxDone, wasm, cache, read, runs, items, exit, met, during>>

LookUp ==
    /\ pc = "cached"
    /\ read \in Wasms
    /\ IF CacheKey(read) \in DOMAIN cache
       THEN typedBy' = cache[CacheKey(read)] /\ pc' = "typing"
       ELSE pc' = "fetching" /\ UNCHANGED typedBy
    /\ UNCHANGED <<req, ctxDone, wasm, cache, read, runs, items, exit, met, during>>

(* The code is on the ledger under its hash, whatever the contract is now. *)
ReadCode ==
    /\ pc = "fetching"
    /\ ~ctxDone
    /\ cache' = Stored(read)
    /\ typedBy' = cache'[CacheKey(read)]
    /\ pc' = "typing"
    /\ UNCHANGED <<req, ctxDone, wasm, read, runs, items, exit, met, during>>

SourceHasNone ==
    \/ pc \in {"asking", "reading", "fetching"}
    \/ pc = "cached" /\ read \notin Wasms

(* Slip: only a contract that the source does not know is forgiven.        *)
NoInterfaceFatal ==
    /\ SourceHasNone
    /\ CallFails(IF ctxDone THEN "canceled" ELSE "source")
    /\ UNCHANGED <<req, ctxDone, wasm, cache, read, during>>

(* The source fails, cannot be read, or has no such contract or code: the  *)
(* types are inferred, unless the caller has gone.                         *)
NoInterface ==
    /\ SourceHasNone
    /\ IF ctxDone
       THEN CallFails("canceled")
       ELSE /\ met' = met \cup {<<This, "source">>}
            /\ pc' = "encoding"
            /\ UNCHANGED <<typedBy, runs, items, exit>>
    /\ UNCHANGED <<req, ctxDone, wasm, cache, read, during>>

(* Lookup: the interface has the function, or the call is refused.         *)
TypeArgs ==
    /\ pc = "typing"
    /\ IF Call.fn \in Exports[typedBy]
       THEN pc' = "encoding" /\ UNCHANGED <<typedBy, runs, items, exit, met>>
       ELSE CallFails("interface")
    /\ UNCHANGED <<req, ctxDone, wasm, cache, read, during>>

(* Annotate or EncodeAll: an argument that is not of its type.             *)
ArgumentFails ==
    /\ \/ pc = "encoding"
       \/ pc = "typing" /\ Call.fn \in Exports[typedBy]
    /\ CallFails("argument")
    /\ UNCHANGED <<req, ctxDone, wasm, cache, read, during>>

Encode ==
    /\ pc = "encoding"
    /\ pc' = "running"
    /\ UNCHANGED <<req, ctxDone, wasm, cache, read, typedBy, runs, items, exit, met, during>>
-----------------------------------------------------------------------------
(* One run.  An answer without transaction data, as of a call that was     *)
(* rejected, costs nothing.                                                *)
Run ==
    /\ pc = "running"
    /\ Len(runs) < Repeat
    /\ ~ctxDone
    /\ \E c \in Cost : runs' = Append(runs, c)
    /\ UNCHANGED <<pc, req, ctxDone, wasm, cache, read, typedBy, items, exit, met, during>>

(* The call cannot be made, or its answer cannot be decoded.               *)
RunFails ==
    /\ pc = "running"
    /\ Len(runs) < Repeat
    /\ CallFails("run")
    /\ UNCHANGED <<req, ctxDone, wasm, cache, read, during>>

(* Is the growth from one figure to another above a percentage?  The code  *)
(* computes it in floating point: a growth of exactly the percentage may   *)
(* come out on either side (7/100*100 > 7), so both are possible.          *)
Above(from, to, percent) ==
    IF to <= from THEN {FALSE}
    ELSE IF from = 0 THEN {TRUE}
    ELSE IF 100 * (to - from) = percent * from THEN BOOLEAN
    ELSE {100 * (to - from) > percent * from}

(* The outcomes of "some figure is above", given those of each figure.     *)
SomeAbove(outcomes) ==
    {b \in BOOLEAN : IF b THEN \E f \in Figures : TRUE \in outcomes[f]
                          ELSE \A f \in Figures : FALSE \in outcomes[f]}

ValuesOf(f) == {runs[i][f] : i \in DOMAIN runs}

(* SpreadCost: the range of each figure, judged as a growth from its least.*)
Noisy ==
    IF Call.repeat > 1 /\ Call.maxSpread # Unset
    THEN SomeAbove([f \in Figures |-> Above(Min(ValuesOf(f)), Max(ValuesOf(f)), Call.maxSpread)])
    ELSE {FALSE}

(* Slip: the comparison takes the run that is reported.                    *)
CurrentLast == runs[Len(runs)]

(* Repeated runs are compared by their worst case, figure by figure.       *)
Current ==
    IF Call.repeat > 1 THEN [f \in Figures |-> Max(ValuesOf(f))] ELSE runs[Len(runs)]

(* CompareCost.                                                            *)
Exceeded ==
    IF Call.baseline # NoBaseline /\ Call.maxIncrease # Unset
    THEN SomeAbove([f \in Figures |->
                       Above(Call.baseline.cost[f], Current[f], Call.maxIncrease)])
    ELSE {FALSE}

FinishCall ==
    /\ pc = "running"
    /\ Len(runs) = Repeat
    /\ \E e \in Exceeded, n \in Noisy :
          Conclude([error |-> FALSE, exceeded |-> e, noisy |-> n, runs |-> runs])
    /\ UNCHANGED <<req, ctxDone, wasm, cache, read, met, during>>

Tripped(item) == item.exceeded \/ item.noisy

(* runSimulateFile: the file ends in an error for any call's.              *)
SomeCallFailed == \E i \in DOMAIN items : items[i].error

(* The output is written before the verdict.  A gate that is tripped ends  *)
(* a single call in 1, also when the report file then fails to close; of a *)
(* file nobody reads the verdicts.  A file with a call that could not be   *)
(* run ends in 2.                                                          *)
Decide ==
    /\ pc = "deciding"
    /\ \E written, closed \in BOOLEAN :
          /\ exit' = IF ~written THEN 2
                     ELSE IF req.mode = "call" /\ Tripped(items[1]) THEN 1
                     ELSE IF SomeCallFailed \/ ~closed THEN 2
                     ELSE 0
          /\ met' = met \cup (IF written /\ closed THEN {} ELSE {<<0, "output">>})
    /\ pc' = "exited"
    /\ UNCHANGED <<req, ctxDone, wasm, cache, read, typedBy, runs, items, during>>

Next ==
    \/ Cancel \/ Upgrade \/ OtherCallStores
    \/ AcceptCommand \/ RejectCommand
    \/ GiveUp \/ RefuseCall \/ StartCall
    \/ AskVault \/ ReadInstance \/ LookUp \/ ReadCode \/ NoInterface
    \/ TypeArgs \/ ArgumentFails \/ Encode
    \/ Run \/ RunFails \/ FinishCall
    \/ Decide

Spec == Init /\ [][Next]_vars
-----------------------------------------------------------------------------
Item == [error : BOOLEAN, exceeded : BOOLEAN, noisy : BOOLEAN, runs : Seq(Cost)]

Fatal == {"plan", "interface", "argument", "canceled", "run"}

TypeOK ==
    /\ pc \in {"flags", "starting", "asking", "reading", "cached", "fetching", "typing",
               "encoding", "running", "deciding", "exited"}
    /\ req \in Requests /\ ctxDone \in BOOLEAN
    /\ wasm \in Executables /\ during \subseteq Executables
    /\ cache \in [DOMAIN cache -> Wasms]
    /\ read \in Executables \cup {None} /\ typedBy \in Wasms \cup {None}
    /\ runs \in Seq(Cost) /\ (runs # <<>> => This <= Len(req.calls) /\ Len(runs) <= Repeat)
    /\ items \in Seq(Item) /\ Len(items) <= Len(req.calls)
    /\ exit \in {Running, 0, 1, 2}
    /\ met \subseteq (0 .. Len(req.calls)) \X (Fatal \cup {"flags", "source", "output"})

-----------------------------------------------------------------------------
(* abi.go:110: a source returns "the current interface" of the contract.   *)
(* What types a call from the chain is the interface of a Wasm that the    *)
(* contract had at some moment of this very call, although the cache is    *)
(* shared, never invalidated, and outlives any number of upgrades.         *)
TypedByOwnInterface ==
    req.source = "chain" /\ typedBy # None => typedBy \in during

Over(from, to, percent) ==
    to > from /\ (from = 0 \/ 100 * (to - from) > percent * from)

OverOrAt(from, to, percent) ==
    to > from /\ (from = 0 \/ 100 * (to - from) >= percent * from)

(* What a call says of one of its runs: it is beyond, or right at, what    *)
(* the baseline allows, or far from another one.                           *)
Exceeds(c, rs, i, f) ==
    /\ c.baseline # NoBaseline /\ c.maxIncrease # Unset
    /\ Over(c.baseline.cost[f], rs[i][f], c.maxIncrease)
ExceedsOrAt(c, rs, i, f) ==
    /\ c.baseline # NoBaseline /\ c.maxIncrease # Unset
    /\ OverOrAt(c.baseline.cost[f], rs[i][f], c.maxIncrease)
Strays(c, rs, i, f) ==
    c.maxSpread # Unset /\ \E j \in DOMAIN rs : Over(rs[j][f], rs[i][f], c.maxSpread)
StraysOrAt(c, rs, i, f) ==
    c.maxSpread # Unset /\ \E j \in DOMAIN rs : OverOrAt(rs[j][f], rs[i][f], c.maxSpread)

(* The verdicts of an item fit the runs of its call.                       *)
Fits(c, item) ==
    LET rs == item.runs IN
    /\ IF item.exceeded
       THEN \E i \in DOMAIN rs, f \in Figures : ExceedsOrAt(c, rs, i, f)
       ELSE \A i \in DOMAIN rs, f \in Figures : ~Exceeds(c, rs, i, f)
    /\ IF item.noisy
       THEN \E i \in DOMAIN rs, f \in Figures : StraysOrAt(c, rs, i, f)
       ELSE \A i \in DOMAIN rs, f \in Figures : ~Strays(c, rs, i, f)

(* README.md:316-320: a check "you cannot reproduce is not a passing       *)
(* check", and a flaky estimate "cannot slip under the threshold by luck". *)
(* Said of the runs, not of the maxima and the ranges the code compares:   *)
(* a call whose report trips no gate has no run that exceeds the baseline  *)
(* by more than the one threshold, nor any other run by more than the      *)
(* other; one whose report trips a gate has one that does, or is right at  *)
(* it.  So it is of every call of a file too.  The exit code follows for a *)
(* single call only, where these quotes stand: 0 when no gate is tripped,  *)
(* and 1 for nothing but a gate.                                           *)
GatesJudgeEveryRun ==
    /\ \A k \in DOMAIN items : Fits(req.calls[k], items[k])
    /\ exit = 0 /\ req.mode = "call" => ~Tripped(items[1])
    /\ exit = 1 => req.mode = "call" /\ Tripped(items[1])

(* A report has one item for each call, in the order of the file, and an   *)
(* error in just those that met one (README.md:265-266, "a call that       *)
(* cannot run is reported and does not prevent later calls from running"). *)
(* The command could not run (exit code 2) only for such an error, for its *)
(* flags, its output or its caller: an interface source that fails is none *)
(* of them (simulate.go:424-426).                                          *)
FailuresAreOwn ==
    /\ \A i \in DOMAIN items : items[i].error <=> \E c \in Fatal : <<i, c>> \in met
    /\ pc = "deciding" => Len(items) = Len(req.calls)
    /\ exit \in {0, 1} => \A i \in DOMAIN req.calls : i \in DOMAIN items /\ ~items[i].error
    /\ exit = 2 =>
          \/ ctxDone
          \/ \E m \in met : m[2] \in Fatal \cup {"flags", "output"}

=============================================================================
