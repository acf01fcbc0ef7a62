# A verification development of soroprobe

TLA+ models of soroprobe: its batches, caches, server and limiter, the pipeline of a
check, simulations, and the command line from its settings to its exit code. They are
model-checked with TLC on small instances, and each of them has theorems that TLAPS
proves for every instance. All paths are relative to `src/`; `batch.go`
is `internal/probe/batch.go`, `api.go` and `handlers.go` are in `internal/api`, and
`inspect.go`, `inspect_cache.go`, `ready.go`, `check.go`, `ledger_time.go`, `simulate.go`,
`spread.go` are in `internal/probe`, `chain.go` in `internal/abi`, `config.go` in
`internal/config`, `encode.go` and `decode.go` in `internal/scval`, `commands.go`, `root.go`,
`report.go` and `main.go` in `cmd/soroprobe`.

## 1. The system

soroprobe asks a Stellar RPC endpoint whether a Soroban contract is alive. It is
a library (`internal/probe`), a command line (`cmd/soroprobe`) and an HTTP API
(`internal/api`) over the same `Prober`. Nothing is persisted and nothing is ever
submitted: all state is in memory, and what is hard is concurrency, partial
failure and time.

| component | source | state | operations | hard behaviour |
|---|---|---|---|---|
| concurrent batch | `batch.go:88-158, 365-425` | jobs channel, report slots, one context and one buffered channel for each check | take a job, launch a check, wait, settle, aggregate | deadlines racing answers, runners that hang, cancellation at any moment |
| prefetched batch | `batch.go:160-363` | keys to read, what was read at which ledger, errors by key | two rounds of chunked reads, then one check after the other | one chunk of many fails; two readers of keys must agree |
| inspect cache | `inspect_cache.go`, `inspect.go:113-135` | map of at most 256 reports with their expiry | get, put, evict | no single flight: fills overlap and finish in any order |
| readiness | `ready.go`, `handlers.go:29-79` | last verdict and its time | two RPCs, store, serve | results stored out of order; the client hangs up; endpoint changes between the calls |
| rate limiter | `api.go:263-350` | token bucket for each address, at most 10 000 | charge, evict | clock read before the mutex; batches that cost more than the burst |
| inspect pipeline | `inspect.go:137-482` | none | plan, read, judge, price extensions | two rounds, uint32 ledger arithmetic |
| check | `check.go` | none | inspect, simulate, ordered steps, verdict | the stop at an undeployed contract, warnings that are not failures |
| ledger close time | `ledger_time.go` | last measurement | measure, fall back | concurrent measurements, errors under a context that is done |
| simulation, cost, spread | `simulate.go`, `spread.go` | none | simulate, compare, maximum of runs | thresholds at boundaries |
| TTL assessment | `internal/health` | none | classify, worst of | boundaries, overrides that fall back half by half |
| interface sources | `internal/abi` | `ChainSource`'s map of interfaces by Wasm hash | look up, fetch, store | shared by all calls, never invalidated; upgrades between two reads |
| codecs | `internal/scval` | none | encode, decode | integers in words of two's complement, lossy maps |
| configuration | `internal/config`, `root.go:86-190` | none after start | layers, validation | precedence with zero values; layers that are valid alone and not together |
| server | `api.go:94-261` | listener, requests in flight | listen, select, drain | shutdown racing a listener error, handlers that are stuck |
| command line | `cmd/soroprobe` | report file, client, deferred calls | resolve, read, run, write, print, exit code | what fails after the verdict is known; a file that is read after it was truncated |

How they interact. The CLI and the API call `Prober.Inspect`, `Check`,
`CheckBatch`, `Simulate` and `Ready`. `CheckBatch` chooses the concurrent or the
prefetched strategy; both run `Check`, which runs `Inspect` through the cache and
then `Simulate`. Every RPC goes through `stellar.Client`. Handlers, the workers
of a batch and the runners it abandons share one `Prober` and so one inspect
cache and one close-time cache; handlers also share the readiness cache and the
limiter. Each of these has a mutex of its own that is **never held across an
RPC**: a look-up and the store that follows are two atomic steps with arbitrary
interleaving between them, and that is what the models explore.

What makes each component correct:

* a batch: every check gets exactly one verdict, of its own; a report has all of
  them; a Go error is returned only under a context that is done; a hung request
  costs its own time limit and no more; one failure reaches only the checks that
  need what failed;
* the cache: bounded; it answers the question that was asked, with a report that
  is recent; live entries are dropped only for room;
* readiness: an answer has evidence, from one probe, and neither an outage nor a
  recovery is hidden for good;
* the limiter: bounded memory; no client gets more than burst and refill; the
  promised wait is long enough;
* an inspection or a check: its exit code and its status say what the entries were
  at the ledgers they were read at, and what the call returned;
* a simulation: it is typed by an interface the contract had during the call; the
  gates on cost mean what they say of every run; failures are reported where they
  happened;
* the server: it stops when it is told to, says how it ended, and does not cut off what it
  let in while there is time;
* the configuration: the highest layer that gives a setting decides, and what is in effect is
  valid as a whole;
* a command: its exit code is the verdict, and nothing that goes wrong later hides it; it ends;
* the codecs: an amount is the one that was written, in every width.

## 2. Modules

| module | models | composes |
|---|---|---|
| `BatchContract` | what `CheckBatch` promises (`batch.go:41-86`), whichever strategy runs | |
| `BatchWorkers` | `checkBatchConcurrent`, `withCheckTimeout`, `runBounded` | implements `BatchContract` |
| `BatchWorkersProofs` | theorems about `BatchWorkers` | |
| `BatchPrefetch` | `checkBatchPrefetched`, `fetchBatchEntries`, `cachedLedgerClient` | implements `BatchContract` |
| `BatchPrefetchProofs` | theorems about `BatchPrefetch` | |
| `InspectCache` | `Inspect`, `get`, `put`, `evictLocked`, and the look-ups of a prefetched batch | |
| `InspectCacheProofs` | theorems about `InspectCache` | |
| `Readiness` | `Ready`, `handleReadiness`, `cachedReadiness` | |
| `Server` | `ListenAndServe`, `Serve` and `Shutdown` around the handlers of `Readiness` | extends `Readiness` |
| `ServerProofs` | theorems about `Server` | |
| `RateLimiter` | `rateLimit`, `takeTokens`, `evictOldestClient` | |
| `RateLimiterProofs` | theorems about `RateLimiter` | |
| `Health` | `internal/health`: thresholds, the class of an entry, the worst of several | pure operators |
| `CheckPipeline` | `inspectUncached`, `ledgerCloseTime`, `estimateExtends`, `Check` and its steps, and the exit codes of `inspect` and `check` | extends `Health` |
| `CheckPipelineProofs` | theorems about `CheckPipeline` | |
| `Simulation` | `simulate` and `simulate --file`: `Simulate`, `SimulateBatch`, `typeArgs`, `CompareCost`, `SpreadCost`, `ChainSource.Interface` | |
| `SimulationProofs` | theorems about `Simulation` | |
| `Config` | `Default`'s layers, `applyValues`, `applyEnv`, `options.resolve`, `Validate` | extends `Health`, pure operators |
| `ScVal` | `Registry.Encode` and `Decode`: integers, scales, words, collections | pure operators |
| `CommandLine` | every command from its arguments to its exit code | extends `Config` and `ScVal` |
| `CommandLineProofs` | theorems about `CommandLine` | |
| `MC*` | constants for TLC that are not model values | |

Definitions marked *Slip* are plausible mistakes in the definition that follows
them. No specification uses them; they are there to show that each property
would notice.

### BatchWorkers

One variable for each piece of shared or goroutine-local state: `next` is the
prefilled, closed `jobs` channel; `pc`, `cur`, `got` are a worker's control state
and locals; `checkCtx`, `runner` and `done` are a check's context, its goroutine and
its one-slot channel; `items` is the report. Each Go statement that synchronises is
an action. The two nested `select`s are `TakeOutcome`, `SeeContext` and `Repoll`;
`Leave` is any of the three returns before a check starts. A check is abstracted to
what `Check` can return: pass, fail, or an error that is a cancellation, a deadline
or neither. A deadline error may be the transport's own, of the HTTP client or of
`RPCClient.withTimeout`, and is then not the check's `Timeout` (`RequestErrors`).
An empty slot met by the aggregation would be a nil dereference: `"panic"`.

### BatchPrefetch

`Plan` gives every check its keys, the instance key first, or none if `planInspect`
fails; a ledger key holds its contract, so plans that share one begin with the same instance key
(`PrefetchAssumption`). `phase` says which of the loops and rounds runs; `check` and `nth` are the
loops' indices, and an action is one iteration. `todo` is `initialKeys` and then `codeKeys`, with the
chunks that were asked for taken off. The maps of the two rounds are one from the start: their keys are
disjoint. A chunk is answered at any ledger not before the last one, with any contents,
or fails. The cache is not in front of `Check` here: that composition is in
`InspectCache`. `Lookup` is the cached client, first error first, the ledger of the
first key.

### InspectCache

`GetHit`, `GetMiss`, `ReadLedger`, `Put` are the steps of a call of `Inspect`, the mutex
held for each and for none together. `CacheKey` joins the texts of a request as the code does: a text
is the sequence of what stands between its NULs, so that texts that hold one may share a key with
others, and `AnswersTheKeySet` says what a hit is worth for all the others. `Prefetch` and its two continuations are a check
of a plain batch, whose ledger entries are read long before its own look-up. Time
is a counter; a call lasts at most `FetchLimit`. `KeptSets` is `evictLocked`: the sets of
keys it may leave, with Go's map order as nondeterminism.

### Readiness

The endpoint changes at will, also between the two RPCs. The age of the stored
result is abstracted to a flag that becomes false at some time after the store.
`met` and `basis` record what the probe behind a stored result actually met.

### Server

`Serve`'s goroutine that accepts is `AcceptFails` and `AcceptEnds`; its channel of one slot is
`errCh`; the `select` is `SeeListenerEnd` and `BeginShutdown`, either of which may be taken
when both are ready. `Drained` and `DrainTimesOut` are the two ends of `Shutdown`. The
handlers are those of `Readiness`, which is composed by extension: `HandleRequest` lets a new
request in only before the shutdown has begun. Requests have contexts of their own, so
`Cancel` stops none of them, and as there is no write timeout a handler may be stuck for ever.

### RateLimiter

A request reads the clock (`Arrive`) and charges its bucket later (`TakeTokens`), so
clocks go back at the mutex. Amounts are whole units, a fraction of a token each,
so that refill needs no rounding; the rounding of the delay to seconds is
modelled. `past` is history: what was admitted on the bucket, and the last promise.

### CheckPipeline and Health

One inspection or check from the request to the exit code; an action is one RPC, or
the computation between two. `resp` and `codeResp` are the answers of the two rounds,
each with a ledger of its own and any contents; `report` is the `InspectResult`, `measured`
the close-time cache of the `Prober`. An entry is gone, without a TTL, or alive until a ledger.
`Outcomes` is what each step of `checkSteps` contributes and `StepsRun` the stop without an
instance. `Decide` writes the report and then gives the verdict, as the command does:
`errors.As` finds a failed check also when closing the report file fails too. `failed` is
history. The properties compare the end of the pipeline with the two answers (`EntriesAlive`,
`CallAsExpected`), stated without any of the operators the pipeline uses.

### Simulation

The command from its flags to its exit code, for one call or for a file. `req.source` is the
interface source: none, a registry, or the chain. With the chain, `wasm` is the contract, which
may be upgraded at any step, and `cache` is shared: `OtherCallStores` is another call of the same
process. A call has its own baseline, thresholds and number of runs: those of the flags for a single call,
those of its entry for a call of a file, where the thresholds are not validated. `runs` are the costs of the call's
runs, kept with its item when it is done; a cost has a value for each figure. The verdicts of a single call
decide the exit code, those of a file's calls are in its report only. `Above` is the
comparison in floating point: it is exact away from the threshold and free right at it, because
there the code's rounding decides (a growth of exactly 7 % of 100 computes as
7.000000000000001 and is above 7). Whether the contract rejects the call is not in the
model: nothing in this code asks, and a rejected call exits 0 as `README.md:261` says.

### Config, ScVal and CommandLine

A `Config` has scalars and threshold overrides; a layer is a partial function from the names of
the settings, so that a zero and an absent value differ as they do with the code's pointers, and
a variable that is set to nothing is absent as `lookup` has it (`Present`). `Domain` keeps of each
type what `Validate` and the layers tell apart. `Override` is one assignment of a layer,
`ApplyValues`, `ApplyEnv`, `ApplyFlags` and `ApplyServeFlags` are the layers.

`ScVal` has integers as the words the XDR types keep them in, with the width of a word as a
constant; a literal is its sign, its digits and its decimal count. `WordsOf` is
`twosComplementWords`, `NumberOf` is `wordsToBigInt`, `DecodePairs` is `decodeMap`. Digits and words are
both read by `Positional`, one after the other, as the loop of `wordsToBigInt` does.

`todo` is the rest of a `RunE`: the steps of a command in the order it takes them
(`Work`, `Resolve`), an action for each. A failing step empties it, and what was deferred
(the client's and the report's `Close`) follows, then `main`'s choice of the exit code. The probe is one step with the
outcomes the other modules give it. A path holds what its reader makes of it: the report may
overwrite the file of the baseline, of the batch or of the keys, and a config file may vanish
between `Stat` and `ReadFile`. `sent` and `returned` are the value an argument became and a
value the contract returned.

## 3. Runs

| run | instance | states | shows |
|---|---|---|---|
| `batch_workers` | 3 checks, 2 workers, 2 with a time limit, runners may hang | 1.0 M | type, completeness of the report, blame, answers in time, contract; a limited check frees its worker, cancellation ends the batch, the batch returns |
| `batch_workers_bound` | as the first | | **violated**: an abandoned check runs beside N others |
| `batch_prefetch` | 3 checks of which one cannot be planned, shared keys, chunks of 2 | 74 k | keys agree, failures are contained, ledger is honest, contract, it returns |
| `inspect_cache` | 2 callers, 4 requests with 3 keys, 2 entries, TTL 2, call limit 2, 4 ticks | 3.4 M | type and bound, recency, what a hit answers for, eviction |
| `inspect_cache_estimate` | 2 callers, requests that differ in `estimate_extend` | | **violated**: the key omits it |
| `inspect_cache_age` | as `inspect_cache`, 3 ticks | | **violated**: age counts from the store, not from the read |
| `server` | 2 handlers, a server that starts, serves and stops | 0.7 M | evidence of an answer, what `Serve` returns, that it returns, that readiness follows the endpoint |
| `readiness_hangup` | 2 handlers, no server around them | | **violated**: a client that hangs up before its probe sends getHealth is cached as an endpoint that cannot be reached |
| `rate_limiter` | 3 clients, 2 requests, 2 buckets, costs below and above the burst | 2.7 M | type and bound, admission, promise |
| `check_pipeline` | 2 ledgers, entries until 0..4, up to 2 data keys, overrides of code and data | 1.9 M | exit codes 0, 1, 2, status against verdict, estimates |
| `simulation` | up to 3 runs, 2 figures 0..2, thresholds 0 and 100 %, files of 2 calls with and without gates, 2 Wasms | 1.7 M | typing under upgrades, gates, failures |
| `command_line` | five commands with their files and errors; a few under all combinations of layers; arguments around the limits of ten integer types | 0.5 M | precedence, validity as a whole, exit codes, amounts and maps, that a command ends |

The four violated runs each check one sentence of the README or of a comment that
the code does not keep; `PROJECT.json` quotes them under `findings`.

Why these bounds are enough. Two workers and three checks are the least with a
worker that takes a second job while the other is busy, and with a check left over
when both are abandoned. Chunks of two with shared keys give a full chunk, a
short one and a key needed by two checks. Three keys for two cache entries make
every put of the third evict, and four ticks with a window of two let an entry
expire, be replaced and expire again; two callers are the least that overlap. The requests differ in the order of
their keys, in durability and in how it is spelled, and two share a key by way of a NUL. Two
handlers are the least that store out of order, and that are in flight on both sides of
a shutdown. Three clients for two buckets evict; a
cost above the burst is needed for the capacity to grow; two requests at a time
are the least that reach the mutex out of order. `MaxTime` and `MaxLedger` bound the
clock and the ledger. Entries that live until
0..4, read at ledgers 1 and 2 under critical thresholds 0 and 1 and warning thresholds 1 and 2, are
expired, on each boundary and beyond it at either ledger, and an override of one half of a
threshold falls back for the other. Two data keys are read through one answer and matched by
position; a `MaxUint` of 7 lets the extension target wrap. Three runs are the least in which the
maximum is neither the first nor the last; figures 0, 1, 2 with 0 % and 100 % reach growth from
zero, growth right at the threshold and above it; with two figures the maxima come from
different runs. Two Wasms with different functions are what an upgrade needs to show.

In `command_line`, thresholds of 1 to 3 ledgers and critical ones of 0 to 3 give every order of a
warning and a critical value in four layers; a token has at least two characters, so that one
of length 1 is short. Words of 4 bits keep the arithmetic small and have every boundary of a word
of 64: types of half a word, one, two and four words, literals of up to four digits in base 3 with
scales up to 3 around the limits of the narrower types, and negative ones in all of them. Within each of the
parts of the instance (files and errors, layers, the search for a file, arguments and answers)
everything is combined; between them one varies at a time, since no step of the code
looks at two of them. `CommandLine` has no type invariant of its own among the checks: what its
variables may hold is part of the proved invariants.

Callers and clients are
interchangeable and symmetry is used only in runs without liveness.

`CHECK_DEADLOCK FALSE` is set where the system ends: a batch that has returned, a
command that has exited, a server that has returned, and a limiter whose clock has reached
its bound.

## 4. Fairness

* `BatchWorkers!HungSpec`: weak fairness of every worker, every deadline timer and of
  the caller: the Go scheduler runs what can run, and timers fire. **Nothing** is
  assumed of runners, which may hang for ever; nor of the caller, who need not
  cancel. `BatchReturns` has "no runner runs for ever" as its hypothesis: that is what
  the HTTP client's own timeout gives (`stellar/client.go:77-80`, `timeout_test.go`).
* `BatchPrefetch!Spec`: weak fairness of the one goroutine. Its RPCs are part of its steps
  and end by an answer, an error or the transport's timeout.
* `Server!ServerSpec`: weak fairness of `Serve`'s own steps, of the goroutine that accepts once
  the listener is closed (`AcceptEnds`), of a `Shutdown` that finds nothing in flight or whose ten seconds are
  over, and of the age of a readiness result: goroutines run, timers fire, time passes. Nothing
  is assumed of handlers, for there is no write timeout: `ReadinessFollowsEndpoint` has their
  fairness as its hypothesis, and `StopsOnceCancelled` holds without it. The endpoint and the clients that hang up
  are not fair: they may change or never change.
* `CommandLine!Fairness`: weak fairness of the steps of a command, of its probe, which for `serve` ends only
  when the command is interrupted (the RPC client's timeout and the server's own shutdown,
  above), of its end, and of the timer by which the command gives up on a client that will not close
  (`root.go:242-247`).

`InspectCache`, `RateLimiter`, `CheckPipeline` and `Simulation` state safety only.

## 5. Proofs

`BatchWorkersProofs`, for every number of checks, every concurrency including 0 and
every set of limited checks (`BatchAssumption`):

* `PoolTypeCorrect`, `PoolReportComplete`. Completeness is not inductive. The invariant
  adds where each check that has left the channel is: in its slot, in the hands of
  exactly one worker, or lost because the context is done (`ReceivedIsAccounted`), which
  needs that holders differ (`HoldersDiffer`), that a held slot is blank (`HeldIsReceived`),
  that what is still queued is blank (`QueuedIsBlank`), and that a worker leaves only when
  the channel is drained or the context is done (`ExitIsJustified`). At the end nobody
  holds a check, so with the context live every slot is filled.
* `PoolAnswerInTimeWins`, `PoolBlameIsOwn`: why an error says what it says. A second invariant follows
  the blame from where it arises to the slot: a check that has not been launched has no
  context and no answer yet (`LaunchIsFirst`), a waiting worker has the context its check deserves
  (`ContextIsOwn`), an answer in the channel is of a runner that has ended (`RunnerAnswers`), an answer in time
  is still there when the worker polls again (`AnswerWaits`), and an error has its cause in
  the worker's hands (`ErrorHasCause`) and in the slot (`SlotHasCause`).
* `PoolImplementsContract`: initial states map to initial states, and every step maps
  to a step of `BatchContract` or to a stutter, under the mapping that reads a verdict
  off a slot. `Settle` is `Decide` for a worker's own check: the slot was blank by the
  invariant. `Finish` is one of the two returns.

`BatchPrefetchProofs`, for every plan, any chunks and whatever fails:

* `PrefetchImplementsContract`: the second strategy implements the same contract. The mapping reads
  the verdicts off the items, which are appended in the order of the checks (`ItemsInOrder`); the two
  flags are those of the items so far (`FlagsKeepUp`), and nothing runs after a return (`LoopAgrees`).
* `PrefetchReadsAll`, `PrefetchFailureIsContained`, `PrefetchLedgerIsHonest` from one invariant about the
  rounds. A key of a check that the first loop has passed is to be asked for, read or failed, and the last two
  once its round is over (`PlannedAreRead`); a code key a state names likewise (`CodesAreRead`); what a state says
  is what the answers say of its plan (`StatesFollow`). So whatever `Inspect` asks for has been read.
  For the ledger, ledgers never go back and an instance key stands before the other keys of its plans in `todo`
  (`InstanceFirst`), so that it is never read later than they are (`LedgersFollow`). The items are about
  states and maps that no longer change, which `ItemsFollow` uses.

`InspectCacheProofs`, for any callers, requests, lifetime and size (`CacheAssumption`):

* `CacheTypeCorrect`, `CacheServesRecent`, `CacheAnswersTheKeySet` from one invariant: a call
  that is under way has read for its own request and no earlier than it began, which is at most `FetchLimit` ago
  (`FillIsOwn`), and an entry is for its key and expires at most a lifetime and a call after
  its read (`EntryIsOwn`). The bound needs the size of the map before and after an eviction. What a hit answers for
  is `KeyDetermines`: texts without a NUL are single pieces, the join of single pieces is the sequence of them
  (`JoinOfPlainTexts`, by well-foundedness over the steps of the join), and so has the length of the
  request and gives back each of its texts.
* `CacheKeepsLiveEntries`, the action property about eviction, from the same invariant.

`ServerProofs`, for any set of handlers:

* `ServerTypeCorrect`, `ServerAnswerHasEvidence`: a verdict has its evidence in the handler from the step
  that reached it and in the cache from the store on (`EvidenceIsKept`).
* `ServerReturnIsHonest`, from what each phase of `Serve` knows of its context, its listener and
  the channel (`PhasesAgree`).

`RateLimiterProofs`, for all clients, requests, costs, bursts, rates and limits
(`LimiterAssumption`, what `config.Validate` enforces):

* `LimiterTypeCorrect`, `LimiterClientsBounded`, `LimiterAdmissionBounded`,
  `LimiterRetryAfterSuffices` from one invariant, the conjunction of the four with the
  finiteness of the map. `ChargeAccounts` is the heart: a charge keeps "admitted and
  left" within "burst and refill" although time may go back, and the delay of a refusal
  refills what was missing (`RefillCoversDeficit`, the property of the ceiling).
  `RoomSuffices` counts the map before and after eviction.

`CheckPipelineProofs`, for every set of requests, all thresholds and overrides and any
contents of the ledger (`PipelineAssumption`):

* `PipelinePassMeansAlive`, `PipelineFailHasReason`, `PipelineRuntimeErrorHasCause`,
  `PipelineStatusBacksVerdict`: the exit codes and the status, one theorem for each property. None is inductive: they
  speak of the end only. The invariant carries what each step has found: the report says of
  each entry what its answer said, judged at the ledger of that answer, from the step that
  judged it on (`ReportFaithful`, which also says when there is a code report); a check that is
  deployed and names a function has made its call before the verdict (`CallMade`, why the step
  that would abort never does); before the end nothing has failed but the advisory close time
  (`OnlyTimeFailed`); and the answers are typed (`AnswersTyped`). `AliveOutcome` shows that the
  step of an entry fails just when the entry is not alive, `WorstIsWorst` that the status is the
  worst of them, and `VerdictMeans` puts both together.
* `PipelineTypeCorrect`: the type invariant, inductive by itself.
* `PipelineEstimatesMatchEntries`: while estimates are added, those so far are of the first targets
  (`EstimatesFollow`), so that at the end there is one for each; `TargetsAreAnswers` shows that the
  targets, found by position, are the answers in their order, with a code entry between them or
  without, and `ExtendsTheAlive` that an entry can be extended just when it was alive.

`SimulationProofs`, for every set of commands, Wasms and interfaces (`SimulationAssumption`):

* `SimulationTypedByOwn`: the cache maps each hash to the interface of that very Wasm
  (`CacheIsByHash`, by whoever it was stored), and what a call has read in the instance entry the
  contract was at some time since the call began (`ReadDuring`, `NowDuring`).
* `SimulationTypeCorrect`: with the type goes how far the calls have come (`Progress`).
* `SimulationFailuresAreOwn`: what was met belongs to a call that is done, and its item says so
  (`MetIsOwn`).
* `SimulationGatesJudgeEveryRun`: the item of a call says of its runs what the gates should
  (`JudgedRight`), whether of a single call or of a file. The heart is `GrowthIsMonotone`: a growth from the least to the greatest figure bounds
  every growth between two runs (`AboveIsOver`, `ExceededIsRight`, `NoisyIsRight`). That a finite number of runs
  has a least and a greatest figure comes from the well-foundedness of the naturals.

`CommandLineProofs`, for every set of scenarios and whatever fails (`ScenarioAssumption`, what a
command line can say):

* The steps that are left are in the order of the command and a suffix of its plan (`Ordered`, with `Rank` as
  the place of a step). It makes "this step has been passed" a fact that the other invariants can
  speak of, for all commands at once.
* `CommandExitTellsVerdict`: what is known once a step has been passed and nothing has failed, of the report
  (`ReportFollows`), the probe (`OutcomeFollows`), and the outputs and inputs (`DeliveryFollows`); what an error says
  (`VerdictFollows`, the heart: a failed verdict is kept only if it was delivered, and no other error
  hides a delivered one); and that the exit code is that of the error (`ExitFollows`).
* `CommandSettledByHighestLayer`, `CommandSettingsUsable`: after each layer the settings are those of the layers so far
  (`SettledFollows`); what `Validate` has found stays true of what serve adds (`UsableFollows`); a client is
  opened only after all of them (`ClientFollows`).

* `CommandManglesNothing`: the argument was encoded from what the scenario says, and what is shown decoded from
  what came back (`CodecIInv`, inductive by itself). The rest is arithmetic. `Recursion` gives a
  recursive definition its function, by approximations to it, so that powers and numerals obey their
  equations (`PowRecursion`, `PositionalRecursion`, and `PositionalIs`: whatever accumulates like a numeral is its
  value); `Induction` is over a set of naturals, since the
  library's takes a predicate. `PositionalPads` is the scaling of an amount (`LiteralsExact`);
  `WordsKeepNumbers`, a theorem of its own, is that the words of a number in range are read as that number:
  the prefix of the words that has been read is a quotient of the number (`WordsRead`), a step from one quotient to the next is
  `QuotientOfQuotient`, and the sign bit says that the number is negative (`QuotientReaches`). `EncodeIs` shows that
  only an integer literal becomes an integer. For the entries, `PairsAreKept`: of the entries with one key the last
  is in the object.

Only model-checked: all liveness properties, since fairness and ENABLED are out of the prover's reach. Every
invariant, and every action property and refinement of a passing run, has a theorem.

## 6. What the models leave out

* Real numbers: the limiter's floats are exact. A float error of the order of 1e-16
  tokens is not a behaviour that the properties tell apart.
* Copies: `cloneInspectResult` copies reports in and out of the cache; reports are values
  here and cannot be aliased.
* Wording of errors, except the one that decides who is blamed for a time-out.
* `BatchPrefetch` takes ledgers to be monotonic: one endpoint. `FetchLimit` stands for the
  timeouts of the RPC client and of `middleware.Timeout`.
* `CheckPipeline` runs one inspection: that two of them measure the close time at once, and the
  older measurement wins, is not in it. A price is there or not; fees and times left are numbers
  no verdict reads. A request that asks for a check has no estimate, as the command line has it.
* `Simulation` leaves out the list of footprint changes, the decoding of events and
  authorizations, the minimum and the total fee, and the text of the notes.
* `BatchContract` allows a report under a cancelled context: a plain batch cancelled during
  its last check records the cancellation as that check's error and returns the report
  (`batch.go:290-303`).

* `ScVal` leaves out bytes and hex, quoting, contract instances and error values, the limit on
  nesting, leading zeros and doubled signs of literals, and collections within collections.
* `Config` leaves out five settings that take the path of the RPC URL (`Config.tla` names them).
* `Server`: the requests in flight are readiness probes; routing, the token check, headers, and which error becomes
  which status (`statusForError` looks for parts of its text) are not modelled. The orders in which
  the limiter may evict are in the model, and no run checks that the oldest client goes.
* `CommandLine` takes the probes as their outcomes, and paths as what their readers make of them.

Not modelled at all: rendering (`output.go`, `annotations.go`), `gen-man`, the test doubles,
the repository's automation, and XDR, HTTP and JSON, which are libraries.

Seen while modelling, without a run of their own:

* The inspect cache joins contract, durability and keys with NULs (`inspect_cache.go:60-63`), and a string key may
  hold one (`encode.go:192-195`; JSON and URLs can write it): the one key `str:a<NUL>sym:b` has the cache key of
  `str:a` and `sym:b`, so that either may be answered with the report of the other, although
  `inspect_cache.go:47` and `README.md:485-486` speak of the exact key set. `AnswersTheKeySet` excepts texts
  with a NUL; without the exception TLC finds the hit at once. A hit also comes before `planInspect`
  looks at the request.
* A call of `simulate --file` may have `baseline`, `max_increase_percent`, `repeat` and `max_spread_percent`, since
  `NamedSimulation` embeds `SimulateRequest`; `README.md:264-267` and the command's help list four other
  fields only. Its gates are judged, and their verdicts stand in the JSON
  results, but `runSimulateFile` reads none (`commands.go:696-701`): the file exits 0 though a gate has tripped.
* `commands.go:174-175` says of a noisy estimate that "its own exit keeps it apart from a check failure", while it
  exits 1 like one; `SpreadReport.Max` is "the maximum seen for every figure" (`spread.go:31-34`) but keeps the
  `EstimatedTotalFee` of the first run; `NaN` parses as a percentage (`commands.go:229`) and is a threshold
  nothing exceeds.
* `decode.go:156-158` says that maps with keys other than strings are not silently mangled; keys that are decoded to
  strings are taken for such, and of two that read alike (`u64:5` and `i128:5`) one entry is lost. `EntriesAreKept`
  excepts them.
* `--report` over the file of `--key-file` truncates it, and an empty key file has no keys: the command goes on
  without them.
* serve's `--inspect-cache-ttl` is applied after `Validate` and may be negative, which turns the cache off like
  zero. `HTTP_TLS_CERT` in the environment with `--tls-key` as a flag is refused by `Validate`, before serve's
  flags complete the pair.
* The `thresholds` of a profile replace those of the file as a whole, while variables and flags replace them half by half.
* A listener that fails when the context is already done makes `Serve` return nil without draining, although
  `api.go:217` has it shut down gracefully.

## 7. What is left

Close time measured by concurrent inspections, composed into `InspectCache`, whose callers are the ones
that measure; which status a handler gives an error; the ULEB128 reader and the typing of nested arguments.
