---------------------------- MODULE InspectCache ----------------------------
(***************************************************************************)
(* Prober.Inspect in front of the inspect cache                            *)
(* (internal/probe/inspect.go and inspect_cache.go).  Every caller is a    *)
(* goroutine: an API handler, a worker of a batch, or the runner of a      *)
(* check that a batch has abandoned.  get and put hold the cache's mutex   *)
(* and are atomic; the RPCs of inspectUncached run between them without    *)
(* it, so fills of one key overlap and finish in any order.  A plain batch *)
(* reads the ledger entries of all its checks at its start and looks in    *)
(* the cache only when the turn of each check comes (batch.go).            *)
(***************************************************************************)
EXTENDS Naturals, SequencesExt

CONSTANTS
    Callers,     \* goroutines that call Inspect
    Pieces,      \* texts without a NUL
    Requests,    \* InspectRequests, see RequestShape
    TTL,         \* Options.InspectCacheTTL; the cache exists only above 0
    MaxEntries,  \* newInspectCache's max
    FetchLimit,  \* a call lasts at most so long, from its first read to its
                 \* put: every RPC and every API request has a timeout
    MaxTime      \* bound of the model: the clock stops here

(* A text is kept as what stands between its NULs: one piece in nearly     *)
(* every text, more where a string key, or a contract ID that is yet to be *)
(* parsed, holds one.                                                      *)
Texts == Seq(Pieces) \ {<<>>}

Durabilities == {"", "persistent", "temporary"}

(* Durabilities are checked before (handlers.go:224-233, batch.go:449-454, *)
(* commands.go:827); extend is EstimateExtend, 0 for no estimate.          *)
RequestShape ==
    [contract : Texts, durability : Durabilities, keys : Seq(Texts), extend : Nat]

ASSUME CacheAssumption ==
    /\ TTL \in Nat \ {0}
    /\ MaxEntries \in Nat \ {0}
    /\ FetchLimit \in Nat \ {0}
    /\ MaxTime \in Nat
    /\ Requests \subseteq RequestShape

(* Slip: the durability and the data keys are left out as well.            *)
CacheKeyByContract(r) == r.contract

Durability(r) == IF r.durability = "" THEN "persistent" ELSE r.durability

(* inspectCacheKey: contract, durability and data keys, in order, joined   *)
(* with NULs.  Where a text begins is lost in the join, and the amount of  *)
(* EstimateExtend is not part of it.                                       *)
CacheKey(r) == FlattenSeq(<<r.contract, <<Durability(r)>>>> \o r.keys)

Keys == {CacheKey(r) : r \in Requests}

VARIABLES
    now,      \* the clock
    entries,  \* the cache's map: key -> [report, expires]
    pc,       \* pc[c]: "idle", "reading", "prefetched" or "filling"
    fill,     \* fill[c]: the request, the start and the report of its fill
    served    \* what the last call of Inspect to return has returned

vars == <<now, entries, pc, fill, served>>

(* A report keeps the request it was built for and the time its ledger     *)
(* entries were read: LatestLedger is the ledger of that moment.           *)
Reports == [of : Requests, read : 0 .. MaxTime]

NoRequest == [contract |-> <<>>, durability |-> "", keys |-> <<>>, extend |-> 0]
NoReport  == [of |-> NoRequest, read |-> 0]
NoFill    == [req |-> NoRequest, started |-> 0, report |-> NoReport]

Served(kind, asked, rep) == [kind |-> kind, asked |-> asked, report |-> rep, at |-> now]

Cached(k) == k \in DOMAIN entries
Live(k) == Cached(k) /\ now < entries[k].expires
-----------------------------------------------------------------------------
Init ==
    /\ now = 0
    /\ entries = [k \in {} |-> 0]
    /\ pc = [c \in Callers |-> "idle"]
    /\ fill = [c \in Callers |-> NoFill]
    /\ served = [kind |-> "none", asked |-> NoRequest, report |-> NoReport, at |-> 0]

(* Slip: an entry is served as long as it is in the map.                   *)
GetHitStale(c, r) ==
    /\ pc[c] = "idle"
    /\ Cached(CacheKey(r))
    /\ served' = Served("hit", r, entries[CacheKey(r)].report)
    /\ UNCHANGED <<now, entries, pc, fill>>

(* get: a live entry is returned at once, without an RPC.                  *)
GetHit(c, r) ==
    /\ pc[c] = "idle"
    /\ Live(CacheKey(r))
    /\ served' = Served("hit", r, entries[CacheKey(r)].report)
    /\ UNCHANGED <<now, entries, pc, fill>>

(* get: a miss starts a fill, and an entry found expired is deleted.       *)
GetMiss(c, r) ==
    /\ pc[c] = "idle"
    /\ ~Live(CacheKey(r))
    /\ entries' = Restrict(entries, DOMAIN entries \ {CacheKey(r)})
    /\ pc' = [pc EXCEPT ![c] = "reading"]
    /\ fill' = [fill EXCEPT ![c] = [req |-> r, started |-> now, report |-> NoReport]]
    /\ UNCHANGED <<now, served>>

(* checkBatchPrefetched: the entries of request r are read with those of   *)
(* the other checks, before its own call of Inspect.  A check asks for no  *)
(* estimate.                                                               *)
Prefetch(c, r) ==
    /\ pc[c] = "idle"
    /\ r.extend = 0
    /\ pc' = [pc EXCEPT ![c] = "prefetched"]
    /\ fill' = [fill EXCEPT ![c] = [req |-> r, started |-> now,
                                    report |-> [of |-> r, read |-> now]]]
    /\ UNCHANGED <<now, entries, served>>

(* get, when the turn of the check has come: a live entry is preferred to  *)
(* what was prefetched.                                                    *)
PrefetchedHit(c) ==
    /\ pc[c] = "prefetched"
    /\ Live(CacheKey(fill[c].req))
    /\ served' = Served("hit", fill[c].req, entries[CacheKey(fill[c].req)].report)
    /\ pc' = [pc EXCEPT ![c] = "idle"]
    /\ fill' = [fill EXCEPT ![c] = NoFill]
    /\ UNCHANGED <<now, entries>>

(* A miss: cachedLedgerClient answers inspectUncached from the prefetch.   *)
PrefetchedMiss(c) ==
    /\ pc[c] = "prefetched"
    /\ ~Live(CacheKey(fill[c].req))
    /\ entries' = Restrict(entries, DOMAIN entries \ {CacheKey(fill[c].req)})
    /\ pc' = [pc EXCEPT ![c] = "filling"]
    /\ UNCHANGED <<now, fill, served>>

(* inspectUncached: getLedgerEntries answers.  The report's ledger is the  *)
(* one of this moment, whatever the calls that follow take: the close      *)
(* time, the code entry and the simulated extensions.                      *)
ReadLedger(c) ==
    /\ pc[c] = "reading"
    /\ pc' = [pc EXCEPT ![c] = "filling"]
    /\ fill' = [fill EXCEPT ![c].report = [of |-> fill[c].req, read |-> now]]
    /\ UNCHANGED <<now, entries, served>>

(* Any call of inspectUncached fails: the error goes to the caller and     *)
(* nothing is stored.                                                      *)
FillFails(c) ==
    /\ pc[c] # "idle"
    /\ pc' = [pc EXCEPT ![c] = "idle"]
    /\ fill' = [fill EXCEPT ![c] = NoFill]
    /\ served' = Served("error", NoRequest, NoReport)
    /\ UNCHANGED <<now, entries>>

Expired == {k \in DOMAIN entries : ~(now < entries[k].expires)}

(* The entries nearest to their expiry; Go's map order breaks ties.        *)
Oldest(S) ==
    {k \in S : \A j \in S : entries[k].expires <= entries[j].expires}

(* Slip: the comparison is inverted, and the entry that would have lived   *)
(* longest goes, before the expired ones are looked for.                   *)
KeptSetsInverted ==
    IF Cardinality(DOMAIN entries) < MaxEntries
    THEN {DOMAIN entries}
    ELSE {DOMAIN entries \ {k} : k \in {j \in DOMAIN entries :
             \A l \in DOMAIN entries : entries[l].expires <= entries[j].expires}}

(* Slip: dropping the expired entries is thought to be enough.             *)
KeptSetsExpiredOnly ==
    IF Cardinality(DOMAIN entries) < MaxEntries
    THEN {DOMAIN entries}
    ELSE {DOMAIN entries \ Expired}

(* evictLocked: the sets of keys it may leave in a cache that is to take   *)
(* one more entry.  Below the limit it does nothing; else it drops every   *)
(* expired entry and, if that was not enough, one that expires first.      *)
KeptSets ==
    LET unexpired == DOMAIN entries \ Expired
    IN  IF Cardinality(DOMAIN entries) < MaxEntries
        THEN {DOMAIN entries}
        ELSE IF Cardinality(unexpired) < MaxEntries
        THEN {unexpired}
        ELSE {unexpired \ {k} : k \in Oldest(unexpired)}

(* The map with one more entry.                                            *)
Stored(kept, k, e) == [j \in kept \cup {k} |-> IF j = k THEN e ELSE entries[j]]

(* put, and the return of the report to the caller.  Room is made whether  *)
(* or not the key is in the map already.                                   *)
Put(c) ==
    /\ pc[c] = "filling"
    /\ \E kept \in KeptSets :
          entries' = Stored(kept, CacheKey(fill[c].req),
                            [report |-> fill[c].report, expires |-> now + TTL])
    /\ pc' = [pc EXCEPT ![c] = "idle"]
    /\ fill' = [fill EXCEPT ![c] = NoFill]
    /\ served' = Served("fresh", fill[c].req, fill[c].report)
    /\ UNCHANGED now

(* Time passes, but not past the timeouts of a fill that is under way.     *)
Tick ==
    /\ now < MaxTime
    /\ \A c \in Callers : pc[c] # "idle" => now - fill[c].started < FetchLimit
    /\ now' = now + 1
    /\ UNCHANGED <<entries, pc, fill, served>>

Next ==
    \/ \E c \in Callers, r \in Requests : GetHit(c, r) \/ GetMiss(c, r) \/ Prefetch(c, r)
    \/ \E c \in Callers : PrefetchedHit(c) \/ PrefetchedMiss(c)
    \/ \E c \in Callers : ReadLedger(c) \/ FillFails(c) \/ Put(c)
    \/ Tick

Spec == Init /\ [][Next]_vars
-----------------------------------------------------------------------------
(* Type invariant; however fills overlap, the map never holds more than    *)
(* max entries (inspect_cache.go:11-14, README.md:491).                    *)
TypeOK ==
    /\ now \in 0 .. MaxTime
    /\ DOMAIN entries \subseteq Keys
    /\ Cardinality(DOMAIN entries) <= MaxEntries
    /\ \A k \in DOMAIN entries :
          entries[k] \in [report : Reports, expires : 0 .. MaxTime + TTL]
    /\ pc \in [Callers -> {"idle", "reading", "prefetched", "filling"}]
    /\ fill \in [Callers -> [req : Requests \cup {NoRequest}, started : 0 .. MaxTime,
                             report : Reports \cup {NoReport}]]
    /\ served \in [kind : {"none", "hit", "fresh", "error"}, asked : Requests \cup {NoRequest},
                   report : Reports \cup {NoReport}, at : 0 .. MaxTime]

(* A served report was read from the ledger less than the cache's TTL and  *)
(* one call ago.  The TTL alone does not bound it: expires is counted from *)
(* the put, and the ledger was read before (inspect_cache.go:16-21, 100).  *)
ServedReportIsRecent ==
    served.kind = "hit" => served.at - served.report.read < TTL + FetchLimit

(* planInspect reads the same ledger entries for both requests.            *)
SameEntries(r, s) ==
    /\ r.contract = s.contract
    /\ Durability(r) = Durability(s)
    /\ r.keys = s.keys

HoldsNUL(r) == Len(r.contract) > 1 \/ \E i \in DOMAIN r.keys : Len(r.keys[i]) > 1

(* A call that reads the ledger gets a report of its own request, and a    *)
(* hit one of the contract, durability and ordered key set that was asked  *)
(* for, whoever filled the cache (README.md:485-486, inspect_cache.go:47). *)
(* The code keeps this promise only as long as no text holds a NUL: a hit  *)
(* for the one key str:a<NUL>sym:b may bring the report of the two keys    *)
(* str:a and sym:b, so those requests are excepted.                        *)
AnswersTheKeySet ==
    LET of == served.report.of
    IN  /\ served.kind = "fresh" => of = served.asked
        /\ served.kind = "hit" =>
              SameEntries(of, served.asked) \/ HoldsNUL(of) \/ HoldsNUL(served.asked)

(* A live entry is lost only to make room in a full cache, only when no    *)
(* expired entry is left to drop, only one at a time, and only one that no *)
(* surviving old entry would have outlived by expiring sooner, unless it   *)
(* is the key being stored (inspect_cache.go:104-129).                     *)
LiveEntryLostOnlyWhenFull ==
    [][LET lost == {k \in DOMAIN entries : Live(k) /\ k \notin DOMAIN entries'}
       IN  \A k \in lost :
              /\ Cardinality(DOMAIN entries) = MaxEntries
              /\ Expired = {}
              /\ lost = {k}
              /\ \A j \in DOMAIN entries : entries[k].expires <= entries[j].expires]_vars

(* README.md:771-773: the cache "serves a recent answer for at most the    *)
(* configured few seconds".  A report that was read early and put late is  *)
(* served when it is older, so this does not hold.                         *)
ServedWithinTTL ==
    served.kind = "hit" => served.at - served.report.read <= TTL

(* README.md:733-734 and inspect.go:33-36: a request that sets             *)
(* estimate_extend is answered with the fee of that many ledgers.  The key *)
(* of the cache omits it, so a report built for another amount, or for     *)
(* none, is served instead.                                                *)
AnswersTheEstimate ==
    served.kind \in {"hit", "fresh"} => served.report.of.extend = served.asked.extend
=============================================================================
