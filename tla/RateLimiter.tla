----------------------------- MODULE RateLimiter -----------------------------
(***************************************************************************)
(* The per-client token buckets of the HTTP API: rateLimit, takeTokens and *)
(* evictOldestClient of internal/api/api.go.                               *)
(*                                                                         *)
(* Every request is a goroutine.  It reads the clock first and takes the   *)
(* mutex afterwards, so buckets are charged with times that may go back.   *)
(* A token is Unit units, so that a rate of a fraction of a token for each *)
(* tick of the clock is a whole number; floats are exact here.             *)
(***************************************************************************)
EXTENDS Integers, FiniteSets

CONSTANTS
    Clients,         \* client addresses
    Requests,        \* requests being handled at one time
    Costs,           \* weights of requests: checks of a batch, in units
    Burst,           \* rateBurst, in units
    Rate,            \* ratePerSecond, in units for each tick
    TicksPerSecond,
    MaxClients,      \* maxRateLimitClients
    MaxTime          \* bound of the model: the clock stops here

(* config.Validate refuses a rate or a burst of zero.                      *)
ASSUME LimiterAssumption ==
    /\ Costs \subseteq Nat \ {0}
    /\ Burst \in Nat \ {0}
    /\ Rate \in Nat \ {0}
    /\ TicksPerSecond \in Nat \ {0}
    /\ MaxClients \in Nat \ {0}
    /\ MaxTime \in Nat

VARIABLES
    now,       \* the clock
    request,   \* request[q]: who asks for how much, with the time it has read
    buckets,   \* the map clients: address -> clientBucket
    past       \* history, past[c]: of the bucket c has now, when it was made
               \* and the units admitted on it; the last Retry-After, cost and
               \* end of the wait, cost 0 once c has asked again

vars == <<now, request, buckets, past>>

Idle == [client |-> "none", cost |-> 0, at |-> 0]
NoPast == [since |-> 0, spent |-> 0, cost |-> 0, ready |-> 0]

Least(a, b) == IF a <= b THEN a ELSE b
Most(a, b)  == IF a >= b THEN a ELSE b
-----------------------------------------------------------------------------
Init ==
    /\ now = 0
    /\ request = [q \in Requests |-> Idle]
    /\ buckets = [c \in {} |-> 0]
    /\ past = [c \in Clients |-> NoPast]

(* rateLimit: the weight is known and time.Now() has been called.          *)
Arrive(q, c, cost) ==
    /\ request[q] = Idle
    /\ request' = [request EXCEPT ![q] = [client |-> c, cost |-> cost, at |-> now]]
    /\ UNCHANGED <<now, buckets, past>>

(* evictOldestClient: whoever was seen least recently; ties are broken by  *)
(* the order in which the map is walked.                                   *)
Victims ==
    {c \in DOMAIN buckets : \A d \in DOMAIN buckets : buckets[c].seenAt <= buckets[d].seenAt}

(* The clients that may be left when c is to have a bucket.                *)
RoomFor(c) ==
    IF c \in DOMAIN buckets \/ Cardinality(DOMAIN buckets) < MaxClients
    THEN {DOMAIN buckets}
    ELSE {DOMAIN buckets \ {v} : v \in Victims}

BucketOf(c, at) ==
    IF c \in DOMAIN buckets
    THEN buckets[c]
    ELSE [tokens |-> Burst, capacity |-> Burst, updatedAt |-> at, seenAt |-> at]

(* Slip: what has been refilled is not cut at the capacity.                *)
RefilledUncapped(b, at) == b.tokens + (at - b.updatedAt) * Rate

(* The tokens of bucket b at time at, which may precede its last update.   *)
Refilled(b, at) == Least(b.capacity, b.tokens + (at - b.updatedAt) * Rate)

RefusedFor(deficit) ==
    (deficit + Rate * TicksPerSecond - 1) \div (Rate * TicksPerSecond)

(* Slip: the deficit is rounded down to whole seconds.                     *)
RetryAfterFloor(tokens, cost) ==
    IF tokens < cost THEN Most(1, (cost - tokens) \div (Rate * TicksPerSecond)) ELSE 0

(* The result of takeTokens in seconds, 0 to admit.                        *)
RetryAfter(tokens, cost) == IF tokens < cost THEN RefusedFor(cost - tokens) ELSE 0

(* Slip: only an admitted request moves the time of the last update.       *)
ChargedLazily(b, at, cost) ==
    LET tokens == Refilled(b, at)
    IN  [tokens    |-> IF tokens < cost THEN tokens ELSE tokens - cost,
         capacity  |-> Most(b.capacity, cost),
         updatedAt |-> IF tokens < cost THEN b.updatedAt ELSE at,
         seenAt    |-> at]

(* The bucket after a request: the capacity grows to the largest cost that *)
(* was ever asked, so that a large batch is admitted after a longer wait.  *)
Charged(b, at, cost) ==
    LET tokens == Refilled(b, at)
    IN  [tokens    |-> IF tokens < cost THEN tokens ELSE tokens - cost,
         capacity  |-> Most(b.capacity, cost),
         updatedAt |-> at,
         seenAt    |-> at]

PastOf(c, at) == IF c \in DOMAIN buckets THEN past[c] ELSE [NoPast EXCEPT !.since = at]

Remembered(p, at, cost, retry) ==
    IF retry = 0
    THEN [p EXCEPT !.spent = @ + cost, !.cost = 0, !.ready = 0]
    ELSE [p EXCEPT !.cost = cost, !.ready = at + retry * TicksPerSecond]

(* takeTokens, under the mutex, of client c with a time read earlier.      *)
Take(c, at, cost) ==
    LET b == BucketOf(c, at)
        retry == RetryAfter(Refilled(b, at), cost)
    IN  \E kept \in RoomFor(c) :
           /\ buckets' = [d \in kept \cup {c} |->
                             IF d = c THEN Charged(b, at, cost) ELSE buckets[d]]
           /\ past' = [d \in Clients |->
                          CASE d = c          -> Remembered(PastOf(c, at), at, cost, retry)
                            [] d \in kept \ {c} -> past[d]
                            [] OTHER          -> NoPast]

TakeTokens(q) ==
    /\ request[q] # Idle
    /\ Take(request[q].client, request[q].at, request[q].cost)
    /\ request' = [request EXCEPT ![q] = Idle]
    /\ UNCHANGED now

Tick ==
    /\ now < MaxTime
    /\ now' = now + 1
    /\ UNCHANGED <<request, buckets, past>>

Next ==
    \/ \E q \in Requests, c \in Clients, cost \in Costs : Arrive(q, c, cost)
    \/ \E q \in Requests : TakeTokens(q)
    \/ Tick

Spec == Init /\ [][Next]_vars
-----------------------------------------------------------------------------
(* The map of clients never outgrows its limit (api.go:263, 321-324).      *)
ClientsBounded == Cardinality(DOMAIN buckets) <= MaxClients

(* Type invariant.  A late request with an early time may leave fewer than *)
(* zero tokens.                                                            *)
TypeOK ==
    /\ now \in 0 .. MaxTime
    /\ request \in [Requests -> [client : Clients, cost : Costs, at : 0 .. MaxTime] \cup {Idle}]
    /\ DOMAIN buckets \subseteq Clients
    /\ ClientsBounded
    /\ \A c \in DOMAIN buckets :
          /\ buckets[c].tokens \in Int
          /\ buckets[c].capacity \in {Burst} \cup Costs
          /\ buckets[c].tokens <= buckets[c].capacity
          /\ buckets[c].updatedAt \in 0 .. MaxTime
          /\ buckets[c].seenAt = buckets[c].updatedAt
    /\ past \in [Clients -> [since : 0 .. MaxTime, spent : Nat, cost : Costs \cup {0}, ready : Nat]]

(* As long as a client keeps its bucket it is admitted no more than the    *)
(* burst and the refill of the time since its first request, in whatever   *)
(* order its requests reach the mutex, and although a refusal may raise    *)
(* the capacity (api.go:328-337).                                          *)
AdmissionIsBounded ==
    \A c \in DOMAIN buckets :
        past[c].spent + buckets[c].tokens <= Burst + Rate * (buckets[c].updatedAt - past[c].since)

(* "The whole-second delay needed before this request can pass": a client  *)
(* that waits for it and sends nothing else in between is admitted, also   *)
(* for a batch that costs more than the burst (api.go:314, 331-336).       *)
RetryAfterIsEnough ==
    \A c \in DOMAIN buckets :
        past[c].cost > 0 => Refilled(buckets[c], past[c].ready) >= past[c].cost
=============================================================================
