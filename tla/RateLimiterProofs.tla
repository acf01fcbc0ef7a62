-------------------------- MODULE RateLimiterProofs --------------------------
(***************************************************************************)
(* Proofs about the token buckets of RateLimiter, for every set of clients *)
(* and of requests, every burst and rate, and every bound of the map.      *)
(***************************************************************************)
EXTENDS RateLimiter, FiniteSetTheorems, TLAPS

(* The map is finite, so that its size is a number.                        *)
FiniteMap == IsFiniteSet(DOMAIN buckets)

IInv ==
    /\ TypeOK
    /\ FiniteMap
    /\ ClientsBounded
    /\ AdmissionIsBounded
    /\ RetryAfterIsEnough
-----------------------------------------------------------------------------
(* math.Ceil: the refill of a Retry-After is not less than what is missing.*)
LEMMA RefillCoversDeficit ==
  ASSUME NEW d \in Nat \ {0}
  PROVE  /\ RefusedFor(d) \in Nat
         /\ RefusedFor(d) * TicksPerSecond \in Nat
         /\ (RefusedFor(d) * TicksPerSecond) * Rate >= d
<1> DEFINE r == Rate * TicksPerSecond
<1>1. r \in Nat \ {0}
  BY LimiterAssumption
<1> HIDE DEF r
<1>2. /\ (d + r - 1) \div r \in Nat
      /\ r * ((d + r - 1) \div r) >= d
  BY <1>1
<1>3. RefusedFor(d) = (d + r - 1) \div r
  BY DEF RefusedFor, r
<1> DEFINE n == RefusedFor(d)
<1>4. n \in Nat /\ r * n >= d
  BY <1>2, <1>3
<1> HIDE DEF n
<1>5. n * TicksPerSecond \in Nat /\ (n * TicksPerSecond) * Rate = r * n
  BY <1>4, LimiterAssumption DEF r
<1> QED  BY <1>4, <1>5 DEF n

(* The bucket a request is charged to, its own or a new one, is well       *)
(* formed and within what the client may have been admitted.               *)
LEMMA BucketOfTyped ==
  ASSUME IInv, NEW c \in Clients, NEW at \in 0 .. MaxTime
  PROVE  /\ BucketOf(c, at).tokens \in Int
         /\ BucketOf(c, at).capacity \in {Burst} \cup Costs
         /\ BucketOf(c, at).tokens <= BucketOf(c, at).capacity
         /\ BucketOf(c, at).updatedAt \in 0 .. MaxTime
         /\ PastOf(c, at) \in [since : 0 .. MaxTime, spent : Nat, cost : Costs \cup {0}, ready : Nat]
         /\ PastOf(c, at).spent + BucketOf(c, at).tokens
              <= Burst + Rate * (BucketOf(c, at).updatedAt - PastOf(c, at).since)
<1> USE LimiterAssumption
<1>1. CASE c \in DOMAIN buckets
  BY <1>1 DEF IInv, TypeOK, AdmissionIsBounded, BucketOf, PastOf
<1>2. CASE c \notin DOMAIN buckets
  <2>1. /\ BucketOf(c, at) = [tokens |-> Burst, capacity |-> Burst, updatedAt |-> at, seenAt |-> at]
        /\ PastOf(c, at) = [since |-> at, spent |-> 0, cost |-> 0, ready |-> 0]
    BY <1>2 DEF BucketOf, PastOf, NoPast
  <2> QED  BY <2>1
<1> QED  BY <1>1, <1>2

(* The charge keeps a bucket well formed, whether it admits or refuses,    *)
(* and accounts for every unit: what was admitted and what is left never   *)
(* exceed the burst and the refill since the bucket was made.              *)
LEMMA ChargeAccounts ==
  ASSUME IInv, NEW c \in Clients, NEW at \in 0 .. MaxTime, NEW cost \in Costs,
         NEW b, b = BucketOf(c, at),
         NEW p, p = PastOf(c, at),
         NEW retry, retry = RetryAfter(Refilled(b, at), cost),
         NEW q, q = Remembered(p, at, cost, retry)
  PROVE  /\ Charged(b, at, cost).tokens \in Int
         /\ Charged(b, at, cost).capacity \in {Burst} \cup Costs
         /\ Charged(b, at, cost).tokens <= Charged(b, at, cost).capacity
         /\ Charged(b, at, cost).updatedAt = at
         /\ Charged(b, at, cost).seenAt = at
         /\ q \in [since : 0 .. MaxTime, spent : Nat, cost : Costs \cup {0}, ready : Nat]
         /\ q.spent + Charged(b, at, cost).tokens <= Burst + Rate * (at - q.since)
         /\ q.cost > 0 => Refilled(Charged(b, at, cost), q.ready) >= q.cost
<1> USE LimiterAssumption
<1> DEFINE t == Refilled(b, at)
<1>1. /\ b.tokens \in Int /\ b.capacity \in {Burst} \cup Costs
      /\ b.capacity \in Nat /\ b.updatedAt \in 0 .. MaxTime
      /\ p \in [since : 0 .. MaxTime, spent : Nat, cost : Costs \cup {0}, ready : Nat]
      /\ p.spent + b.tokens <= Burst + Rate * (b.updatedAt - p.since)
  BY BucketOfTyped
<1>2. t \in Int /\ t <= b.capacity /\ t <= b.tokens + (at - b.updatedAt) * Rate
  BY <1>1 DEF Refilled, Least
<1>3. p.spent + t <= Burst + Rate * (at - p.since)
  <2>1. /\ p.spent \in Int /\ p.since \in Int /\ b.updatedAt \in Int /\ at \in Int
        /\ Rate \in Int /\ Burst \in Int /\ b.tokens \in Int
    BY <1>1
  <2>2. Rate * (b.updatedAt - p.since) + (at - b.updatedAt) * Rate = Rate * (at - p.since)
    BY <2>1
  <2> QED  BY <1>1, <1>2, <2>1, <2>2
<1>4. Most(b.capacity, cost) \in {Burst} \cup Costs /\ Most(b.capacity, cost) \in Nat
      /\ Most(b.capacity, cost) >= b.capacity /\ Most(b.capacity, cost) >= cost
  BY <1>1 DEF Most
<1>5. CASE t < cost
  <2>1. retry = RefusedFor(cost - t) /\ cost - t \in Nat \ {0}
    BY <1>2, <1>5 DEF RetryAfter
  <2>2. /\ retry \in Nat /\ retry * TicksPerSecond \in Nat
        /\ (retry * TicksPerSecond) * Rate >= cost - t
    BY <2>1, RefillCoversDeficit
  <2>3. retry # 0
    BY <2>1, <2>2
  <2>4. q = [p EXCEPT !.cost = cost, !.ready = at + retry * TicksPerSecond]
    BY <2>3 DEF Remembered
  <2>5. Charged(b, at, cost) = [tokens |-> t, capacity |-> Most(b.capacity, cost),
                                updatedAt |-> at, seenAt |-> at]
    BY <1>5 DEF Charged
  <2>6. q.ready - at = retry * TicksPerSecond /\ q.cost = cost /\ q.since = p.since
        /\ q.spent = p.spent /\ q.ready \in Nat
    BY <1>1, <2>2, <2>4
  <2>7. Refilled(Charged(b, at, cost), q.ready) >= q.cost
    BY <1>2, <1>4, <2>2, <2>5, <2>6 DEF Refilled, Least
  <2>8. /\ Charged(b, at, cost).tokens = t
        /\ Charged(b, at, cost).capacity = Most(b.capacity, cost)
        /\ Charged(b, at, cost).updatedAt = at
        /\ Charged(b, at, cost).seenAt = at
    BY <2>5
  <2>9. q \in [since : 0 .. MaxTime, spent : Nat, cost : Costs \cup {0}, ready : Nat]
    BY <1>1, <2>4, <2>6
  <2>10. q.spent + Charged(b, at, cost).tokens <= Burst + Rate * (at - q.since)
    BY <1>3, <2>6, <2>8
  <2>11. t <= Most(b.capacity, cost)
    BY <1>1, <1>2, <1>4
  <2> HIDE DEF t
  <2> QED  BY <1>2, <1>4, <2>7, <2>8, <2>9, <2>10, <2>11
<1>6. CASE ~(t < cost)
  <2>1. retry = 0
    BY <1>6 DEF RetryAfter
  <2>2. q = [p EXCEPT !.spent = @ + cost, !.cost = 0, !.ready = 0]
    BY <2>1 DEF Remembered
  <2>3. Charged(b, at, cost) = [tokens |-> t - cost, capacity |-> Most(b.capacity, cost),
                                updatedAt |-> at, seenAt |-> at]
    BY <1>6 DEF Charged
  <2>4. q.spent = p.spent + cost /\ q.cost = 0 /\ q.since = p.since /\ q.spent \in Nat
    BY <1>1, <2>2
  <2>5. /\ Charged(b, at, cost).tokens = t - cost
        /\ Charged(b, at, cost).capacity = Most(b.capacity, cost)
        /\ Charged(b, at, cost).updatedAt = at
        /\ Charged(b, at, cost).seenAt = at
    BY <2>3
  <2>6. q \in [since : 0 .. MaxTime, spent : Nat, cost : Costs \cup {0}, ready : Nat]
    <3>1. q = [since |-> p.since, spent |-> p.spent + cost, cost |-> 0, ready |-> 0]
      BY <1>1, <2>2
    <3>2. p.since \in 0 .. MaxTime /\ p.spent + cost \in Nat
      BY <1>1
    <3> QED  BY <3>1, <3>2
  <2> HIDE DEF t
  <2>7. cost \in Nat /\ t - cost \in Int /\ t - cost <= Most(b.capacity, cost)
    BY <1>1, <1>2, <1>4
  <2>8. q.spent + Charged(b, at, cost).tokens = p.spent + t
    BY <1>1, <1>2, <2>4, <2>5
  <2>9. q.spent + Charged(b, at, cost).tokens <= Burst + Rate * (at - q.since)
    BY <1>3, <2>4, <2>8
  <2> QED  BY <1>4, <2>4, <2>5, <2>6, <2>7, <2>9
<1> QED  BY <1>5, <1>6

(* Room for one client: the map that is left is finite, and one more entry *)
(* fits unless the client has one already.                                 *)
LEMMA RoomSuffices ==
  ASSUME IInv, NEW c \in Clients, NEW kept \in RoomFor(c)
  PROVE  /\ kept \subseteq DOMAIN buckets
         /\ IsFiniteSet(kept \cup {c})
         /\ Cardinality(kept \cup {c}) <= MaxClients
<1> USE LimiterAssumption DEF IInv, FiniteMap, ClientsBounded
<1> DEFINE D == DOMAIN buckets
<1>0. IsFiniteSet(D) /\ Cardinality(D) \in Nat /\ Cardinality(D) <= MaxClients
  BY FS_CardinalityType
<1>1. CASE c \in D
  <2>1. kept = D /\ kept \cup {c} = D
    BY <1>1 DEF RoomFor
  <2> QED  BY <1>0, <2>1
<1>2. CASE c \notin D /\ Cardinality(D) < MaxClients
  <2>1. kept = D
    BY <1>2 DEF RoomFor
  <2>2. IsFiniteSet(D \cup {c}) /\ Cardinality(D \cup {c}) = Cardinality(D) + 1
    BY <1>0, <1>2, FS_AddElement
  <2> QED  BY <1>0, <1>2, <2>1, <2>2
<1>3. CASE c \notin D /\ ~(Cardinality(D) < MaxClients)
  <2>1. PICK v \in D : kept = D \ {v}
    BY <1>3 DEF RoomFor, Victims
  <2>2. IsFiniteSet(D \ {v}) /\ Cardinality(D \ {v}) = Cardinality(D) - 1
    BY <1>0, FS_RemoveElement
  <2>3. /\ IsFiniteSet((D \ {v}) \cup {c})
        /\ Cardinality((D \ {v}) \cup {c}) = Cardinality(D \ {v}) + 1
    BY <1>3, <2>2, FS_AddElement
  <2> QED  BY <1>0, <2>1, <2>2, <2>3
<1> QED  BY <1>1, <1>2, <1>3

(* A server that has just been built has no clients.                       *)
LEMMA InitIInv == Init => IInv
<1> SUFFICES ASSUME Init PROVE IInv
  OBVIOUS
<1>1. DOMAIN buckets = {}
  BY DEF Init
<1>2. IsFiniteSet(DOMAIN buckets) /\ Cardinality(DOMAIN buckets) = 0
  BY <1>1, FS_EmptySet
<1> QED
  BY <1>1, <1>2, LimiterAssumption
     DEF Init, IInv, TypeOK, FiniteMap, ClientsBounded, AdmissionIsBounded, RetryAfterIsEnough, NoPast

(* takeTokens keeps the invariant: the charged bucket by ChargeAccounts,   *)
(* the others because they are left alone, and the bound by RoomSuffices.  *)
LEMMA TakeKeepsIInv ==
  ASSUME IInv, NEW q \in Requests, TakeTokens(q)
  PROVE  IInv'
<1> USE LimiterAssumption
<1> DEFINE c == request[q].client
           at == request[q].at
           cost == request[q].cost
<1>1. c \in Clients /\ at \in 0 .. MaxTime /\ cost \in Costs
  BY DEF IInv, TypeOK, TakeTokens
<1>2. /\ request' = [request EXCEPT ![q] = Idle]
      /\ now' = now
      /\ Take(c, at, cost)
  BY DEF TakeTokens
<1> HIDE DEF c, at, cost
<1> DEFINE b == BucketOf(c, at)
           p == PastOf(c, at)
           retry == RetryAfter(Refilled(b, at), cost)
<1>3. PICK kept \in RoomFor(c) :
         /\ buckets' = [d \in kept \cup {c} |-> IF d = c THEN Charged(b, at, cost) ELSE buckets[d]]
         /\ past' = [d \in Clients |->
                       CASE d = c          -> Remembered(p, at, cost, retry)
                         [] d \in kept \ {c} -> past[d]
                         [] OTHER          -> NoPast]
  BY <1>2 DEF Take
<1>4. /\ kept \subseteq DOMAIN buckets
      /\ IsFiniteSet(kept \cup {c})
      /\ Cardinality(kept \cup {c}) <= MaxClients
  BY <1>1, RoomSuffices
<1>5. DOMAIN buckets \subseteq Clients
  BY DEF IInv, TypeOK
<1>6. /\ DOMAIN buckets' = kept \cup {c}
      /\ buckets'[c] = Charged(b, at, cost)
      /\ past'[c] = Remembered(p, at, cost, retry)
      /\ \A d \in kept \ {c} : buckets'[d] = buckets[d] /\ past'[d] = past[d]
      /\ \A d \in Clients \ (kept \cup {c}) : past'[d] = NoPast
      /\ DOMAIN past' = Clients
  BY <1>1, <1>3, <1>4, <1>5
<1>7. /\ Charged(b, at, cost).tokens \in Int
      /\ Charged(b, at, cost).capacity \in {Burst} \cup Costs
      /\ Charged(b, at, cost).tokens <= Charged(b, at, cost).capacity
      /\ Charged(b, at, cost).updatedAt = at
      /\ Charged(b, at, cost).seenAt = at
      /\ past'[c] \in [since : 0 .. MaxTime, spent : Nat, cost : Costs \cup {0}, ready : Nat]
      /\ past'[c].spent + Charged(b, at, cost).tokens <= Burst + Rate * (at - past'[c].since)
      /\ past'[c].cost > 0 => Refilled(Charged(b, at, cost), past'[c].ready) >= past'[c].cost
  BY <1>1, <1>6, ChargeAccounts
<1> HIDE DEF b, p, retry
<1>8. FiniteMap' /\ ClientsBounded'
  BY <1>4, <1>6 DEF FiniteMap, ClientsBounded
<1>9. TypeOK'
  <2>1. request' \in [Requests -> [client : Clients, cost : Costs, at : 0 .. MaxTime] \cup {Idle}]
    BY <1>2 DEF IInv, TypeOK
  <2>2. past' \in [Clients -> [since : 0 .. MaxTime, spent : Nat, cost : Costs \cup {0}, ready : Nat]]
    <3>1. NoPast \in [since : 0 .. MaxTime, spent : Nat, cost : Costs \cup {0}, ready : Nat]
      BY DEF NoPast
    <3>2. past \in [Clients -> [since : 0 .. MaxTime, spent : Nat, cost : Costs \cup {0}, ready : Nat]]
      BY DEF IInv, TypeOK
    <3>3. \A d \in Clients :
             past'[d] \in [since : 0 .. MaxTime, spent : Nat, cost : Costs \cup {0}, ready : Nat]
      BY <1>6, <1>7, <3>1, <3>2
    <3>4. past' = [d \in Clients |-> past'[d]]
      BY <1>3
    <3> QED  BY <3>3, <3>4
  <2>3. \A d \in DOMAIN buckets' :
          /\ buckets'[d].tokens \in Int
          /\ buckets'[d].capacity \in {Burst} \cup Costs
          /\ buckets'[d].tokens <= buckets'[d].capacity
          /\ buckets'[d].updatedAt \in 0 .. MaxTime
          /\ buckets'[d].seenAt = buckets'[d].updatedAt
    BY <1>1, <1>4, <1>6, <1>7 DEF IInv, TypeOK
  <2> QED  BY <1>1, <1>2, <1>4, <1>5, <1>6, <1>8, <2>1, <2>2, <2>3 DEF IInv, TypeOK
<1>10. AdmissionIsBounded'
  BY <1>4, <1>6, <1>7 DEF IInv, AdmissionIsBounded
<1>11. RetryAfterIsEnough'
  BY <1>4, <1>6, <1>7 DEF IInv, RetryAfterIsEnough, Refilled
<1> QED  BY <1>8, <1>9, <1>10, <1>11 DEF IInv

(* Arrivals and the clock change no bucket, so only takeTokens can disturb  *)
(* the invariant.                                                          *)
LEMMA NextIInv == IInv /\ [Next]_vars => IInv'
<1> SUFFICES ASSUME IInv, [Next]_vars PROVE IInv'
  OBVIOUS
<1> USE LimiterAssumption
<1>1. ASSUME NEW q \in Requests, NEW c \in Clients, NEW cost \in Costs, Arrive(q, c, cost)
      PROVE  IInv'
  BY <1>1 DEF Arrive, IInv, TypeOK, FiniteMap, ClientsBounded, AdmissionIsBounded,
     RetryAfterIsEnough, Refilled
<1>2. ASSUME NEW q \in Requests, TakeTokens(q) PROVE IInv'
  BY <1>2, TakeKeepsIInv
<1>3. CASE Tick
  BY <1>3 DEF Tick, IInv, TypeOK, FiniteMap, ClientsBounded, AdmissionIsBounded,
     RetryAfterIsEnough, Refilled
<1>4. CASE UNCHANGED vars
  BY <1>4 DEF vars, IInv, TypeOK, FiniteMap, ClientsBounded, AdmissionIsBounded,
     RetryAfterIsEnough, Refilled
<1> QED  BY <1>1, <1>2, <1>3, <1>4 DEF Next

(* The type invariant of the limiter.                                      *)
THEOREM LimiterTypeCorrect == Spec => []TypeOK
<1> QED  BY InitIInv, NextIInv, PTL DEF Spec, IInv

(* The map of clients never outgrows maxRateLimitClients.                  *)
THEOREM LimiterClientsBounded == Spec => []ClientsBounded
<1> QED  BY InitIInv, NextIInv, PTL DEF Spec, IInv

(* A client is admitted no more than the burst and the refill since its    *)
(* first request, as long as it keeps its bucket.                          *)
THEOREM LimiterAdmissionBounded == Spec => []AdmissionIsBounded
<1> QED  BY InitIInv, NextIInv, PTL DEF Spec, IInv

(* The delay takeTokens returns is enough for the request to pass.         *)
THEOREM LimiterRetryAfterSuffices == Spec => []RetryAfterIsEnough
<1> QED  BY InitIInv, NextIInv, PTL DEF Spec, IInv
=============================================================================
