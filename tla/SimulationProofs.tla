-------------------------- MODULE SimulationProofs --------------------------
(***************************************************************************)
(* Proofs about Simulation, for every set of commands, of Wasms and of     *)
(* interfaces, and any number of calls and upgrades.                       *)
(***************************************************************************)
EXTENDS Simulation, SequenceTheorems, WellFoundedInduction, TLAPS

(* An interface is cached under the hash of the Wasm it was read from.     *)
CacheIsByHash == \A w \in DOMAIN cache : cache[w] = w

(* What a call has read, the contract was since the call began.            *)
ReadDuring == pc \in {"cached", "fetching"} => read \in during

(* History covers the present while the source is being asked.             *)
NowDuring == pc \in {"reading", "cached", "fetching"} => wasm \in during

(* Which steps belong to which source: only the registry types a call by   *)
(* an interface that was not read from the chain.                          *)
SourceOfStep ==
    /\ req.source \in {"none", "chain", "vault"}
    /\ pc \in {"reading", "cached", "fetching"} => req.source = "chain"
    /\ pc = "asking" => req.source = "vault"

IInv == CacheIsByHash /\ ReadDuring /\ NowDuring /\ SourceOfStep /\ TypedByOwnInterface

LEMMA StoredIsByHash ==
  ASSUME CacheIsByHash, NEW w
  PROVE  /\ \A k \in DOMAIN Stored(w) : Stored(w)[k] = k
         /\ w \in DOMAIN Stored(w)
BY DEF CacheIsByHash, Stored, CacheKey

(* An ended call leaves its reading behind, and adds nothing to the cache. *)
LEMMA CallFailsKeeps ==
  ASSUME IInv, NEW cause, CallFails(cause),
         UNCHANGED <<req, ctxDone, wasm, cache, read, during>>
  PROVE  IInv'
<1>1. pc' \in {"exited", "deciding", "starting"} /\ UNCHANGED typedBy
  BY DEF CallFails, Abort, Conclude
<1> QED
  BY <1>1 DEF IInv, CacheIsByHash, ReadDuring, NowDuring, SourceOfStep, TypedByOwnInterface

LEMMA InitIInv == Init => IInv
<1> SUFFICES ASSUME Init PROVE IInv
  OBVIOUS
<1>1. req.source \in {"none", "chain", "vault"}
  BY SimulationAssumption DEF Init, RequestShape
<1>2. DOMAIN cache = {}
  BY DEF Init
<1> QED
  BY <1>1, <1>2
     DEF Init, IInv, CacheIsByHash, ReadDuring, NowDuring, SourceOfStep, TypedByOwnInterface

LEMMA NextIInv == IInv /\ [Next]_vars => IInv'
<1> SUFFICES ASSUME IInv, [Next]_vars PROVE IInv'
  OBVIOUS
<1> USE DEF IInv, CacheIsByHash, ReadDuring, NowDuring, SourceOfStep, TypedByOwnInterface
<1>1. CASE Cancel \/ AcceptCommand \/ RejectCommand \/ Encode \/ Run \/ Decide
  BY <1>1 DEF Cancel, AcceptCommand, RejectCommand, Encode, Run, Decide
<1>2. CASE Upgrade
  BY <1>2 DEF Upgrade
<1>3. CASE OtherCallStores
  <2>1. PICK w \in Wasms : cache' = Stored(w)
    BY <1>3 DEF OtherCallStores
  <2>2. CacheIsByHash'
    BY <2>1, StoredIsByHash
  <2> QED  BY <1>3, <2>2 DEF OtherCallStores
<1>4. CASE GiveUp \/ FinishCall
  BY <1>4 DEF GiveUp, FinishCall, Abort, Conclude
<1>5. CASE StartCall
  <2>1. \/ req.source = "none" /\ pc' = "encoding"
        \/ req.source = "chain" /\ pc' = "reading"
        \/ req.source = "vault" /\ pc' = "asking"
    BY <1>5 DEF StartCall
  <2> QED  BY <1>5, <2>1 DEF StartCall
<1>6. CASE AskVault
  BY <1>6 DEF AskVault
<1>7. CASE ReadInstance
  BY <1>7 DEF ReadInstance
<1>8. CASE LookUp
  BY <1>8 DEF LookUp, CacheKey
<1>9. CASE ReadCode
  <2>1. CacheIsByHash' /\ typedBy' = read
    BY <1>9, StoredIsByHash DEF ReadCode, CacheKey
  <2> QED  BY <1>9, <2>1 DEF ReadCode
<1>10. CASE RefuseCall \/ ArgumentFails \/ RunFails
  BY <1>10, CallFailsKeeps DEF RefuseCall, ArgumentFails, RunFails
<1>11. CASE NoInterface
  <2>1. CASE ctxDone
    BY <1>11, <2>1, CallFailsKeeps DEF NoInterface
  <2>2. CASE ~ctxDone
    BY <1>11, <2>2 DEF NoInterface
  <2> QED  BY <2>1, <2>2
<1>12. CASE TypeArgs
  <2>1. CASE Call.fn \in Exports[typedBy]
    BY <1>12, <2>1 DEF TypeArgs
  <2>2. CASE Call.fn \notin Exports[typedBy]
    BY <1>12, <2>2, CallFailsKeeps DEF TypeArgs
  <2> QED  BY <2>1, <2>2
<1>13. CASE UNCHANGED vars
  BY <1>13 DEF vars
<1> QED
  BY <1>1, <1>2, <1>3, <1>4, <1>5, <1>6, <1>7, <1>8, <1>9, <1>10, <1>11, <1>12, <1>13
     DEF Next
-----------------------------------------------------------------------------
(* A call from the chain is typed by an interface that the contract had    *)
(* during the call, however many calls share the cache (chain.go:65-103)   *)
(* and however often the contract is upgraded.                             *)
THEOREM SimulationTypedByOwn == Spec => []TypedByOwnInterface
<1>1. IInv => TypedByOwnInterface
  BY DEF IInv
<1> QED  BY InitIInv, NextIInv, <1>1, PTL DEF Spec
-----------------------------------------------------------------------------
(* The comparison of figures.  The extremes of finitely many numbers are   *)
(* among them, by the order of the natural numbers.                        *)
LEMMA LeastExists ==
  ASSUME NEW S, S \subseteq Nat, S # {}
  PROVE  \E x \in S : \A y \in S : x <= y
<1>1. PICK x \in S : \A y \in S : ~ (<<y, x>> \in OpToRel(<, Nat))
  BY NatLessThanWellFounded, WFMin
<1>2. \A y \in S : ~ (y < x)
  BY <1>1 DEF OpToRel
<1> QED  BY <1>2

LEMMA LeastIsMin ==
  ASSUME NEW S, S \subseteq Nat, S # {}
  PROVE  Min(S) \in S /\ \A y \in S : Min(S) <= y
<1>1. \E x \in S : \A y \in S : x =< y
  BY LeastExists
<1> QED  BY <1>1 DEF Min

LEMMA GreatestIsMax ==
  ASSUME NEW S, S \subseteq 0 .. MaxFigure, S # {}
  PROVE  Max(S) \in S /\ \A y \in S : y <= Max(S)
<1> DEFINE Below == {MaxFigure - y : y \in S}
<1>0. MaxFigure \in Nat
  BY SimulationAssumption
<1>1. Below \subseteq Nat /\ Below # {}
  BY <1>0
<1>2. PICK z \in Below : \A b \in Below : z <= b
  BY <1>1, LeastExists
<1>3. PICK x \in S : z = MaxFigure - x
  OBVIOUS
<1>4. \A y \in S : x >= y
  <2> TAKE y \in S
  <2>1. z <= MaxFigure - y
    BY <1>2
  <2> QED  BY <1>0, <1>3, <2>1
<1>5. Max(S) \in S /\ \A y \in S : Max(S) >= y
  BY <1>4 DEF Max
<1> QED  BY <1>5, <1>0

LEMMA TimesGrows ==
  ASSUME NEW p \in Nat, NEW a \in Nat, NEW b \in Nat, a <= b
  PROVE  p * a <= p * b
<1>1. PICK d \in Nat : b = a + d
  BY b - a \in Nat, b = a + (b - a)
<1>2. p * b = p * a + p * d /\ p * d \in Nat /\ p * a \in Nat
  BY <1>1
<1> QED  BY <1>2

(* What is not above a threshold from the least of a range to its greatest *)
(* is above it between no two values of the range.                         *)
LEMMA GrowthIsMonotone ==
  ASSUME NEW lo \in Nat, NEW a \in Nat, NEW b \in Nat, NEW hi \in Nat, NEW p \in Nat,
         lo <= a, b <= hi, Over(a, b, p)
  PROVE  Over(lo, hi, p)
<1>1. b > a /\ hi > lo
  BY DEF Over
<1>2. CASE lo = 0
  BY <1>1, <1>2 DEF Over
<1>3. CASE lo # 0
  <2>1. 100 * (b - a) > p * a
    BY <1>3 DEF Over
  <2>2. p * lo <= p * a
    BY TimesGrows
  <2>3. 100 * (hi - lo) >= 100 * (b - a)
    OBVIOUS
  <2>4. p * lo \in Nat /\ p * a \in Nat
    OBVIOUS
  <2> QED  BY <1>1, <2>1, <2>2, <2>3, <2>4 DEF Over
<1> QED  BY <1>2, <1>3

(* The outcomes of a comparison are right but for values at the threshold. *)
LEMMA AboveIsOver ==
  ASSUME NEW a \in Nat, NEW b \in Nat, NEW p \in Nat
  PROVE  /\ FALSE \in Above(a, b, p) => ~Over(a, b, p)
         /\ TRUE \in Above(a, b, p) => OverOrAt(a, b, p)
         /\ Above(a, b, p) \subseteq BOOLEAN
<1> DEFINE grown == 100 * (b - a)
           allowed == p * a
<1>1. CASE b =< a
  <2>1. Above(a, b, p) = {FALSE}
    BY <1>1, Zenon DEF Above
  <2>2. ~Over(a, b, p)
    BY <1>1 DEF Over
  <2> QED  BY <2>1, <2>2, Zenon
<1>2. CASE ~(b =< a) /\ a = 0
  <2>1. Above(a, b, p) = {TRUE}
    BY <1>2, Zenon DEF Above
  <2>2. OverOrAt(a, b, p)
    BY <1>2 DEF OverOrAt
  <2> QED  BY <2>1, <2>2, Zenon
<1>3. CASE ~(b =< a) /\ a # 0 /\ grown = allowed
  <2>1. Above(a, b, p) = BOOLEAN
    BY <1>3, Zenon DEF Above
  <2>2. OverOrAt(a, b, p) /\ ~Over(a, b, p)
    BY <1>3 DEF OverOrAt, Over
  <2> QED  BY <2>1, <2>2, Zenon
<1>4. CASE ~(b =< a) /\ a # 0 /\ grown # allowed
  <2>1. Above(a, b, p) = {grown > allowed}
    BY <1>4, Zenon DEF Above
  <2>2. grown > allowed => OverOrAt(a, b, p)
    BY <1>4 DEF OverOrAt
  <2>3. ~(grown > allowed) => ~Over(a, b, p)
    BY <1>4 DEF Over
  <2>4. (grown > allowed) \in BOOLEAN
    OBVIOUS
  <2> HIDE DEF grown, allowed
  <2> QED  BY <2>1, <2>2, <2>3, <2>4, Zenon
<1> QED  BY <1>1, <1>2, <1>3, <1>4
-----------------------------------------------------------------------------
LEMMA RequestTyped ==
  ASSUME req \in Requests
  PROVE  /\ req.mode \in {"call", "file"} /\ req.source \in {"none", "chain", "vault"}
         /\ req.calls \in Seq(CallShape)
         /\ req.mode = "call" => Len(req.calls) = 1
<1>1. req \in RequestShape
  BY SimulationAssumption
<1>2. req.mode = "call" => Len(req.calls) = 1
  BY SimulationAssumption
<1> QED  BY <1>1, <1>2 DEF RequestShape

(* A call that is being made has its fields.                               *)
LEMMA CallTyped ==
  ASSUME Call \in CallShape
  PROVE  /\ Call.baseline.cost \in Cost
         /\ Call.maxIncrease \in Nat \cup {Unset} /\ Call.maxSpread \in Nat \cup {Unset}
         /\ Call.repeat \in Int /\ Repeat \in Nat \ {0}
<1> DEFINE c == Call
<1>1. c \in CallShape /\ MaxFigure \in Nat
  BY SimulationAssumption
<1> HIDE DEF c
<1>2. \A b \in {NoBaseline, OtherCall} \cup {BaselineOf(k) : k \in Cost} : b.cost \in Cost
  <2>1. [f \in Figures |-> 0] \in Cost
    BY <1>1 DEF Cost
  <2> QED  BY <2>1 DEF NoBaseline, OtherCall, BaselineOf
<1>3. c.baseline.cost \in Cost /\ c.maxIncrease \in Nat \cup {Unset}
      /\ c.maxSpread \in Nat \cup {Unset} /\ c.repeat \in Int
  BY <1>1, <1>2 DEF CallShape
<1>4. Repeat \in Nat \ {0}
  BY <1>3 DEF Repeat, c
<1> QED  BY <1>3, <1>4 DEF c

(* All the runs are made.                                                  *)
RunsMade == Call \in CallShape /\ runs \in Seq(Cost) /\ Len(runs) = Repeat

LEMMA ValuesTyped ==
  ASSUME RunsMade, NEW f \in Figures
  PROVE  /\ ValuesOf(f) \subseteq 0 .. MaxFigure /\ ValuesOf(f) # {}
         /\ MaxFigure \in Nat
         /\ \A i \in DOMAIN runs : runs[i][f] \in Nat
<1>1. MaxFigure \in Nat
  BY SimulationAssumption
<1>2. \A i \in DOMAIN runs : runs[i][f] \in 0 .. MaxFigure
  BY DEF RunsMade, Cost
<1>3. 1 \in DOMAIN runs
  BY CallTyped DEF RunsMade
<1> QED  BY <1>1, <1>2, <1>3 DEF ValuesOf

(* What is compared with the baseline is the worst of the runs.            *)
LEMMA CurrentIsWorst ==
  ASSUME RunsMade, NEW f \in Figures
  PROVE  /\ Current[f] \in Nat
         /\ \E i \in DOMAIN runs : runs[i][f] = Current[f]
         /\ \A i \in DOMAIN runs : runs[i][f] <= Current[f]
<1>1. CASE Call.repeat > 1
  <2>1. Current[f] = Max(ValuesOf(f))
    BY <1>1 DEF Current
  <2>2. Current[f] \in ValuesOf(f) /\ \A y \in ValuesOf(f) : y <= Current[f]
    BY <2>1, ValuesTyped, GreatestIsMax
  <2> QED  BY <2>2, ValuesTyped DEF ValuesOf
<1>2. CASE ~(Call.repeat > 1)
  <2>1. Len(runs) = 1 /\ runs \in Seq(Cost)
    BY <1>2, CallTyped DEF RunsMade, Repeat
  <2>2. DOMAIN runs = {1} /\ Current = runs[1]
    BY <1>2, <2>1 DEF Current
  <2> QED  BY <2>2, ValuesTyped
<1> QED  BY <1>1, <1>2

(* The gate on growth.                                                     *)
LEMMA ExceededIsRight ==
  ASSUME RunsMade, NEW e \in Exceeded
  PROVE  /\ e \in BOOLEAN
         /\ ~e => \A i \in DOMAIN runs, f \in Figures : ~Exceeds(Call, runs, i, f)
         /\ e => \E i \in DOMAIN runs, f \in Figures : ExceedsOrAt(Call, runs, i, f)
<1> DEFINE A == [f \in Figures |-> Above(Call.baseline.cost[f], Current[f], Call.maxIncrease)]
<1>1. CASE ~(Call.baseline # NoBaseline /\ Call.maxIncrease # Unset)
  <2>1. e = FALSE
    BY <1>1 DEF Exceeded
  <2> QED  BY <1>1, <2>1 DEF Exceeds
<1>2. CASE Call.baseline # NoBaseline /\ Call.maxIncrease # Unset
  <2>0. e \in SomeAbove(A)
    BY <1>2 DEF Exceeded
  <2>1. e \in BOOLEAN /\ (IF e THEN \E f \in Figures : TRUE \in A[f]
                                ELSE \A f \in Figures : FALSE \in A[f])
    BY <2>0 DEF SomeAbove
  <2>2. ASSUME NEW f \in Figures
        PROVE  /\ Call.baseline.cost[f] \in Nat /\ Call.maxIncrease \in Nat /\ Current[f] \in Nat
               /\ A[f] = Above(Call.baseline.cost[f], Current[f], Call.maxIncrease)
    BY <1>2, CallTyped, CurrentIsWorst, SimulationAssumption DEF RunsMade, Cost
  <2>3. ASSUME ~e, NEW i \in DOMAIN runs, NEW f \in Figures
        PROVE  ~Exceeds(Call, runs, i, f)
    <3>1. ~Over(Call.baseline.cost[f], Current[f], Call.maxIncrease)
      BY <2>1, <2>2, <2>3, AboveIsOver
    <3>2. runs[i][f] <= Current[f] /\ runs[i][f] \in Nat
      BY CurrentIsWorst, ValuesTyped
    <3>3. ~Over(Call.baseline.cost[f], runs[i][f], Call.maxIncrease)
      BY <2>2, <3>1, <3>2, GrowthIsMonotone
    <3> QED  BY <3>3 DEF Exceeds
  <2>4. ASSUME e
        PROVE  \E i \in DOMAIN runs, f \in Figures : ExceedsOrAt(Call, runs, i, f)
    <3>1. PICK f \in Figures : TRUE \in A[f]
      BY <2>1, <2>4
    <3>2. OverOrAt(Call.baseline.cost[f], Current[f], Call.maxIncrease)
      BY <2>2, <3>1, AboveIsOver
    <3>3. PICK i \in DOMAIN runs : runs[i][f] = Current[f]
      BY CurrentIsWorst
    <3>4. ExceedsOrAt(Call, runs, i, f)
      BY <1>2, <3>2, <3>3 DEF ExceedsOrAt
    <3> QED  BY <3>4
  <2> QED  BY <2>0, <2>1, <2>3, <2>4
<1> QED  BY <1>1, <1>2

(* The gate on noise.                                                      *)
LEMMA NoisyIsRight ==
  ASSUME RunsMade, NEW n \in Noisy
  PROVE  /\ n \in BOOLEAN
         /\ ~n => \A i \in DOMAIN runs, f \in Figures : ~Strays(Call, runs, i, f)
         /\ n => \E i \in DOMAIN runs, f \in Figures : StraysOrAt(Call, runs, i, f)
<1> DEFINE least(f) == Min(ValuesOf(f))
           most(f) == Max(ValuesOf(f))
           A == [f \in Figures |-> Above(least(f), most(f), Call.maxSpread)]
<1>1. CASE ~(Call.repeat > 1 /\ Call.maxSpread # Unset)
  <2>1. n = FALSE
    BY <1>1 DEF Noisy
  <2>2. CASE Call.maxSpread = Unset
    BY <2>1, <2>2 DEF Strays
  <2>3. CASE ~(Call.repeat > 1)
    <3>1. DOMAIN runs = 1 .. 1
      <4>1. Call.repeat \in Int /\ Len(runs) = Repeat /\ runs \in Seq(Cost)
        BY CallTyped DEF RunsMade
      <4>2. Repeat = 1
        BY <2>3, <4>1 DEF Repeat
      <4> QED  BY <4>1, <4>2, LenProperties
    <3>2. ASSUME NEW f \in Figures
          PROVE  ~Over(runs[1][f], runs[1][f], Call.maxSpread)
      <4>1. runs[1][f] \in Nat
        BY <3>1, ValuesTyped
      <4> QED  BY <4>1 DEF Over
    <3>3. \A i \in DOMAIN runs : i = 1
      BY <3>1
    <3>4. \A i \in DOMAIN runs, f \in Figures : ~Strays(Call, runs, i, f)
      BY <3>2, <3>3 DEF Strays
    <3> HIDE DEF A
    <3> QED  BY <2>1, <3>4, Zenon
  <2> QED  BY <1>1, <2>2, <2>3
<1>2. CASE Call.repeat > 1 /\ Call.maxSpread # Unset
  <2>0. n \in SomeAbove(A)
    BY <1>2 DEF Noisy
  <2>1. n \in BOOLEAN /\ (IF n THEN \E f \in Figures : TRUE \in A[f]
                                ELSE \A f \in Figures : FALSE \in A[f])
    BY <2>0 DEF SomeAbove
  <2>2. ASSUME NEW f \in Figures
        PROVE  /\ Call.maxSpread \in Nat /\ least(f) \in Nat /\ most(f) \in Nat
               /\ \A i \in DOMAIN runs : /\ runs[i][f] \in Nat
                                        /\ least(f) <= runs[i][f] /\ runs[i][f] <= most(f)
               /\ \E i \in DOMAIN runs : runs[i][f] = least(f)
               /\ \E i \in DOMAIN runs : runs[i][f] = most(f)
               /\ A[f] = Above(least(f), most(f), Call.maxSpread)
    <3>1. Call.maxSpread \in Nat
      BY <1>2, CallTyped DEF RunsMade
    <3>2. ValuesOf(f) \subseteq Nat
      BY ValuesTyped
    <3>3. least(f) \in ValuesOf(f) /\ \A y \in ValuesOf(f) : least(f) <= y
      BY <3>2, ValuesTyped, LeastIsMin
    <3>4. most(f) \in ValuesOf(f) /\ \A y \in ValuesOf(f) : y <= most(f)
      BY ValuesTyped, GreatestIsMax
    <3> HIDE DEF least, most
    <3>5. \A i \in DOMAIN runs : runs[i][f] \in ValuesOf(f)
      BY DEF ValuesOf
    <3>6. \A y \in ValuesOf(f) : \E i \in DOMAIN runs : runs[i][f] = y
      BY DEF ValuesOf
    <3> QED  BY <3>1, <3>2, <3>3, <3>4, <3>5, <3>6
  <2> HIDE DEF least, most
  <2>3. ASSUME ~n, NEW i \in DOMAIN runs, NEW f \in Figures
        PROVE  ~Strays(Call, runs, i, f)
    <3>1. ~Over(least(f), most(f), Call.maxSpread)
      BY <2>1, <2>2, <2>3, AboveIsOver
    <3>2. ASSUME NEW j \in DOMAIN runs
          PROVE  ~Over(runs[j][f], runs[i][f], Call.maxSpread)
      BY <2>2, <3>1, GrowthIsMonotone
    <3> QED  BY <3>2 DEF Strays
  <2>4. ASSUME n
        PROVE  \E i \in DOMAIN runs, f \in Figures : StraysOrAt(Call, runs, i, f)
    <3>1. PICK f \in Figures : TRUE \in A[f]
      BY <2>1, <2>4
    <3>2. OverOrAt(least(f), most(f), Call.maxSpread)
      BY <2>2, <3>1, AboveIsOver
    <3>3. PICK j \in DOMAIN runs : runs[j][f] = least(f)
      BY <2>2
    <3>4. PICK i \in DOMAIN runs : runs[i][f] = most(f)
      BY <2>2
    <3>5. StraysOrAt(Call, runs, i, f)
      BY <1>2, <3>2, <3>3, <3>4 DEF StraysOrAt
    <3> QED  BY <3>5
  <2> QED  BY <2>0, <2>1, <2>3, <2>4
<1> QED  BY <1>1, <1>2
-----------------------------------------------------------------------------
(* A call is being made.                                                   *)
Busy == {"starting", "asking", "reading", "cached", "fetching", "typing", "encoding", "running"}

(* How far the file has come, and that nothing is asked of a command that  *)
(* has no business with it.                                                *)
Progress ==
    /\ pc = "flags" => items = <<>> /\ met = {}
    /\ pc \in Busy \cup {"deciding"} => ~BadFlags
    /\ pc \in Busy => Len(items) < Len(req.calls)
    /\ pc = "deciding" => Len(items) = Len(req.calls)
    /\ pc = "fetching" => read \in Wasms
    /\ pc # "exited" => exit = Running

TypeIInv == TypeOK /\ Progress

LEMMA CallsTyped ==
  ASSUME TypeIInv
  PROVE  /\ Len(items) \in Nat /\ This \in Nat
         /\ Len(req.calls) \in Nat
         /\ pc \in Busy => /\ This \in 1 .. Len(req.calls) /\ Call \in CallShape
                           /\ Repeat \in Nat \ {0}
<1>1. items \in Seq(Item) /\ req \in Requests /\ req.calls \in Seq(CallShape)
  BY RequestTyped DEF TypeIInv, TypeOK
<1>2. pc \in Busy => This \in 1 .. Len(req.calls) /\ Call \in CallShape
  BY <1>1 DEF TypeIInv, Progress, This, Call
<1> QED  BY <1>1, <1>2, CallTyped DEF This

LEMMA InitType == Init => TypeIInv
<1> SUFFICES ASSUME Init PROVE TypeIInv
  OBVIOUS
<1>1. req \in Requests /\ pc = "flags" /\ runs = <<>> /\ items = <<>> /\ cache = <<>>
      /\ wasm \in Executables
  BY DEF Init, Executables
<1>2. Len(req.calls) \in Nat
  BY <1>1, RequestTyped
<1>3. cache \in [DOMAIN cache -> Wasms]
  BY <1>1
<1>4. runs \in Seq(Cost) /\ Len(runs) = 0 /\ items \in Seq(Item) /\ Len(items) = 0
  BY <1>1
<1>5. TypeOK
  <2>1. runs = <<>> /\ Len(items) <= Len(req.calls)
    BY <1>1, <1>2, <1>4
  <2>2. ctxDone \in BOOLEAN /\ during \subseteq Executables /\ met = {} /\ exit = Running
        /\ read = None /\ typedBy = None
    BY DEF Init
  <2> QED  BY <1>1, <1>3, <1>4, <2>1, <2>2 DEF TypeOK
<1>6. Progress
  BY DEF Init, Progress, Busy
<1> QED  BY <1>5, <1>6 DEF TypeIInv

(* The end of a call, whichever it is.                                     *)
LEMMA ConcludeType ==
  ASSUME TypeIInv, pc \in Busy, NEW item \in Item, Conclude(item),
         met' \subseteq (0 .. Len(req.calls)) \X (Fatal \cup {"flags", "source", "output"}),
         UNCHANGED <<req, ctxDone, wasm, cache, read, during>>
  PROVE  TypeIInv'
<1>1. items' \in Seq(Item) /\ Len(items') = Len(items) + 1
  BY DEF TypeIInv, TypeOK, Conclude
<1>2. \/ pc' = "deciding" /\ Len(items') = Len(req.calls)
      \/ pc' = "starting" /\ Len(items') < Len(req.calls)
  BY <1>1, CallsTyped DEF Conclude, This
<1>3. TypeOK'
  <2>1. runs' = <<>> /\ runs' \in Seq(Cost)
    BY DEF Conclude
  <2> QED  BY <1>1, <1>2, <2>1, CallsTyped DEF TypeIInv, TypeOK, Conclude
<1>4. BadFlags' = BadFlags
  BY DEF BadFlags
<1>5. Progress'
  BY <1>1, <1>2, <1>4 DEF TypeIInv, Progress, Conclude, Busy
<1> QED  BY <1>3, <1>5 DEF TypeIInv

LEMMA AbortType ==
  ASSUME TypeIInv, Abort,
         met' \subseteq (0 .. Len(req.calls)) \X (Fatal \cup {"flags", "source", "output"}),
         UNCHANGED <<req, ctxDone, wasm, cache, read, during>>
  PROVE  TypeIInv'
<1>1. TypeOK'
  BY DEF TypeIInv, TypeOK, Abort, Repeat, Call, This
<1>2. Progress'
  BY DEF Progress, Abort, Busy
<1> QED  BY <1>1, <1>2 DEF TypeIInv

LEMMA CallFailsType ==
  ASSUME TypeIInv, pc \in Busy, NEW cause \in Fatal, CallFails(cause),
         UNCHANGED <<req, ctxDone, wasm, cache, read, during>>
  PROVE  TypeIInv'
<1>1. met' \subseteq (0 .. Len(req.calls)) \X (Fatal \cup {"flags", "source", "output"})
  BY CallsTyped DEF TypeIInv, TypeOK, CallFails
<1>2. CASE req.mode = "call" \/ ctxDone
  BY <1>1, <1>2, AbortType DEF CallFails
<1>3. CASE ~(req.mode = "call" \/ ctxDone)
  <2>1. ErrorItem \in Item
    BY DEF ErrorItem, Item
  <2> QED  BY <1>1, <1>3, <2>1, ConcludeType DEF CallFails
<1> QED  BY <1>2, <1>3

LEMMA StoredTyped ==
  ASSUME TypeOK, NEW w \in Wasms
  PROVE  /\ Stored(w) \in [DOMAIN Stored(w) -> Wasms]
         /\ Stored(w)[CacheKey(w)] \in Wasms
BY DEF TypeOK, Stored, CacheKey

LEMMA NextType == TypeIInv /\ [Next]_vars => TypeIInv'
<1> SUFFICES ASSUME TypeIInv, [Next]_vars PROVE TypeIInv'
  OBVIOUS
<1>0. /\ UNCHANGED <<req>> => BadFlags' = BadFlags
      /\ UNCHANGED <<req, items>> => Repeat' = Repeat /\ This' = This
  BY DEF BadFlags, Repeat, Call, This
<1>1. CASE Cancel \/ Upgrade \/ AcceptCommand \/ StartCall \/ AskVault \/ ReadInstance
           \/ LookUp \/ Encode
  <2>1. CASE Cancel
    BY <1>0, <2>1 DEF TypeIInv, TypeOK, Progress, Busy, Cancel
  <2>2. CASE Upgrade
    BY <1>0, <2>2 DEF TypeIInv, TypeOK, Progress, Busy, Upgrade
  <2>3. CASE AcceptCommand
    <3>1. Len(items) = 0 /\ 0 < Len(req.calls)
      BY <2>3, RequestTyped DEF TypeIInv, TypeOK, Progress, AcceptCommand, BadFlags
    <3> QED  BY <1>0, <2>3, <3>1 DEF TypeIInv, TypeOK, Progress, Busy, AcceptCommand
  <2>4. CASE StartCall
    <3>1. pc' \in {"encoding", "reading", "asking"}
      BY <2>4, RequestTyped DEF TypeIInv, TypeOK, StartCall
    <3>2. pc = "starting" /\ read' = None /\ typedBy' = None /\ during' = {wasm}
          /\ UNCHANGED <<req, ctxDone, wasm, cache, runs, items, exit, met>>
      BY <2>4 DEF StartCall
    <3>3. TypeOK'
      BY <1>0, <3>1, <3>2 DEF TypeIInv, TypeOK
    <3>4. Progress'
      BY <1>0, <3>1, <3>2 DEF TypeIInv, Progress, Busy
    <3> QED  BY <3>3, <3>4 DEF TypeIInv
  <2>5. CASE AskVault
    BY <1>0, <2>5 DEF TypeIInv, TypeOK, Progress, Busy, AskVault
  <2>6. CASE ReadInstance
    BY <1>0, <2>6 DEF TypeIInv, TypeOK, Progress, Busy, ReadInstance
  <2>7. CASE LookUp
    <3>1. pc' \in {"typing", "fetching"} /\ typedBy' \in Wasms \cup {None}
      BY <2>7 DEF TypeIInv, TypeOK, LookUp, CacheKey
    <3> QED  BY <1>0, <2>7, <3>1 DEF TypeIInv, TypeOK, Progress, Busy, LookUp
  <2>8. CASE Encode
    BY <1>0, <2>8 DEF TypeIInv, TypeOK, Progress, Busy, Encode
  <2> QED  BY <1>1, <2>1, <2>2, <2>3, <2>4, <2>5, <2>6, <2>7, <2>8
<1>2. CASE OtherCallStores
  <2>1. cache' \in [DOMAIN cache' -> Wasms]
    BY <1>2, StoredTyped DEF TypeIInv, OtherCallStores
  <2> QED  BY <1>0, <1>2, <2>1 DEF TypeIInv, TypeOK, Progress, Busy, OtherCallStores
<1>3. CASE ReadCode
  <2>1. cache' \in [DOMAIN cache' -> Wasms] /\ typedBy' \in Wasms
    BY <1>3, StoredTyped DEF TypeIInv, Progress, ReadCode
  <2> QED  BY <1>0, <1>3, <2>1 DEF TypeIInv, TypeOK, Progress, Busy, ReadCode
<1>4. CASE RejectCommand
  <2>1. met' \subseteq (0 .. Len(req.calls)) \X (Fatal \cup {"flags", "source", "output"})
    BY <1>4, CallsTyped DEF RejectCommand
  <2> QED  BY <1>0, <1>4, <2>1 DEF TypeIInv, TypeOK, Progress, Busy, RejectCommand
<1>5. CASE GiveUp
  BY <1>5, AbortType DEF GiveUp, TypeIInv, TypeOK
<1>6. CASE RefuseCall \/ ArgumentFails \/ RunFails
  BY <1>6, CallFailsType DEF RefuseCall, ArgumentFails, RunFails, Fatal, Busy
<1>7. CASE NoInterface
  <2>1. CASE ctxDone
    BY <1>7, <2>1, CallFailsType DEF NoInterface, SourceHasNone, Fatal, Busy
  <2>2. CASE ~ctxDone
    <3>1. met' \subseteq (0 .. Len(req.calls)) \X (Fatal \cup {"flags", "source", "output"})
      BY <1>7, <2>2, CallsTyped DEF NoInterface, SourceHasNone, TypeIInv, TypeOK, Busy
    <3> QED  BY <1>0, <1>7, <2>2, <3>1
                DEF NoInterface, SourceHasNone, TypeIInv, TypeOK, Progress, Busy
  <2> QED  BY <2>1, <2>2
<1>8. CASE TypeArgs
  <2>1. CASE Call.fn \in Exports[typedBy]
    BY <1>0, <1>8, <2>1 DEF TypeArgs, TypeIInv, TypeOK, Progress, Busy
  <2>2. CASE Call.fn \notin Exports[typedBy]
    BY <1>8, <2>2, CallFailsType DEF TypeArgs, Fatal, Busy
  <2> QED  BY <2>1, <2>2
<1>9. CASE Run
  <2>1. runs' \in Seq(Cost) /\ Len(runs') <= Repeat /\ This <= Len(req.calls)
    BY <1>9, CallsTyped DEF Run, TypeIInv, TypeOK, Busy
  <2> QED  BY <1>0, <1>9, <2>1 DEF Run, TypeIInv, TypeOK, Progress, Busy
<1>10. CASE FinishCall
  <2>1. PICK e \in Exceeded, n \in Noisy :
            Conclude([error |-> FALSE, exceeded |-> e, noisy |-> n, runs |-> runs])
    BY <1>10 DEF FinishCall
  <2>2. e \in BOOLEAN /\ n \in BOOLEAN /\ runs \in Seq(Cost)
    BY <1>10, CallsTyped, ExceededIsRight, NoisyIsRight
       DEF FinishCall, RunsMade, TypeIInv, TypeOK, Busy
  <2>3. [error |-> FALSE, exceeded |-> e, noisy |-> n, runs |-> runs] \in Item
    BY <2>2 DEF Item
  <2> QED  BY <1>10, <2>1, <2>3, ConcludeType DEF FinishCall, Busy, TypeIInv, TypeOK
<1>11. CASE Decide
  <2>1. met' \subseteq (0 .. Len(req.calls)) \X (Fatal \cup {"flags", "source", "output"})
    BY <1>11, CallsTyped DEF Decide, TypeIInv, TypeOK
  <2>2. exit' \in {0, 1, 2}
    BY <1>11 DEF Decide
  <2> QED  BY <1>0, <1>11, <2>1, <2>2 DEF Decide, TypeIInv, TypeOK, Progress, Busy
<1>12. CASE UNCHANGED vars
  BY <1>0, <1>12 DEF vars, TypeIInv, TypeOK, Progress, Busy
<1> QED
  BY <1>1, <1>2, <1>3, <1>4, <1>5, <1>6, <1>7, <1>8, <1>9, <1>10, <1>11, <1>12 DEF Next

(* simulate.go never makes more runs than --repeat asks for nor more items *)
(* than the file has calls, and meets failures of these calls alone.       *)
THEOREM SimulationTypeCorrect == Spec => []TypeOK
<1>1. TypeIInv => TypeOK
  BY DEF TypeIInv
<1> QED  BY InitType, NextType, <1>1, PTL DEF Spec
-----------------------------------------------------------------------------
(* What was met belongs to a call that is done, and its item says so; only *)
(* a command that ends in an error leaves one without.                     *)
MetIsOwn ==
    /\ pc # "exited" => \A m \in met : m[2] \in Fatal => m[1] \in 1 .. Len(items)
    /\ \A i \in DOMAIN items : items[i].error <=> \E c \in Fatal : <<i, c>> \in met

(* An item is judged by its runs, and a single call that fails leaves none.*)
JudgedRight ==
    /\ \A k \in DOMAIN items : Fits(req.calls[k], items[k])
    /\ req.mode = "call" => \A k \in DOMAIN items : ~items[k].error

ReportIInv == MetIsOwn /\ JudgedRight /\ FailuresAreOwn /\ GatesJudgeEveryRun

LEMMA InitReport == Init => ReportIInv
<1> SUFFICES ASSUME Init PROVE ReportIInv
  OBVIOUS
<1>1. items = <<>> /\ met = {} /\ pc = "flags" /\ exit = -1
  BY DEF Init, Running
<1> QED
  BY <1>1 DEF ReportIInv, MetIsOwn, JudgedRight, FailuresAreOwn, GatesJudgeEveryRun

(* Before the end the two properties say what is known already.            *)
LEMMA BeforeTheEnd ==
  ASSUME TypeIInv', MetIsOwn', JudgedRight', pc' # "exited"
  PROVE  ReportIInv'
<1>1. exit' = -1
  BY DEF TypeIInv, Progress, Running
<1>2. GatesJudgeEveryRun'
  BY <1>1 DEF JudgedRight, GatesJudgeEveryRun
<1>3. FailuresAreOwn'
  BY <1>1 DEF FailuresAreOwn, MetIsOwn, TypeIInv, Progress, Fatal
<1> QED  BY <1>2, <1>3 DEF ReportIInv

LEMMA JudgedFrom ==
  ASSUME \A k \in DOMAIN items' : Fits(req'.calls[k], items'[k]),
         req'.mode = "call" => \A k \in DOMAIN items' : ~items'[k].error
  PROVE  JudgedRight'
BY DEF JudgedRight, Fits, Exceeds, ExceedsOrAt, Strays, StraysOrAt, Over, OverOrAt, Unset,
       NoBaseline

LEMMA JudgedKept ==
  ASSUME JudgedRight, UNCHANGED <<req, items>>
  PROVE  JudgedRight'
<1>1. \A k \in DOMAIN items' : Fits(req'.calls[k], items'[k])
  BY DEF JudgedRight
<1>2. req'.mode = "call" => \A k \in DOMAIN items' : ~items'[k].error
  BY DEF JudgedRight
<1> QED  BY <1>1, <1>2, JudgedFrom

(* An item without runs fits when nothing is said to have tripped.         *)
LEMMA ErrorItemFits ==
  ASSUME NEW c
  PROVE  Fits(c, ErrorItem)
<1>1. ErrorItem.runs = <<>> /\ ~ErrorItem.exceeded /\ ~ErrorItem.noisy
  BY DEF ErrorItem
<1>2. DOMAIN ErrorItem.runs = {}
  BY <1>1
<1> QED  BY <1>1, <1>2 DEF Fits

(* A step on the way concludes no call and meets nothing that ends one.    *)
LEMMA OnTheWay ==
  ASSUME ReportIInv, TypeIInv', UNCHANGED <<req, items>>, pc # "exited", pc' # "exited",
         \A m \in met' : m[2] \in Fatal => m \in met, met \subseteq met'
  PROVE  ReportIInv'
<1>1. MetIsOwn'
  <2>1. \A m \in met' : m[2] \in Fatal => m[1] \in 1 .. Len(items')
    BY DEF ReportIInv, MetIsOwn
  <2>2. ASSUME NEW i \in DOMAIN items', NEW c \in Fatal
        PROVE  <<i, c>> \in met' <=> <<i, c>> \in met
    OBVIOUS
  <2>3. ASSUME NEW i \in DOMAIN items'
        PROVE  items'[i].error <=> \E c \in Fatal : <<i, c>> \in met'
    BY <2>2 DEF ReportIInv, MetIsOwn
  <2> QED  BY <2>1, <2>3 DEF MetIsOwn, Fatal
<1>2. JudgedRight'
  BY JudgedKept DEF ReportIInv
<1> QED  BY <1>1, <1>2, BeforeTheEnd

(* A call fails: its item, or the end of the command, has the error.       *)
LEMMA CallFailsReport ==
  ASSUME TypeIInv, TypeIInv', ReportIInv, pc \in Busy, NEW cause \in Fatal, CallFails(cause),
         UNCHANGED <<req, ctxDone>>
  PROVE  ReportIInv'
<1>0. /\ items \in Seq(Item) /\ req.mode \in {"call", "file"}
      /\ pc \notin {"exited", "deciding", "flags"}
  BY RequestTyped DEF TypeIInv, TypeOK, Busy
<1>1. /\ met' = met \cup {<<This, cause>>}
      /\ \A m \in met : m[2] \in Fatal => m[1] \in 1 .. Len(items)
      /\ \A i \in DOMAIN items : items[i].error <=> \E c \in Fatal : <<i, c>> \in met
  BY <1>0 DEF CallFails, ReportIInv, MetIsOwn
<1>2. Len(items) \in Nat /\ This = Len(items) + 1 /\ DOMAIN items = 1 .. Len(items)
  BY <1>0 DEF This
<1>3. ASSUME NEW i \in 1 .. Len(items), NEW c \in Fatal
      PROVE  <<i, c>> \in met' <=> <<i, c>> \in met
  <2>1. i # This
    BY <1>2
  <2>2. <<i, c>> # <<This, cause>>
    BY <2>1
  <2> QED  BY <1>1, <2>2
<1>4. CASE req.mode = "call" \/ ctxDone
  <2>1. pc' = "exited" /\ exit' = 2 /\ items' = items
    BY <1>4 DEF CallFails, Abort
  <2>2. MetIsOwn'
    BY <1>1, <1>2, <1>3, <2>1 DEF MetIsOwn, Fatal
  <2>3. JudgedRight'
    BY <2>1, JudgedKept DEF ReportIInv
  <2>4. GatesJudgeEveryRun'
    BY <2>1, <2>3 DEF JudgedRight, GatesJudgeEveryRun
  <2>5. \E m \in met' : m[2] \in Fatal \cup {"flags", "output"}
    <3>1. <<This, cause>> \in met' /\ <<This, cause>>[2] = cause
      BY <1>1
    <3> QED  BY <3>1
  <2>6. FailuresAreOwn'
    BY <2>1, <2>2, <2>5 DEF FailuresAreOwn, MetIsOwn, Fatal
  <2> QED  BY <2>2, <2>3, <2>4, <2>6 DEF ReportIInv
<1>5. CASE req.mode = "file" /\ ~ctxDone
  <2>1. items' = Append(items, ErrorItem) /\ pc' \in {"deciding", "starting"}
    BY <1>5 DEF CallFails, Conclude
  <2>2. /\ DOMAIN items' = 1 .. Len(items) + 1 /\ items'[This] = ErrorItem
        /\ \A i \in 1 .. Len(items) : items'[i] = items[i]
        /\ Len(items') = Len(items) + 1
    BY <1>0, <1>2, <2>1
  <2>3. <<This, cause>> \in met'
    BY <1>1
  <2>4. \A m \in met' : m[2] \in Fatal => m[1] \in 1 .. Len(items')
    BY <1>1, <1>2, <2>2
  <2>5. ASSUME NEW i \in DOMAIN items'
        PROVE  items'[i].error <=> \E c \in Fatal : <<i, c>> \in met'
    <3>1. i = This \/ i \in 1 .. Len(items)
      BY <1>2, <2>2
    <3>2. CASE i = This
      BY <2>2, <2>3, <3>2 DEF ErrorItem
    <3>3. CASE i \in 1 .. Len(items)
      BY <1>1, <1>2, <1>3, <2>2, <3>3
    <3> QED  BY <3>1, <3>2, <3>3
  <2>6. MetIsOwn'
    BY <2>4, <2>5 DEF MetIsOwn, Fatal
  <2>7. JudgedRight'
    <3>1. \A k \in 1 .. Len(items) : Fits(req.calls[k], items[k])
      BY <1>2 DEF JudgedRight, ReportIInv
    <3>2. \A k \in DOMAIN items' : Fits(req'.calls[k], items'[k])
      BY <1>2, <2>2, <3>1, ErrorItemFits
    <3> QED  BY <1>5, <3>2, JudgedFrom
  <2> QED  BY <2>1, <2>6, <2>7, BeforeTheEnd
<1> QED  BY <1>0, <1>4, <1>5

(* A call that is run to its end has no error, and its gates say of the    *)
(* runs what they should.                                                  *)
LEMMA FinishReport ==
  ASSUME TypeIInv, TypeIInv', ReportIInv, FinishCall
  PROVE  ReportIInv'
<1>0. /\ items \in Seq(Item) /\ req \in Requests /\ req.mode \in {"call", "file"} /\ exit = -1
      /\ pc = "running" /\ ~BadFlags /\ Len(items) < Len(req.calls)
      /\ RunsMade /\ UNCHANGED <<req, met>>
  BY RequestTyped, CallsTyped
     DEF TypeIInv, TypeOK, Progress, Running, Busy, FinishCall, Conclude, RunsMade
<1>1. PICK e \in Exceeded, n \in Noisy :
          Conclude([error |-> FALSE, exceeded |-> e, noisy |-> n, runs |-> runs])
  BY DEF FinishCall
<1> DEFINE item == [error |-> FALSE, exceeded |-> e, noisy |-> n, runs |-> runs]
<1>2. Len(items) \in Nat /\ This = Len(items) + 1 /\ DOMAIN items = 1 .. Len(items)
  BY <1>0 DEF This
<1>3. items' = Append(items, item) /\ pc' \in {"deciding", "starting"}
  BY <1>1 DEF Conclude
<1>4. /\ DOMAIN items' = 1 .. Len(items) + 1 /\ items'[This] = item
      /\ \A i \in 1 .. Len(items) : items'[i] = items[i]
      /\ Len(items') = Len(items) + 1
  BY <1>0, <1>2, <1>3
<1>5. /\ \A m \in met : m[2] \in Fatal => m[1] \in 1 .. Len(items)
      /\ \A i \in DOMAIN items : items[i].error <=> \E c \in Fatal : <<i, c>> \in met
  BY <1>0 DEF ReportIInv, MetIsOwn
<1>6. MetIsOwn'
  <2>1. \A m \in met' : m[2] \in Fatal => m[1] \in 1 .. Len(items')
    BY <1>0, <1>2, <1>4, <1>5
  <2>2. \A c \in Fatal : <<This, c>> \notin met
    BY <1>2, <1>5
  <2>3. ASSUME NEW i \in DOMAIN items'
        PROVE  items'[i].error <=> \E c \in Fatal : <<i, c>> \in met'
    <3>0. i = This \/ i \in 1 .. Len(items)
      BY <1>2, <1>4
    <3>1. CASE i = This
      <4>1. items'[i].error = FALSE
        BY <1>4, <3>1
      <4> QED  BY <1>0, <2>2, <3>1, <4>1
    <3>2. CASE i \in 1 .. Len(items)
      BY <1>0, <1>2, <1>4, <1>5, <3>2
    <3> QED  BY <3>0, <3>1, <3>2
  <2> QED  BY <2>1, <2>3 DEF MetIsOwn, Fatal
<1>7. JudgedRight'
  <2>1. Fits(Call, item)
    <3>1. item.runs = runs /\ item.exceeded = e /\ item.noisy = n
      OBVIOUS
    <3>2. /\ ~e => \A i \in DOMAIN runs, f \in Figures : ~Exceeds(Call, runs, i, f)
          /\ e => \E i \in DOMAIN runs, f \in Figures : ExceedsOrAt(Call, runs, i, f)
      BY <1>0, ExceededIsRight
    <3>3. /\ ~n => \A i \in DOMAIN runs, f \in Figures : ~Strays(Call, runs, i, f)
          /\ n => \E i \in DOMAIN runs, f \in Figures : StraysOrAt(Call, runs, i, f)
      BY <1>0, NoisyIsRight
    <3> HIDE DEF item
    <3> QED  BY <3>1, <3>2, <3>3 DEF Fits
  <2>2. \A k \in 1 .. Len(items) : Fits(req.calls[k], items[k])
    BY <1>0, <1>2 DEF JudgedRight, ReportIInv
  <2>3. \A k \in DOMAIN items' : Fits(req'.calls[k], items'[k])
    BY <1>0, <1>2, <1>4, <2>1, <2>2 DEF Call
  <2>4. req'.mode = "call" => \A k \in DOMAIN items' : ~items'[k].error
    BY <1>0, <1>2, <1>4 DEF JudgedRight, ReportIInv
  <2> QED  BY <2>3, <2>4, JudgedFrom
<1> QED  BY <1>3, <1>6, <1>7, BeforeTheEnd

(* The verdict.                                                            *)
LEMMA DecideReport ==
  ASSUME TypeIInv, ReportIInv, Decide
  PROVE  ReportIInv'
<1>0. /\ items \in Seq(Item) /\ req.mode \in {"call", "file"} /\ pc = "deciding" /\ pc' = "exited"
      /\ Len(items) = Len(req.calls) /\ req.calls \in Seq(CallShape) /\ ~BadFlags
      /\ UNCHANGED <<req, items, ctxDone>>
      /\ req.mode = "call" => Len(req.calls) = 1
  BY RequestTyped DEF TypeIInv, TypeOK, Progress, Decide
<1>1. PICK written \in BOOLEAN, closed \in BOOLEAN :
        /\ exit' = IF ~written THEN 2
                   ELSE IF req.mode = "call" /\ Tripped(items[1]) THEN 1
                   ELSE IF SomeCallFailed \/ ~closed THEN 2
                   ELSE 0
        /\ met' = met \cup (IF written /\ closed THEN {} ELSE {<<0, "output">>})
  BY DEF Decide
<1>2. DOMAIN items = DOMAIN req.calls /\ 1 \in DOMAIN items
  BY <1>0 DEF BadFlags
<1>3. "output" \notin Fatal
  BY DEF Fatal
<1>4. MetIsOwn'
  <2>1. ASSUME NEW i \in DOMAIN items, NEW c \in Fatal
        PROVE  <<i, c>> \in met' <=> <<i, c>> \in met
    <3>1. <<i, c>> # <<0, "output">>
      BY <1>3
    <3> QED  BY <1>1, <3>1
  <2> QED  BY <1>0, <2>1 DEF ReportIInv, MetIsOwn, Fatal
<1>5. JudgedRight'
  BY <1>0, JudgedKept DEF ReportIInv
<1>6. CASE exit' = 0
  <2>1. ~SomeCallFailed /\ (req.mode = "call" => ~Tripped(items[1]))
    BY <1>1, <1>6
  <2>2. \A i \in DOMAIN req.calls : i \in DOMAIN items /\ ~items[i].error
    BY <1>2, <2>1 DEF SomeCallFailed
  <2>3. FailuresAreOwn'
    BY <1>0, <1>4, <1>6, <2>2 DEF FailuresAreOwn, MetIsOwn, Fatal
  <2>4. GatesJudgeEveryRun'
    BY <1>0, <1>5, <1>6, <2>1 DEF GatesJudgeEveryRun, JudgedRight, Tripped
  <2> QED  BY <1>4, <1>5, <2>3, <2>4 DEF ReportIInv
<1>7. CASE exit' = 1
  <2>1. req.mode = "call" /\ Tripped(items[1])
    BY <1>1, <1>7
  <2>2. \A i \in DOMAIN req.calls : i \in DOMAIN items /\ ~items[i].error
    BY <1>2, <2>1 DEF ReportIInv, JudgedRight
  <2>3. FailuresAreOwn'
    BY <1>0, <1>4, <1>7, <2>2 DEF FailuresAreOwn, MetIsOwn, Fatal
  <2>4. GatesJudgeEveryRun'
    BY <1>0, <1>5, <1>7, <2>1 DEF GatesJudgeEveryRun, JudgedRight, Tripped
  <2> QED  BY <1>4, <1>5, <2>3, <2>4 DEF ReportIInv
<1>8. CASE exit' = 2
  <2>1. SomeCallFailed \/ ~written \/ ~closed
    BY <1>1, <1>8
  <2>2. \E m \in met' : m[2] \in Fatal \cup {"flags", "output"}
    <3>1. CASE SomeCallFailed
      <4>1. PICK i \in DOMAIN items : items[i].error
        BY <3>1 DEF SomeCallFailed
      <4>2. PICK c \in Fatal : <<i, c>> \in met
        BY <4>1 DEF ReportIInv, MetIsOwn
      <4>3. <<i, c>> \in met' /\ <<i, c>>[2] = c
        BY <1>1, <4>2
      <4> QED  BY <4>3
    <3>2. CASE ~written \/ ~closed
      <4>1. <<0, "output">> \in met' /\ <<0, "output">>[2] = "output"
        BY <1>1, <3>2
      <4> QED  BY <4>1
    <3> QED  BY <2>1, <3>1, <3>2
  <2>3. FailuresAreOwn'
    BY <1>0, <1>4, <1>8, <2>2 DEF FailuresAreOwn, MetIsOwn, Fatal
  <2>4. GatesJudgeEveryRun'
    BY <1>5, <1>8 DEF JudgedRight, GatesJudgeEveryRun
  <2> QED  BY <1>4, <1>5, <2>3, <2>4 DEF ReportIInv
<1> QED  BY <1>1, <1>6, <1>7, <1>8

LEMMA NextReport == TypeIInv /\ ReportIInv /\ [Next]_vars => ReportIInv'
<1> SUFFICES ASSUME TypeIInv, ReportIInv, [Next]_vars PROVE ReportIInv'
  OBVIOUS
<1>0. TypeIInv'
  BY NextType
<1>1. CASE Cancel \/ Upgrade \/ AcceptCommand \/ StartCall \/ AskVault \/ ReadInstance
           \/ LookUp \/ Encode \/ OtherCallStores \/ ReadCode \/ Run
  <2>1. /\ UNCHANGED <<req, items, met>> /\ pc # "exited" /\ pc' # "exited"
    BY <1>1, RequestTyped
       DEF TypeIInv, TypeOK, Cancel, Upgrade, AcceptCommand, StartCall, AskVault, ReadInstance,
           LookUp, Encode, OtherCallStores, ReadCode, Run
  <2> QED  BY <1>0, <2>1, OnTheWay
<1>2. CASE RejectCommand
  <2>1. items = <<>> /\ met = {} /\ exit' = 2 /\ pc' = "exited" /\ met' = {<<0, "flags">>}
        /\ UNCHANGED <<req, items>>
    BY <1>2 DEF RejectCommand, TypeIInv, Progress
  <2>2. <<0, "flags">> \in met' /\ <<0, "flags">>[2] = "flags"
    BY <2>1
  <2>3. DOMAIN items' = {}
    BY <2>1
  <2>4. JudgedRight'
    BY <2>3, JudgedFrom
  <2> QED
    BY <2>1, <2>2, <2>3, <2>4
       DEF ReportIInv, MetIsOwn, JudgedRight, FailuresAreOwn, GatesJudgeEveryRun
<1>3. CASE GiveUp
  <2>1. UNCHANGED <<req, items, met, ctxDone>> /\ ctxDone /\ exit' = 2 /\ pc' = "exited"
        /\ pc = "starting"
    BY <1>3 DEF GiveUp, Abort
  <2>2. MetIsOwn'
    BY <2>1 DEF ReportIInv, MetIsOwn, Fatal
  <2>3. JudgedRight'
    BY <2>1, JudgedKept DEF ReportIInv
  <2>4. FailuresAreOwn'
    BY <2>1, <2>2 DEF FailuresAreOwn, MetIsOwn, Fatal
  <2>5. GatesJudgeEveryRun'
    BY <2>1, <2>3 DEF GatesJudgeEveryRun, JudgedRight
  <2> QED  BY <2>2, <2>3, <2>4, <2>5 DEF ReportIInv
<1>4. CASE RefuseCall \/ ArgumentFails \/ RunFails
  BY <1>0, <1>4, CallFailsReport DEF RefuseCall, ArgumentFails, RunFails, Fatal, Busy
<1>5. CASE NoInterface
  <2>1. CASE ctxDone
    BY <1>0, <1>5, <2>1, CallFailsReport DEF NoInterface, SourceHasNone, Fatal, Busy
  <2>2. CASE ~ctxDone
    <3>1. UNCHANGED <<req, items>> /\ pc # "exited" /\ pc' = "encoding"
          /\ met' = met \cup {<<This, "source">>}
      BY <1>5, <2>2 DEF NoInterface, SourceHasNone
    <3>2. \A m \in met' : m[2] \in Fatal => m \in met
      BY <3>1 DEF Fatal
    <3> QED  BY <1>0, <3>1, <3>2, OnTheWay
  <2> QED  BY <2>1, <2>2
<1>6. CASE TypeArgs
  <2>1. CASE Call.fn \in Exports[typedBy]
    <3>1. UNCHANGED <<req, items, met>> /\ pc # "exited" /\ pc' = "encoding"
      BY <1>6, <2>1 DEF TypeArgs
    <3> QED  BY <1>0, <3>1, OnTheWay
  <2>2. CASE Call.fn \notin Exports[typedBy]
    BY <1>0, <1>6, <2>2, CallFailsReport DEF TypeArgs, Fatal, Busy
  <2> QED  BY <2>1, <2>2
<1>7. CASE FinishCall
  BY <1>0, <1>7, FinishReport
<1>8. CASE Decide
  BY <1>8, DecideReport
<1>9. CASE UNCHANGED vars
  <2>1. MetIsOwn' /\ FailuresAreOwn'
    BY <1>9 DEF vars, ReportIInv, MetIsOwn, FailuresAreOwn, Fatal
  <2>2. JudgedRight'
    BY <1>9, JudgedKept DEF vars, ReportIInv
  <2>3. GatesJudgeEveryRun'
    BY <1>9, <2>2 DEF vars, ReportIInv, GatesJudgeEveryRun, JudgedRight, Tripped
  <2> QED  BY <2>1, <2>2, <2>3 DEF ReportIInv
<1> QED
  BY <1>1, <1>2, <1>3, <1>4, <1>5, <1>6, <1>7, <1>8, <1>9 DEF Next

(* A failure is reported of the call that met it, and the command ends in  *)
(* an error only for one (README.md:265-266), whoever cancels and when,    *)
(* for files of any length.                                                *)
THEOREM SimulationFailuresAreOwn == Spec => []FailuresAreOwn
<1>1. ReportIInv => FailuresAreOwn
  BY DEF ReportIInv
<1> QED  BY InitType, NextType, InitReport, NextReport, <1>1, PTL DEF Spec

(* The gates say of every run what their thresholds say, though the code   *)
(* looks only at maxima and ranges (README.md:316-320), and the exit code  *)
(* of a single call follows them: for files of any length, any number of   *)
(* runs, any figures and any thresholds.                                   *)
THEOREM SimulationGatesJudgeEveryRun == Spec => []GatesJudgeEveryRun
<1>1. ReportIInv => GatesJudgeEveryRun
  BY DEF ReportIInv
<1> QED  BY InitType, NextType, InitReport, NextReport, <1>1, PTL DEF Spec
=============================================================================
