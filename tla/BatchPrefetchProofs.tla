------------------------ MODULE BatchPrefetchProofs ------------------------
(***************************************************************************)
(* That the prefetched strategy keeps the contract of CheckBatch too, and  *)
(* that what its rounds read is what its checks go on to ask for, for any  *)
(* plan, any chunks and whatever fails.                                    *)
(***************************************************************************)
EXTENDS BatchPrefetch, SequenceTheorems, WellFoundedInduction, TLAPS

Passed(item) == item.error = "none" /\ item.result = "pass"

OneField(item) == IF item.error = "none" THEN item.result \in {"pass", "fail"}
                                         ELSE item.result = "none"

(* The items are those of the first checks, each with an error or a result.*)
ItemsInOrder ==
    /\ items \in Seq(ToSet(items)) /\ Len(items) <= Len(Plan)
    /\ \A i \in DOMAIN items : OneField(items[i])

(* The flags are kept up item by item.                                     *)
FlagsKeepUp ==
    /\ flags \in [ok : BOOLEAN, errored : BOOLEAN]
    /\ flags.ok <=> \A i \in DOMAIN items : Passed(items[i])
    /\ flags.errored <=> \E i \in DOMAIN items : items[i].error # "none"

(* A check runs only for the next item of a batch that goes on, and after  *)
(* a return the last loop is never entered again.                          *)
LoopAgrees ==
    /\ running => phase = "run" /\ This \in Checks
    /\ answer # Pending => ~running /\ (ctxDone \/ (phase = "run" /\ This \notin Checks))

IInv == ItemsInOrder /\ FlagsKeepUp /\ LoopAgrees

(* Append keeps what is there and puts one element behind it.              *)
LEMMA AppendAdds ==
  ASSUME NEW s, s \in Seq(ToSet(s)), NEW e
  PROVE  /\ Append(s, e) \in Seq(ToSet(Append(s, e)))
         /\ Len(s) \in Nat /\ Len(Append(s, e)) = Len(s) + 1
         /\ DOMAIN s = 1 .. Len(s) /\ DOMAIN Append(s, e) = 1 .. Len(s) + 1
         /\ \A i \in 1 .. Len(s) : Append(s, e)[i] = s[i]
         /\ Append(s, e)[Len(s) + 1] = e
<1> DEFINE t == Append(s, e)
           both == ToSet(s) \cup {e}
<1>1. s \in Seq(both)
  OBVIOUS
<1>2. /\ t \in Seq(both)
      /\ Len(s) \in Nat /\ Len(t) = Len(s) + 1
      /\ DOMAIN s = 1 .. Len(s) /\ DOMAIN t = 1 .. Len(s) + 1
      /\ \A i \in 1 .. Len(s) : t[i] = s[i]
      /\ t[Len(s) + 1] = e
  BY <1>1
<1>3. t \in Seq(ToSet(t))
  BY <1>2 DEF ToSet
<1> QED  BY <1>2, <1>3

(* The checks are numbered from 1.                                         *)
LEMMA ChecksNumbered == Checks = 1 .. Len(Plan) /\ Len(Plan) \in Nat
BY PrefetchAssumption DEF Checks

(* A verdict on the next check.                                            *)
LEMMA ItemAdded ==
  ASSUME IInv, This \in Checks, NEW item, items' = Append(items, item),
         OneField(item),
         flags' = [ok |-> flags.ok /\ Passed(item), errored |-> flags.errored \/ item.error # "none"]
  PROVE  ItemsInOrder' /\ FlagsKeepUp' /\
         \E v \in {"passed", "failed", "errored"} : verdictBar' = [verdictBar EXCEPT ![This] = v]
<1> DEFINE n == Len(items)
<1>1. /\ items' \in Seq(ToSet(items'))
      /\ n \in Nat /\ Len(items') = n + 1
      /\ DOMAIN items = 1 .. n /\ DOMAIN items' = 1 .. n + 1
      /\ \A i \in 1 .. n : items'[i] = items[i]
      /\ items'[n + 1] = item
  BY AppendAdds DEF IInv, ItemsInOrder
<1>2. n + 1 <= Len(Plan)
  BY <1>1, ChecksNumbered DEF This
<1>3. ItemsInOrder'
  <2>1. ASSUME NEW i \in DOMAIN items' PROVE OneField(items'[i])
    <3>1. CASE i = n + 1
      BY <1>1, <2>1, <3>1
    <3>2. CASE i \in 1 .. n
      BY <1>1, <2>1, <3>2 DEF IInv, ItemsInOrder
    <3> QED  BY <1>1, <2>1, <3>1, <3>2
  <2> QED  BY <1>1, <1>2, <2>1 DEF ItemsInOrder
<1>4. \A i \in DOMAIN items' : i = n + 1 \/ i \in DOMAIN items
  BY <1>1
<1>5. n + 1 \in DOMAIN items' /\ \A i \in DOMAIN items : i \in DOMAIN items' /\ i # n + 1
  BY <1>1
<1>6. FlagsKeepUp'
  <2>1. /\ flags'.ok = (flags.ok /\ Passed(item))
        /\ flags'.errored = (flags.errored \/ item.error # "none")
        /\ flags' \in [ok : BOOLEAN, errored : BOOLEAN]
    BY DEF IInv, FlagsKeepUp, Passed
  <2>2. flags'.ok <=> \A i \in DOMAIN items' : Passed(items'[i])
    BY <1>1, <1>4, <1>5, <2>1 DEF IInv, FlagsKeepUp, Passed
  <2>3. flags'.errored <=> \E i \in DOMAIN items' : items'[i].error # "none"
    <3>1. flags'.errored <=> flags.errored \/ item.error # "none"
      BY <2>1
    <3>2. flags.errored <=> \E i \in DOMAIN items : items'[i].error # "none"
      BY <1>1 DEF IInv, FlagsKeepUp
    <3>3. item.error # "none" <=> items'[n + 1].error # "none"
      BY <1>1
    <3> QED  BY <1>4, <1>5, <3>1, <3>2, <3>3
  <2> QED  BY <2>1, <2>2, <2>3 DEF FlagsKeepUp
<1>7. PICK v \in {"passed", "failed", "errored"} :
          \/ v = "errored" /\ item.error # "none"
          \/ v = "passed" /\ item.error = "none" /\ item.result = "pass"
          \/ v = "failed" /\ item.error = "none" /\ item.result = "fail"
  BY DEF OneField
<1>8. ASSUME NEW i \in Checks, i # This PROVE verdictBar'[i] = verdictBar[i]
  <2>1. i \in DOMAIN items <=> i \in DOMAIN items'
    BY <1>1, <1>4, <1>8, ChecksNumbered DEF This
  <2>2. i \in DOMAIN items => items'[i] = items[i]
    BY <1>1
  <2>3. i \in DOMAIN items => OneField(items[i])
    BY DEF IInv, ItemsInOrder
  <2> QED  BY <2>1, <2>2, <2>3 DEF verdictBar, OneField, Checks
<1>9. verdictBar'[This] = v
  <2>1. This \in DOMAIN items' /\ items'[This] = item
    BY <1>1 DEF This
  <2> QED  BY <1>7, <2>1 DEF verdictBar, OneField, Checks
<1>10. verdictBar' = [verdictBar EXCEPT ![This] = v]
  <2>1. DOMAIN verdictBar = Checks /\ DOMAIN verdictBar' = Checks
    BY DEF verdictBar, Checks
  <2>2. /\ verdictBar = [i \in Checks |-> verdictBar[i]]
        /\ verdictBar' = [i \in Checks |-> verdictBar'[i]]
    BY DEF verdictBar, Checks
  <2> QED  BY <1>8, <1>9, <2>1, <2>2
<1> QED  BY <1>3, <1>6, <1>10

(* The three ways to an item, each with its flags.                         *)
LEMMA ErrorRecorded ==
  ASSUME IInv, This \in Checks, NEW e, e # "none", RecordError(e)
  PROVE  ItemsInOrder' /\ FlagsKeepUp' /\
         \E v \in {"passed", "failed", "errored"} : verdictBar' = [verdictBar EXCEPT ![This] = v]
<1> DEFINE item == [result |-> "none", error |-> e, ledger |-> 0]
<1>1. /\ items' = Append(items, item) /\ item.error # "none" /\ ~Passed(item) /\ OneField(item)
      /\ flags' = [ok |-> flags.ok /\ Passed(item), errored |-> flags.errored \/ item.error # "none"]
  BY DEF RecordError, Passed, OneField
<1> HIDE DEF item
<1> QED  BY <1>1, ItemAdded

LEMMA ResultRecorded ==
  ASSUME IInv, This \in Checks, NEW res \in {"pass", "fail"}, NEW at, RecordResult(res, at)
  PROVE  ItemsInOrder' /\ FlagsKeepUp' /\
         \E v \in {"passed", "failed", "errored"} : verdictBar' = [verdictBar EXCEPT ![This] = v]
<1> DEFINE item == [result |-> res, error |-> "none", ledger |-> at]
<1>1. /\ items' = Append(items, item) /\ item.error = "none" /\ item.result = res
      /\ Passed(item) <=> res = "pass"
      /\ OneField(item)
  BY DEF RecordResult, Passed, OneField
<1>2. flags' = [ok |-> flags.ok /\ Passed(item), errored |-> flags.errored \/ item.error # "none"]
  BY <1>1 DEF RecordResult, IInv, FlagsKeepUp
<1> HIDE DEF item
<1> QED  BY <1>1, <1>2, ItemAdded

(* Nothing has been decided.                                               *)
LEMMA InitIInv == Init => IInv /\ Contract!Init
<1> SUFFICES ASSUME Init PROVE IInv /\ Contract!Init
  OBVIOUS
<1>1. items = <<>> /\ Len(items) = 0 /\ DOMAIN items = {} /\ items \in Seq(ToSet(items))
  BY DEF Init
<1>2. Len(Plan) \in Nat /\ Checks = 1 .. Len(Plan)
  BY ChecksNumbered
<1>3. verdictBar = [i \in Checks |-> "unset"]
  BY <1>1 DEF verdictBar
<1> QED
  BY <1>1, <1>2, <1>3
     DEF Init, IInv, ItemsInOrder, FlagsKeepUp, LoopAgrees, Contract!Init, Contract!Checks, Pending,
         Contract!Pending

(* Each step keeps the invariant and is one of the contract's.             *)
LEMMA NextIInv ==
  ASSUME IInv, [Next]_vars
  PROVE  IInv' /\ [Contract!Next]_(Contract!contractVars)
<1>c. Checks = 1 .. Len(Plan) /\ Contract!Checks = Checks /\ Contract!Pending = Pending
  BY ChecksNumbered DEF Contract!Checks, Contract!Pending, Pending
<1>1. ASSUME UNCHANGED <<ctxDone, answer, items, flags, running>>, phase' = phase \/ phase # "run"
      PROVE  IInv' /\ UNCHANGED Contract!contractVars
  BY <1>1 DEF IInv, ItemsInOrder, FlagsKeepUp, LoopAgrees, This, Contract!contractVars, verdictBar
<1>2. ASSUME This \in Checks, answer = Pending, UNCHANGED <<ctxDone, answer>>, ~running',
             ItemsInOrder', FlagsKeepUp',
             \E v \in {"passed", "failed", "errored"} : verdictBar' = [verdictBar EXCEPT ![This] = v]
      PROVE  IInv' /\ Contract!Decide(This)
  <2>1. This \notin DOMAIN items
    BY <1>c DEF IInv, ItemsInOrder, This
  <2>2. verdictBar[This] = "unset"
    BY <1>2, <2>1 DEF verdictBar
  <2> QED  BY <1>2, <1>c, <2>2 DEF IInv, LoopAgrees, Contract!Decide, Contract!Verdicts
<1>3. CASE Cancel
  BY <1>3 DEF Cancel, out, IInv, ItemsInOrder, FlagsKeepUp, LoopAgrees, This, Contract!Next,
         Contract!Cancel, verdictBar
<1>4. CASE PlanFails \/ PlanKey \/ LoopEnds \/ FetchChunk \/ FetchAbandoned \/ CollectCodeKey
  BY <1>1, <1>4 DEF PlanFails, PlanKey, LoopEnds, FetchChunk, FetchAbandoned, CollectCodeKey, out, reads
<1>11. CASE FetchEnds
  <2>1. phase # "run" /\ UNCHANGED <<ctxDone, answer, items, flags, running>>
    BY <1>11 DEF FetchEnds, out
  <2>2. ~running /\ (answer # Pending => ctxDone)
    BY <2>1 DEF IInv, LoopAgrees
  <2> QED
    BY <2>1, <2>2
       DEF IInv, ItemsInOrder, FlagsKeepUp, LoopAgrees, This, Contract!contractVars, verdictBar
<1>5. CASE RecordFetchError
  <2>1. answer = Pending
    BY <1>5 DEF RecordFetchError, IInv, LoopAgrees
  <2>2. This \in Checks /\ UNCHANGED <<ctxDone, answer, running>> /\ ~running
    BY <1>5 DEF RecordFetchError
  <2>3. ItemsInOrder' /\ FlagsKeepUp' /\
        \E v \in {"passed", "failed", "errored"} : verdictBar' = [verdictBar EXCEPT ![This] = v]
    BY <1>5, <2>2, ErrorRecorded DEF RecordFetchError
  <2>4. IInv' /\ Contract!Decide(This)
    BY <1>2, <2>1, <2>2, <2>3
  <2> QED  BY <1>c, <2>2, <2>4 DEF Contract!Next
<1>6. CASE BeginCheck
  BY <1>6 DEF BeginCheck, out, IInv, ItemsInOrder, FlagsKeepUp, LoopAgrees, This, verdictBar,
         Contract!contractVars
<1>7. CASE EndCheck
  <2>1. /\ answer = Pending /\ This \in Checks /\ running' = FALSE
        /\ UNCHANGED <<ctxDone, answer>>
    BY <1>7 DEF EndCheck, IInv, LoopAgrees
  <2>2. ItemsInOrder' /\ FlagsKeepUp' /\
        \E v \in {"passed", "failed", "errored"} : verdictBar' = [verdictBar EXCEPT ![This] = v]
    <3>1. CASE \E e : e # "none" /\ RecordError(e)
      BY <2>1, <3>1, ErrorRecorded
    <3>2. CASE \E res \in {"pass", "fail"}, at \in {Inspection(This).ledger} : RecordResult(res, at)
      BY <2>1, <3>2, ResultRecorded
    <3>3. \/ \E e : e # "none" /\ RecordError(e)
          \/ \E res \in {"pass", "fail"}, at \in {Inspection(This).ledger} : RecordResult(res, at)
      <4> HIDE DEF This
      <4> QED  BY <1>7 DEF EndCheck
    <3> QED  BY <3>1, <3>2, <3>3
  <2>3. IInv' /\ Contract!Decide(This)
    BY <1>2, <2>1, <2>2
  <2> QED  BY <1>c, <2>1, <2>3 DEF Contract!Next
<1>8. CASE ReturnError
  <2>1. UNCHANGED <<ctxDone, phase, items, flags, running>> /\ ctxDone /\ ~running
    BY <1>8 DEF ReturnError, out, IInv, LoopAgrees
  <2>2. IInv'
    BY <2>1 DEF IInv, ItemsInOrder, FlagsKeepUp, LoopAgrees, This
  <2>3. verdictBar' = verdictBar
    BY <2>1 DEF verdictBar
  <2> QED
    BY <1>8, <1>c, <2>1, <2>2, <2>3
       DEF ReturnError, Contract!Next, Contract!ReturnError, GoError, Contract!GoError
<1>9. CASE ReturnReport
  <2>1. /\ UNCHANGED <<ctxDone, phase, items, flags, running>> /\ ~running /\ This \notin Checks
        /\ phase = "run" /\ answer = Pending
        /\ answer' = [state |-> "report", ok |-> flags.ok, errored |-> flags.errored]
    BY <1>9 DEF ReturnReport, out
  <2>2. IInv'
    BY <2>1 DEF IInv, ItemsInOrder, FlagsKeepUp, LoopAgrees, This
  <2>3. verdictBar' = verdictBar
    BY <2>1 DEF verdictBar
  <2>4. DOMAIN items = Checks
    BY <1>c, <2>1, ChecksNumbered DEF IInv, ItemsInOrder, This
  <2>5. \A i \in Checks :
           /\ verdictBar[i] # "unset"
           /\ verdictBar[i] = "passed" <=> Passed(items[i])
           /\ verdictBar[i] = "errored" <=> items[i].error # "none"
    BY <2>4 DEF verdictBar, IInv, ItemsInOrder, OneField, Passed
  <2>6. answer' = Contract!ReportOf(verdictBar)
    BY <1>c, <2>1, <2>4, <2>5 DEF Contract!ReportOf, IInv, FlagsKeepUp
  <2> QED  BY <1>c, <2>1, <2>2, <2>3, <2>5, <2>6 DEF Contract!Next, Contract!ReturnReport
<1>10. CASE UNCHANGED vars
  BY <1>1, <1>10 DEF vars, out
<1> QED
  BY <1>3, <1>4, <1>5, <1>6, <1>7, <1>8, <1>9, <1>10, <1>11, <1>1 DEF Next, Work

(* Every behaviour of the prefetched strategy is one of the contract of    *)
(* CheckBatch, as are those of the worker pool.                            *)
THEOREM PrefetchImplementsContract == Spec => ImplementsContract
<1> QED  BY InitIInv, NextIInv, PTL DEF Spec, Contract!Spec, ImplementsContract
-----------------------------------------------------------------------------
(* What the two rounds have read, at which ledgers.                        *)
Errors == {"rpc", "canceled"}
AllKeys == PlannedKeys \cup CodeKeys
Read == DOMAIN fetched \cup DOMAIN errors

(* Which keys are asked for and read in which phase.                       *)
RoundsTyped ==
    /\ phase \in {"plan", "initial", "collect", "code", "run"}
    /\ check \in Nat /\ nth \in Nat /\ check >= 1 /\ nth >= 1
    /\ todo \in Seq(AllKeys)
    /\ ledger \in Nat
    /\ Read \subseteq AllKeys
    /\ \A k \in DOMAIN errors : errors[k] \in Errors
    /\ \A k \in DOMAIN fetched : fetched[k].ledger \in Nat /\ fetched[k].ledger <= ledger
                                 /\ fetched[k].content \in Contents(k)
    /\ states \in [Checks -> [err : {"none", "plan", "unreadable"} \cup Errors,
                              codeKey : CodeKeys \cup {"none"}]]

RoundsApart ==
    /\ phase \in {"plan", "initial"} => ToSet(todo) \subseteq PlannedKeys
    /\ phase \in {"collect", "code"} => ToSet(todo) \subseteq CodeKeys
    /\ phase = "run" => todo = <<>>
    /\ phase \in {"plan", "initial", "collect"} => Read \subseteq PlannedKeys
    /\ phase = "plan" => Read = {}
    /\ phase # "run" => items = <<>>
    /\ phase = "initial" => check = 1

(* Every key of a plan is read in the first round.                         *)
PlannedBefore(i, n) == i < check \/ (i = check /\ n < nth)

PlannedAreRead ==
    /\ phase = "plan" =>
          /\ \A i \in Checks : \A n \in DOMAIN Plan[i] :
                PlannedBefore(i, n) => Plan[i][n] \in ToSet(todo)
          /\ check \in Checks => nth = 1 \/ nth \in DOMAIN Plan[check]
    /\ phase = "initial" => PlannedKeys \subseteq ToSet(todo) \cup Read
    /\ phase \in {"collect", "code", "run"} => PlannedKeys \subseteq Read

(* What the second loop has made of a check.                               *)
Collected(i) == phase \in {"code", "run"} \/ (phase = "collect" /\ i < check)

StateFollows(i) ==
    /\ states[i].codeKey # "none" => Collected(i) /\ states[i].err = "none"
    /\ states[i].err \in Errors => ToSet(Plan[i]) \cap DOMAIN errors # {}
    /\ Plan[i] = <<>> /\ (phase # "plan" \/ i < check) => states[i].err = "plan"
    /\ Collected(i) /\ states[i].err = "none" =>
          IF Content(Plan[i][1]) \in CodeKeys THEN states[i].codeKey = Content(Plan[i][1])
                                              ELSE states[i].codeKey = "none"

StatesFollow == \A i \in Checks : StateFollows(i)

(* Every code entry an instance leads to is read in the second.            *)
CodesAreRead ==
    \A i \in Checks : states[i].codeKey # "none" => states[i].codeKey \in ToSet(todo) \cup Read

(* A key does not come before the instance of its contract.                *)
InstanceFirst ==
    \A i \in Checks : \A k \in ToSet(Plan[i]) :
        /\ phase = "plan" /\ k \in ToSet(todo) => Plan[i][1] \in ToSet(todo)
        /\ phase = "initial" /\ Plan[i][1] \in ToSet(todo) => k \in ToSet(todo)
        /\ \A a, b \in DOMAIN todo : todo[a] = Plan[i][1] /\ todo[b] = k => a <= b

(* So it is not read at an earlier ledger; nor is the code.                *)
LedgersFollow ==
    /\ \A i \in Checks : \A k \in ToSet(Plan[i]) :
          k \in DOMAIN fetched \ (ToSet(todo) \cup DOMAIN errors) /\ Plan[i][1] \in DOMAIN fetched =>
              fetched[Plan[i][1]].ledger <= fetched[k].ledger
    /\ \A k \in PlannedKeys \cap DOMAIN fetched, c \in CodeKeys \cap DOMAIN fetched :
          fetched[k].ledger <= fetched[c].ledger

(* What the last loop records.                                             *)
ItemsFollow ==
    \A i \in DOMAIN items :
        /\ items[i].error # "not prefetched"
        /\ items[i].result # "none" =>
              /\ KeysOf(i) \subseteq DOMAIN fetched
              /\ \A k \in KeysOf(i) : items[i].ledger <= fetched[k].ledger

RoundsInv ==
    /\ RoundsTyped /\ RoundsApart /\ PlannedAreRead /\ StatesFollow /\ CodesAreRead
    /\ InstanceFirst /\ LedgersFollow

(* The least of some numbers is among them.                                *)
LEMMA LeastIsMin ==
  ASSUME NEW S, S \subseteq Nat, S # {}
  PROVE  Min(S) \in S /\ \A y \in S : Min(S) <= y
<1>1. PICK x \in S : \A y \in S : ~ (<<y, x>> \in OpToRel(<, Nat))
  BY NatLessThanWellFounded, WFMin
<1>2. \A y \in S : ~ (y < x)
  BY <1>1 DEF OpToRel
<1>3. \A y \in S : x =< y
  BY <1>2
<1> QED  BY <1>3 DEF Min

(* Members of a sequence, of a plan, of a chunk.                           *)
LEMMA ToSetIs ==
  ASSUME NEW s
  PROVE  \A x : x \in ToSet(s) <=> \E i \in DOMAIN s : x = s[i]
BY DEF ToSet

LEMMA PlanIs ==
  ASSUME NEW i \in Checks
  PROVE  /\ Plan[i] \in Seq(ToSet(Plan[i]))
         /\ Len(Plan[i]) \in Nat /\ DOMAIN Plan[i] = 1 .. Len(Plan[i])
         /\ ToSet(Plan[i]) \subseteq PlannedKeys
         /\ \A n \in DOMAIN Plan[i] : Plan[i][n] \in ToSet(Plan[i])
         /\ Plan[i] # <<>> => 1 \in DOMAIN Plan[i] /\ Plan[i][1] \in ToSet(Plan[i])
         /\ Plan[i] = <<>> => ToSet(Plan[i]) = {}
<1>1. Plan[i] \in Seq(ToSet(Plan[i]))
  BY PrefetchAssumption
<1>2. Len(Plan[i]) \in Nat /\ DOMAIN Plan[i] = 1 .. Len(Plan[i])
  BY <1>1, LenProperties
<1>3. ToSet(Plan[i]) \subseteq PlannedKeys
  BY DEF PlannedKeys
<1>4. \A n \in DOMAIN Plan[i] : Plan[i][n] \in ToSet(Plan[i])
  BY ToSetIs
<1>5. Plan[i] # <<>> => Len(Plan[i]) # 0
  BY <1>1, EmptySeq
<1>6. Plan[i] # <<>> => 1 \in DOMAIN Plan[i]
  BY <1>2, <1>5
<1>7. Plan[i] = <<>> => ToSet(Plan[i]) = {}
  <2> SUFFICES ASSUME Plan[i] = <<>> PROVE DOMAIN Plan[i] = {}
    BY ToSetIs
  <2>1. Len(Plan[i]) = 0
    BY EmptySeq
  <2> QED  BY <1>2, <2>1
<1> QED  BY <1>1, <1>2, <1>3, <1>4, <1>6, <1>7

(* Of one contract, of one instance key.                                   *)
LEMMA OneInstance ==
  ASSUME NEW i \in Checks, NEW j \in Checks, NEW k \in ToSet(Plan[i]), k \in ToSet(Plan[j])
  PROVE  Plan[i][1] = Plan[j][1]
<1>1. ToSet(Plan[i]) \cap ToSet(Plan[j]) # {}
  OBVIOUS
<1> QED  BY <1>1, PrefetchAssumption

LEMMA KeysApart ==
  /\ \A k \in PlannedKeys : k \notin CodeKeys /\ k # "none"
  /\ \A k \in CodeKeys : k \notin {"none", "absent", "asset", "broken", "entry"}
BY PrefetchAssumption

LEMMA JoinedIs ==
  ASSUME NEW K, todo \in Seq(K), NEW k \in K, NEW t, t = Joined(k)
  PROVE  /\ t \in Seq(K) /\ ToSet(t) = ToSet(todo) \cup {k}
         /\ \A a \in DOMAIN t : \/ a \in DOMAIN todo /\ t[a] = todo[a]
                               \/ /\ t[a] = k /\ k \notin ToSet(todo)
                                  /\ \A b \in DOMAIN t : b <= a
         /\ \A a \in DOMAIN t : a \in Nat
<1>1. CASE k \in ToSet(todo)
  <2>1. t = todo
    BY <1>1 DEF Joined
  <2>2. \A a \in DOMAIN todo : a \in Nat
    BY LenProperties
  <2> QED  BY <1>1, <2>1, <2>2
<1>2. CASE k \notin ToSet(todo)
  <2>1. t = Append(todo, k)
    BY <1>2 DEF Joined
  <2>2. /\ t \in Seq(K) /\ Len(t) = Len(todo) + 1
        /\ \A a \in 1 .. Len(todo) : t[a] = todo[a]
        /\ t[Len(todo) + 1] = k
    BY <2>1, AppendProperties
  <2>3. /\ Len(todo) \in Nat /\ DOMAIN todo = 1 .. Len(todo)
        /\ DOMAIN t = 1 .. Len(todo) + 1
    BY <2>2, LenProperties
  <2>4. \A a \in DOMAIN t : a \in DOMAIN todo \/ a = Len(todo) + 1
    BY <2>3
  <2>5. DOMAIN todo \subseteq DOMAIN t /\ Len(todo) + 1 \in DOMAIN t
    BY <2>3
  <2>6. ToSet(t) = ToSet(todo) \cup {k}
    <3>1. ASSUME NEW x \in ToSet(t) PROVE x \in ToSet(todo) \cup {k}
      <4>1. PICK a \in DOMAIN t : x = t[a]
        BY ToSetIs
      <4> QED  BY <2>2, <2>3, <2>4, <4>1, ToSetIs
    <3>2. ASSUME NEW x \in ToSet(todo) PROVE x \in ToSet(t)
      <4>1. PICK a \in DOMAIN todo : x = todo[a]
        BY ToSetIs
      <4> QED  BY <2>2, <2>3, <2>5, <4>1, ToSetIs
    <3>3. k \in ToSet(t)
      BY <2>2, <2>5, ToSetIs
    <3> QED  BY <3>1, <3>2, <3>3
  <2>7. ASSUME NEW a \in DOMAIN t
        PROVE  /\ \/ a \in DOMAIN todo /\ t[a] = todo[a]
                  \/ t[a] = k /\ \A b \in DOMAIN t : b <= a
               /\ a \in Nat
    BY <2>2, <2>3
  <2> QED  BY <1>2, <2>2, <2>6, <2>7
<1> QED  BY <1>1, <1>2

LEMMA ChunkIs ==
  ASSUME NEW K, todo \in Seq(K), todo # <<>>, NEW r, r = Rest
  PROVE  /\ ChunkLen \in Nat \ {0} /\ DOMAIN todo \subseteq Nat
         /\ \A k : k \in Chunk <=> \E a \in DOMAIN todo : a <= ChunkLen /\ k = todo[a]
         /\ r \in Seq(K) /\ DOMAIN r \subseteq Nat
         /\ \A a \in DOMAIN r : ChunkLen + a \in DOMAIN todo /\ r[a] = todo[ChunkLen + a]
         /\ \A k : k \in ToSet(r) <=> \E a \in DOMAIN todo : a > ChunkLen /\ k = todo[a]
         /\ ToSet(todo) = Chunk \cup ToSet(r)
<1> DEFINE n == ChunkLen
           L == Len(todo)
           c == SubSeq(todo, 1, n)
<1>1. L \in Nat \ {0} /\ DOMAIN todo = 1 .. L
  <2>1. L \in Nat /\ DOMAIN todo = 1 .. L
    BY LenProperties
  <2>2. L # 0
    BY EmptySeq
  <2> QED  BY <2>1, <2>2
<1>2. n \in 1 .. L
  <2>1. MaxKeys \in Nat \ {0}
    BY PrefetchAssumption
  <2>2. n \in {MaxKeys, L} /\ \A y \in {MaxKeys, L} : n <= y
    BY <1>1, <2>1, LeastIsMin DEF ChunkLen
  <2>3. n \in Nat \ {0} /\ n <= L
    <3> HIDE DEF n, L
    <3> QED  BY <1>1, <2>1, <2>2
  <2> HIDE DEF n, L
  <2> QED  BY <1>1, <2>3
<1>3. /\ c \in Seq(K) /\ Len(c) = n
      /\ \A a \in 1 .. n : c[a] = todo[a]
  BY <1>1, <1>2, SubSeqProperties
<1>4. DOMAIN c = 1 .. n
  BY <1>2, <1>3, LenProperties
<1>5. /\ r \in Seq(K) /\ Len(r) = L - n
      /\ \A a \in 1 .. L - n : r[a] = todo[n + a]
  <2>1. r = SubSeq(todo, n + 1, L)
    BY DEF Rest
  <2>2. /\ SubSeq(todo, n + 1, L) \in Seq(K)
        /\ Len(SubSeq(todo, n + 1, L)) = (IF n + 1 <= L THEN L - (n + 1) + 1 ELSE 0)
        /\ \A a \in 1 .. L - (n + 1) + 1 : SubSeq(todo, n + 1, L)[a] = todo[n + 1 + a - 1]
    <3>1. n + 1 \in 1 .. L + 1 /\ L \in n .. L
      BY <1>1, <1>2
    <3> QED  BY <1>1, <1>2, <3>1, SubSeqProperties
  <2> HIDE DEF n, L
  <2> QED  BY <1>1, <1>2, <2>1, <2>2
<1>6. DOMAIN r = 1 .. L - n
  BY <1>1, <1>2, <1>5, LenProperties
<1> HIDE DEF n, L, c
<1>7. \A k : k \in Chunk <=> \E a \in DOMAIN todo : a <= n /\ k = todo[a]
  <2>1. \A k : k \in Chunk <=> \E a \in DOMAIN c : k = c[a]
    BY ToSetIs DEF Chunk, c, n
  <2>2. \A a \in DOMAIN c : a \in DOMAIN todo /\ a <= n /\ c[a] = todo[a]
    BY <1>1, <1>2, <1>3, <1>4
  <2>3. \A a \in DOMAIN todo : a <= n => a \in DOMAIN c /\ c[a] = todo[a]
    BY <1>1, <1>2, <1>3, <1>4
  <2> QED  BY <2>1, <2>2, <2>3
<1>8. \A a \in DOMAIN r : n + a \in DOMAIN todo /\ n + a > n /\ r[a] = todo[n + a]
  BY <1>1, <1>2, <1>5, <1>6
<1>9. \A k : k \in ToSet(r) <=> \E a \in DOMAIN todo : a > n /\ k = todo[a]
  <2>1. ASSUME NEW a \in DOMAIN todo, a > n
        PROVE  a - n \in DOMAIN r /\ r[a - n] = todo[a]
    <3>1. a - n \in DOMAIN r /\ n + (a - n) = a
      BY <1>1, <1>2, <1>6, <2>1
    <3> QED  BY <1>8, <3>1
  <2> QED  BY <1>8, <2>1, ToSetIs
<1>10. ToSet(todo) = Chunk \cup ToSet(r)
  <2>1. \A a \in DOMAIN todo : a <= n \/ a > n
    BY <1>1, <1>2
  <2> QED  BY <1>7, <1>9, <2>1, ToSetIs
<1>11. DOMAIN todo \subseteq Nat /\ DOMAIN r \subseteq Nat /\ n \in Nat \ {0}
  BY <1>1, <1>2, <1>6
<1> QED  BY <1>5, <1>7, <1>8, <1>9, <1>10, <1>11 DEF n

(* The first member that is in a set is in the set.                        *)
LEMMA FirstInIs ==
  ASSUME NEW K, NEW t \in Seq(K), NEW S, ToSet(t) \cap S # {}
  PROVE  FirstIn(S, t) \in ToSet(t) \cap S
<1> DEFINE N == {n \in DOMAIN t : t[n] \in S}
<1>1. N \subseteq Nat
  <2>1. DOMAIN t = 1 .. Len(t)
    BY LenProperties
  <2> QED  BY <2>1
<1>2. N # {}
  BY ToSetIs
<1>3. Min(N) \in N
  <2> HIDE DEF N
  <2> QED  BY <1>1, <1>2, LeastIsMin
<1>6. Min(N) \in DOMAIN t /\ t[Min(N)] \in S
  BY <1>3
<1>7. FirstIn(S, t) = t[Min(N)]
  BY DEF FirstIn
<1> QED  BY <1>6, <1>7, ToSetIs

LEMMA NoneToSet == ToSet(<<>>) = {}
<1>1. DOMAIN <<>> = {}
  OBVIOUS
<1> QED  BY <1>1, ToSetIs

LEMMA InitRounds == Init => RoundsInv /\ ItemsFollow
<1> SUFFICES ASSUME Init PROVE RoundsInv /\ ItemsFollow
  OBVIOUS
<1>1. /\ phase = "plan" /\ check = 1 /\ nth = 1 /\ todo = <<>> /\ ledger = 1
      /\ Read = {} /\ DOMAIN fetched = {} /\ DOMAIN errors = {}
      /\ states = [i \in Checks |-> NoState] /\ items = <<>>
  BY DEF Init, Read
<1>2. ToSet(todo) = {} /\ DOMAIN todo = {} /\ DOMAIN items = {} /\ todo \in Seq(AllKeys)
  BY <1>1, NoneToSet
<1>3. RoundsTyped
  BY <1>1, <1>2 DEF RoundsTyped, NoState, Errors
<1>4. RoundsApart
  BY <1>1, <1>2 DEF RoundsApart
<1>5. PlannedAreRead
  <2>1. \A i \in Checks : i >= 1
    BY ChecksNumbered
  <2>2. \A i \in Checks : \A n \in DOMAIN Plan[i] : ~PlannedBefore(i, n)
    BY <1>1, <2>1, PlanIs, ChecksNumbered DEF PlannedBefore
  <2> QED  BY <1>1, <2>2 DEF PlannedAreRead
<1>6. StatesFollow
  <2>1. ASSUME NEW i \in Checks PROVE StateFollows(i)
    <3>1. states[i].err = "none" /\ states[i].codeKey = "none"
      BY <1>1 DEF NoState
    <3>2. ~(i < check) /\ ~Collected(i)
      BY <1>1, ChecksNumbered DEF Collected
    <3> QED  BY <1>1, <3>1, <3>2 DEF StateFollows, Errors
  <2> QED  BY <2>1 DEF StatesFollow
<1>7. CodesAreRead
  BY <1>1 DEF CodesAreRead, NoState
<1>8. InstanceFirst
  BY <1>1, <1>2 DEF InstanceFirst
<1>9. LedgersFollow
  BY <1>1 DEF LedgersFollow
<1> QED  BY <1>2, <1>3, <1>4, <1>5, <1>6, <1>7, <1>8, <1>9 DEF RoundsInv, ItemsFollow

(* A step that reads nothing and leaves the loops where they are.          *)
LEMMA QuietRounds ==
  ASSUME RoundsInv, UNCHANGED <<phase, check, nth, reads, states>>, items' = items \/ phase = "run"
  PROVE  RoundsInv'
<1> USE DEF reads
<1>1. RoundsTyped' /\ RoundsApart'
  BY DEF RoundsInv, RoundsTyped, RoundsApart, Read
<1>2. PlannedAreRead' /\ CodesAreRead'
  BY DEF RoundsInv, PlannedAreRead, PlannedBefore, CodesAreRead, Read
<1>3. StatesFollow'
  BY DEF RoundsInv, StatesFollow, StateFollows, Collected, Content
<1>4. InstanceFirst' /\ LedgersFollow'
  BY DEF RoundsInv, InstanceFirst, LedgersFollow
<1> QED  BY <1>1, <1>2, <1>3, <1>4 DEF RoundsInv

LEMMA PlanFailsRounds ==
  ASSUME RoundsInv, PlanFails
  PROVE  RoundsInv'
<1>1. /\ phase = "plan" /\ check \in Checks /\ Plan[check] = <<>>
      /\ states' = [states EXCEPT ![check].err = "plan"] /\ check' = check + 1
      /\ UNCHANGED <<phase, nth, todo, ledger, fetched, errors, items>>
  BY DEF PlanFails, reads, out
<1>2. RoundsTyped'
  <2>1. states' \in [Checks -> [err : {"none", "plan", "unreadable"} \cup Errors,
                                codeKey : CodeKeys \cup {"none"}]]
    BY <1>1 DEF RoundsInv, RoundsTyped
  <2>2. check' \in Nat /\ check' >= 1
    BY <1>1 DEF RoundsInv, RoundsTyped
  <2> QED  BY <1>1, <2>1, <2>2 DEF RoundsInv, RoundsTyped, Read
<1>3. RoundsApart'
  BY <1>1 DEF RoundsInv, RoundsApart, Read
<1>4. PlannedAreRead'
  <2>1. nth = 1
    BY <1>1, PlanIs, ToSetIs DEF RoundsInv, PlannedAreRead
  <2>2. \A i \in Checks : \A n \in DOMAIN Plan[i] : PlannedBefore(i, n)' => PlannedBefore(i, n)
    <3> SUFFICES ASSUME NEW i \in Checks, NEW n \in DOMAIN Plan[i], PlannedBefore(i, n)'
                 PROVE  PlannedBefore(i, n)
      OBVIOUS
    <3>1. i # check
      BY <1>1, PlanIs, ToSetIs
    <3>2. n >= 1
      BY PlanIs
    <3>3. i < check + 1
      BY <1>1, <2>1, <3>2, PlanIs, ChecksNumbered DEF PlannedBefore
    <3> QED  BY <1>1, <3>1, <3>3, ChecksNumbered DEF PlannedBefore
  <2> QED  BY <1>1, <2>1, <2>2 DEF RoundsInv, PlannedAreRead
<1>5. StatesFollow'
  <2>1. ASSUME NEW i \in Checks PROVE StateFollows(i)'
    <3>1. StateFollows(i)
      BY DEF RoundsInv, StatesFollow
    <3>2. ~Collected(i) /\ ~Collected(i)'
      BY <1>1 DEF Collected
    <3>3. CASE i = check
      <4>1. states'[i].err = "plan" /\ states'[i].codeKey = states[i].codeKey
        BY <1>1, <3>3 DEF RoundsInv, RoundsTyped
      <4> QED  BY <3>1, <3>2, <4>1 DEF StateFollows, Errors
    <3>4. CASE i # check
      <4>1. states'[i] = states[i]
        BY <1>1, <3>4 DEF RoundsInv, RoundsTyped
      <4>2. i < check' => i < check
        BY <1>1, <3>4, ChecksNumbered
      <4> QED  BY <1>1, <3>1, <3>2, <4>1, <4>2 DEF StateFollows
    <3> QED  BY <3>3, <3>4
  <2> QED  BY <2>1 DEF StatesFollow
<1>6. CodesAreRead'
  <2>1. \A i \in Checks : states'[i].codeKey = states[i].codeKey
    BY <1>1 DEF RoundsInv, RoundsTyped
  <2> QED  BY <1>1, <2>1 DEF RoundsInv, CodesAreRead, Read
<1>7. InstanceFirst' /\ LedgersFollow'
  BY <1>1 DEF RoundsInv, InstanceFirst, LedgersFollow
<1> QED  BY <1>2, <1>3, <1>4, <1>5, <1>6, <1>7 DEF RoundsInv

LEMMA PlanKeyRounds ==
  ASSUME RoundsInv, PlanKey
  PROVE  RoundsInv'
<1> DEFINE k == Plan[check][nth]
<1>1. /\ phase = "plan" /\ check \in Checks /\ nth \in DOMAIN Plan[check]
      /\ todo' = Joined(k)
      /\ \/ nth = Len(Plan[check]) /\ check' = check + 1 /\ nth' = 1
         \/ nth # Len(Plan[check]) /\ check' = check /\ nth' = nth + 1
      /\ UNCHANGED <<phase, ledger, fetched, errors, states, items>>
  BY DEF PlanKey, out
<1>2. k \in ToSet(Plan[check]) /\ k \in PlannedKeys /\ k \in AllKeys
  BY <1>1, PlanIs DEF AllKeys
<1> HIDE DEF k
<1>3. todo \in Seq(AllKeys)
  BY DEF RoundsInv, RoundsTyped
<1>4. /\ todo' \in Seq(AllKeys) /\ ToSet(todo') = ToSet(todo) \cup {k}
      /\ \A a \in DOMAIN todo' : \/ a \in DOMAIN todo /\ todo'[a] = todo[a]
                                 \/ /\ todo'[a] = k /\ k \notin ToSet(todo)
                                    /\ \A b \in DOMAIN todo' : b <= a
      /\ \A a \in DOMAIN todo' : a \in Nat
  BY <1>1, <1>2, <1>3, JoinedIs
<1>5. RoundsTyped'
  <2>1. check' \in Nat /\ check' >= 1 /\ nth' \in Nat /\ nth' >= 1
    BY <1>1 DEF RoundsInv, RoundsTyped
  <2> QED  BY <1>1, <1>4, <2>1 DEF RoundsInv, RoundsTyped, Read
<1>6. RoundsApart'
  BY <1>1, <1>2, <1>4 DEF RoundsInv, RoundsApart, Read
<1>7. PlannedAreRead'
  <2>1. ASSUME NEW i \in Checks, NEW n \in DOMAIN Plan[i], PlannedBefore(i, n)'
        PROVE  Plan[i][n] \in ToSet(todo')
    <3>0. n \in 1 .. Len(Plan[i]) /\ Len(Plan[i]) \in Nat
      BY PlanIs
    <3>1. /\ i \in Nat /\ n \in Nat /\ n >= 1 /\ (i = check => n <= Len(Plan[check]))
          /\ check \in Nat /\ nth \in Nat
      BY <3>0, ChecksNumbered DEF RoundsInv, RoundsTyped
    <3>2. PlannedBefore(i, n) \/ (i = check /\ n = nth)
      BY <1>1, <2>1, <3>1 DEF PlannedBefore
    <3> QED  BY <1>1, <1>4, <3>2 DEF RoundsInv, PlannedAreRead, k
  <2>2. check' \in Checks => nth' = 1 \/ nth' \in DOMAIN Plan[check']
    BY <1>1, PlanIs
  <2> QED  BY <1>1, <2>1, <2>2 DEF PlannedAreRead
<1>8. StatesFollow'
  <2>1. ASSUME NEW i \in Checks PROVE StateFollows(i)'
    <3>1. StateFollows(i) /\ ~Collected(i) /\ ~Collected(i)'
      BY <1>1 DEF RoundsInv, StatesFollow, Collected
    <3>2. Plan[i] = <<>> => i # check
      BY <1>1, PlanIs, ToSetIs
    <3>3. Plan[i] = <<>> /\ i < check' => i < check
      BY <1>1, <3>2, ChecksNumbered
    <3> QED  BY <1>1, <3>1, <3>3 DEF StateFollows
  <2> QED  BY <2>1 DEF StatesFollow
<1>9. CodesAreRead'
  BY <1>1, <1>4 DEF RoundsInv, CodesAreRead, Read
<1>10. InstanceFirst'
  <2>1. nth = 1 \/ Plan[check][1] \in ToSet(todo)
    <3>1. nth \in Nat /\ nth >= 1 /\ 1 \in DOMAIN Plan[check] /\ (nth # 1 => 1 < nth)
      BY <1>1, PlanIs
    <3> QED  BY <1>1, <3>1 DEF RoundsInv, PlannedAreRead, PlannedBefore
  <2>2. Plan[check][1] \in ToSet(todo')
    BY <1>4, <2>1 DEF k
  <2>3. ASSUME NEW i \in Checks, NEW x \in ToSet(Plan[i])
        PROVE  x \in ToSet(todo') => Plan[i][1] \in ToSet(todo')
    <3>1. x = k => Plan[i][1] = Plan[check][1]
      BY <1>1, <1>2, OneInstance
    <3>2. x \in ToSet(todo) => Plan[i][1] \in ToSet(todo)
      BY <1>1 DEF RoundsInv, InstanceFirst
    <3> QED  BY <1>4, <2>2, <3>1, <3>2
  <2>4. ASSUME NEW i \in Checks, NEW x \in ToSet(Plan[i]), NEW a \in DOMAIN todo', NEW b \in DOMAIN todo',
               todo'[a] = Plan[i][1], todo'[b] = x
        PROVE  a <= b
    <3>1. a \in DOMAIN todo /\ b \in DOMAIN todo /\ todo'[a] = todo[a] /\ todo'[b] = todo[b] => a <= b
      BY <2>4 DEF RoundsInv, InstanceFirst
    <3>2. ASSUME todo'[a] = k, k \notin ToSet(todo), \A c \in DOMAIN todo' : c <= a PROVE a <= b
      <4>1. Plan[i][1] = k
        BY <2>4, <3>2
      <4>2. x \notin ToSet(todo)
        BY <1>1, <3>2, <4>1 DEF RoundsInv, InstanceFirst
      <4>3. b \notin DOMAIN todo \/ todo'[b] # todo[b]
        BY <2>4, <4>2, ToSetIs
      <4>4. \A c \in DOMAIN todo' : c <= b
        BY <1>4, <4>3
      <4> QED  BY <4>4
    <3> QED  BY <1>4, <3>1, <3>2
  <2> QED  BY <1>1, <2>3, <2>4 DEF InstanceFirst
<1>11. LedgersFollow'
  <2>1. DOMAIN fetched' = {}
    BY <1>1 DEF RoundsInv, RoundsApart, Read
  <2> QED  BY <2>1 DEF LedgersFollow
<1> QED  BY <1>5, <1>6, <1>7, <1>8, <1>9, <1>10, <1>11 DEF RoundsInv

(* The end of a loop over the checks: all of them are planned, or all      *)
(* collected.                                                              *)
LEMMA LoopEndsRounds ==
  ASSUME RoundsInv, LoopEnds
  PROVE  RoundsInv'
<1>1. /\ check \notin Checks /\ check' = 1
      /\ \/ phase = "plan" /\ phase' = "initial"
         \/ phase = "collect" /\ phase' = "code"
      /\ UNCHANGED <<nth, todo, ledger, fetched, errors, states, items>>
  BY DEF LoopEnds, reads, out
<1>2. \A i \in Checks : i < check
  BY <1>1, ChecksNumbered DEF RoundsInv, RoundsTyped
<1>3. RoundsTyped' /\ RoundsApart'
  BY <1>1 DEF RoundsInv, RoundsTyped, RoundsApart, Read
<1>4. phase = "plan" => PlannedKeys \subseteq ToSet(todo)
  <2> SUFFICES ASSUME phase = "plan", NEW k \in PlannedKeys PROVE k \in ToSet(todo)
    OBVIOUS
  <2>1. PICK i \in Checks : k \in ToSet(Plan[i])
    BY DEF PlannedKeys
  <2>2. PICK n \in DOMAIN Plan[i] : k = Plan[i][n]
    BY <2>1, ToSetIs
  <2> QED  BY <1>2, <2>2 DEF RoundsInv, PlannedAreRead, PlannedBefore
<1>5. PlannedAreRead'
  BY <1>1, <1>4 DEF RoundsInv, PlannedAreRead, Read
<1>6. StatesFollow'
  <2>1. ASSUME NEW i \in Checks PROVE StateFollows(i)'
    <3>1. StateFollows(i) /\ Collected(i)' = Collected(i)
      BY <1>1, <1>2 DEF RoundsInv, StatesFollow, Collected
    <3>2. Content(Plan[i][1])' = Content(Plan[i][1])
      BY <1>1 DEF Content
    <3> QED  BY <1>1, <1>2, <3>1, <3>2 DEF StateFollows
  <2> QED  BY <2>1 DEF StatesFollow
<1>7. CodesAreRead' /\ LedgersFollow'
  BY <1>1 DEF RoundsInv, CodesAreRead, LedgersFollow, Read
<1>8. InstanceFirst'
  <2>1. ASSUME NEW i \in Checks, NEW k \in ToSet(Plan[i])
        PROVE  phase' = "initial" => k \in ToSet(todo')
    BY <1>1, <1>4, PlanIs
  <2> QED  BY <1>1, <2>1 DEF RoundsInv, InstanceFirst
<1> QED  BY <1>3, <1>5, <1>6, <1>7, <1>8 DEF RoundsInv

(* Some keys of the round have been asked for, and read or failed.         *)
LEMMA FetchRounds ==
  ASSUME RoundsInv, Fetching, UNCHANGED <<phase, check, nth, states, items>>, NEW asked,
         ToSet(todo) = asked \cup ToSet(todo'), todo' \in Seq(AllKeys),
         Read' = Read \cup asked, DOMAIN errors \subseteq DOMAIN errors',
         \A k \in DOMAIN errors' : errors'[k] \in Errors,
         ledger' \in Nat,
         \A k \in DOMAIN fetched' : fetched'[k].ledger \in Nat /\ fetched'[k].ledger <= ledger'
                                    /\ fetched'[k].content \in Contents(k),
         \A k : k \notin asked => (k \in DOMAIN fetched' <=> k \in DOMAIN fetched),
         \A k \in DOMAIN fetched : k \notin asked => fetched'[k] = fetched[k],
         InstanceFirst', LedgersFollow'
  PROVE  RoundsInv'
<1>0. phase \in {"initial", "code"}
  BY DEF Fetching
<1>1. ToSet(todo) \subseteq AllKeys
  BY ToSetIs DEF RoundsInv, RoundsTyped
<1>2. RoundsTyped'
  <2>1. Read' \subseteq AllKeys
    BY <1>1 DEF RoundsInv, RoundsTyped
  <2> QED  BY <2>1 DEF RoundsInv, RoundsTyped
<1>3. RoundsApart'
  BY <1>0 DEF RoundsInv, RoundsApart
<1>4. PlannedAreRead'
  BY <1>0 DEF RoundsInv, PlannedAreRead
<1>5. StatesFollow'
  <2>1. ASSUME NEW i \in Checks PROVE StateFollows(i)'
    <3>1. StateFollows(i) /\ Collected(i)' = Collected(i)
      BY DEF RoundsInv, StatesFollow, Collected
    <3>2. CASE Plan[i] = <<>>
      <4>1. states[i].err = "plan"
        BY <1>0, <3>1, <3>2 DEF StateFollows
      <4> QED  BY <3>1, <4>1 DEF StateFollows, Errors
    <3>3. CASE phase = "initial"
      <4>1. ~Collected(i)
        BY <3>3 DEF Collected
      <4> QED  BY <3>1, <3>3, <4>1 DEF StateFollows
    <3>4. CASE phase = "code" /\ Plan[i] # <<>>
      <4>1. Plan[i][1] \notin asked
        <5>1. Plan[i][1] \in PlannedKeys
          BY <3>4, PlanIs
        <5>2. asked \subseteq CodeKeys
          BY <3>4 DEF RoundsInv, RoundsApart
        <5> QED  BY <5>1, <5>2, KeysApart
      <4>2. Content(Plan[i][1])' = Content(Plan[i][1])
        BY <4>1 DEF Content
      <4> QED  BY <3>1, <4>2 DEF StateFollows
    <3> QED  BY <1>0, <3>2, <3>3, <3>4
  <2> QED  BY <2>1 DEF StatesFollow
<1>6. CodesAreRead'
  BY DEF RoundsInv, CodesAreRead
<1> QED  BY <1>2, <1>3, <1>4, <1>5, <1>6 DEF RoundsInv

(* The rest of a round is in the order of the round.                       *)
LEMMA RestInstanceFirst ==
  ASSUME RoundsInv, Fetching, phase' = phase, todo' = Rest
  PROVE  InstanceFirst'
<1> DEFINE n == ChunkLen
<1>0. todo \in Seq(AllKeys) /\ todo # <<>> /\ phase # "plan"
  BY DEF RoundsInv, RoundsTyped, Fetching
<1>1. /\ n \in Nat /\ DOMAIN todo \subseteq Nat /\ DOMAIN todo' \subseteq Nat
      /\ \A a \in DOMAIN todo' : n + a \in DOMAIN todo /\ todo'[a] = todo[n + a]
      /\ \A k : k \in ToSet(todo') <=> \E a \in DOMAIN todo : a > n /\ k = todo[a]
  BY <1>0, ChunkIs
<1> HIDE DEF n
<1>2. ASSUME NEW i \in Checks, NEW k \in ToSet(Plan[i])
      PROVE  /\ phase = "initial" /\ Plan[i][1] \in ToSet(todo') => k \in ToSet(todo')
             /\ \A a, b \in DOMAIN todo' : todo'[a] = Plan[i][1] /\ todo'[b] = k => a <= b
  <2>1. /\ phase = "initial" /\ Plan[i][1] \in ToSet(todo) => k \in ToSet(todo)
        /\ \A a, b \in DOMAIN todo : todo[a] = Plan[i][1] /\ todo[b] = k => a <= b
    BY DEF RoundsInv, InstanceFirst
  <2>2. ASSUME phase = "initial", Plan[i][1] \in ToSet(todo') PROVE k \in ToSet(todo')
    <3>1. PICK a \in DOMAIN todo : a > n /\ Plan[i][1] = todo[a]
      BY <1>1, <2>2
    <3>2. PICK b \in DOMAIN todo : k = todo[b]
      BY <2>1, <2>2, <3>1, ToSetIs
    <3>3. a <= b
      BY <2>1, <3>1, <3>2
    <3>4. b > n
      BY <1>1, <3>1, <3>3
    <3> QED  BY <1>1, <3>2, <3>4
  <2>3. ASSUME NEW a \in DOMAIN todo', NEW b \in DOMAIN todo', todo'[a] = Plan[i][1], todo'[b] = k
        PROVE  a <= b
    <3>1. n + a <= n + b
      BY <1>1, <2>1, <2>3
    <3> QED  BY <1>1, <3>1
  <2> QED  BY <2>2, <2>3
<1> QED  BY <1>0, <1>2 DEF InstanceFirst

LEMMA AnsweredRounds ==
  ASSUME RoundsInv, Fetching, UNCHANGED <<phase, check, nth, states, items>>, ChunkAnswered(Rest)
  PROVE  RoundsInv'
<1>1. PICK l \in ledger .. MaxLedger, c \in [Chunk -> UNION {Contents(k) : k \in Chunk}] :
          /\ \A k \in Chunk : c[k] \in Contents(k)
          /\ ledger' = l
          /\ fetched' = Put(fetched, [k \in Chunk |-> [ledger |-> l, content |-> c[k]]])
  BY DEF ChunkAnswered
<1>2. todo' = Rest /\ errors' = errors
  BY DEF ChunkAnswered
<1>3. todo \in Seq(AllKeys) /\ todo # <<>> /\ ledger \in Nat /\ MaxLedger \in Nat
  BY PrefetchAssumption DEF RoundsInv, RoundsTyped, Fetching
<1>4. /\ todo' \in Seq(AllKeys) /\ ToSet(todo) = Chunk \cup ToSet(todo')
      /\ DOMAIN todo \subseteq Nat /\ ChunkLen \in Nat
      /\ \A k : k \in Chunk <=> \E a \in DOMAIN todo : a <= ChunkLen /\ k = todo[a]
  BY <1>2, <1>3, ChunkIs
<1>5. l \in Nat /\ ledger <= l
  BY <1>1, <1>3
<1>6. /\ DOMAIN fetched' = DOMAIN fetched \cup Chunk
      /\ \A k \in Chunk : fetched'[k].ledger = l /\ fetched'[k].content \in Contents(k)
      /\ \A k \in DOMAIN fetched : k \notin Chunk => fetched'[k] = fetched[k]
  <2> DEFINE new == [k \in Chunk |-> [ledger |-> l, content |-> c[k]]]
  <2>1. DOMAIN new = Chunk /\ \A k \in Chunk : new[k].ledger = l /\ new[k].content = c[k]
    OBVIOUS
  <2>2. fetched' = Put(fetched, new)
    BY <1>1
  <2> HIDE DEF new
  <2>3. /\ DOMAIN fetched' = DOMAIN fetched \cup DOMAIN new
        /\ \A k \in DOMAIN new : fetched'[k] = new[k]
        /\ \A k \in DOMAIN fetched : k \notin DOMAIN new => fetched'[k] = fetched[k]
    BY <2>2 DEF Put
  <2> QED  BY <1>1, <2>1, <2>3
<1>7. \A k \in DOMAIN fetched' : fetched'[k].ledger \in Nat /\ fetched'[k].ledger <= l
                                 /\ fetched'[k].content \in Contents(k)
  <2> SUFFICES ASSUME NEW k \in DOMAIN fetched'
               PROVE  fetched'[k].ledger \in Nat /\ fetched'[k].ledger <= l
                      /\ fetched'[k].content \in Contents(k)
    OBVIOUS
  <2>1. CASE k \in Chunk
    BY <1>5, <1>6, <2>1
  <2>2. CASE k \notin Chunk
    <3>1. k \in DOMAIN fetched /\ fetched'[k] = fetched[k]
      BY <1>6, <2>2
    <3>2. fetched[k].ledger \in Nat /\ fetched[k].ledger <= ledger /\ fetched[k].content \in Contents(k)
      BY <3>1 DEF RoundsInv, RoundsTyped
    <3> QED  BY <1>3, <1>5, <3>1, <3>2
  <2> QED  BY <2>1, <2>2
<1>8. InstanceFirst'
  BY <1>2, RestInstanceFirst
<1>9. LedgersFollow'
  <2>1. ASSUME NEW k \in DOMAIN fetched', NEW h \in DOMAIN fetched', k \in Chunk
        PROVE  fetched'[h].ledger <= fetched'[k].ledger
    BY <1>6, <1>7, <2>1
  <2>2. ASSUME NEW i \in Checks, NEW k \in ToSet(Plan[i]),
               k \in DOMAIN fetched' \ (ToSet(todo') \cup DOMAIN errors'), Plan[i][1] \in DOMAIN fetched'
        PROVE  fetched'[Plan[i][1]].ledger <= fetched'[k].ledger
    <3>1. CASE k \in Chunk
      BY <2>1, <2>2, <3>1
    <3>2. CASE k \notin Chunk
      <4>1. k \in DOMAIN fetched /\ k \notin ToSet(todo) \cup DOMAIN errors /\ fetched'[k] = fetched[k]
        BY <1>2, <1>4, <1>6, <2>2, <3>2
      <4>2. Plan[i][1] \notin Chunk
        <5>1. Plan[i][1] \in PlannedKeys
          BY <2>2, PlanIs
        <5>2. phase = "initial" => Plan[i][1] \notin ToSet(todo)
          BY <4>1 DEF RoundsInv, InstanceFirst
        <5>3. phase = "code" => Plan[i][1] \notin ToSet(todo)
          BY <5>1, KeysApart DEF RoundsInv, RoundsApart
        <5> QED  BY <1>4, <5>2, <5>3 DEF Fetching
      <4>3. Plan[i][1] \in DOMAIN fetched /\ fetched'[Plan[i][1]] = fetched[Plan[i][1]]
        BY <1>6, <2>2, <4>2
      <4> QED  BY <4>1, <4>3 DEF RoundsInv, LedgersFollow
    <3> QED  BY <3>1, <3>2
  <2>3. ASSUME NEW k \in PlannedKeys \cap DOMAIN fetched', NEW c2 \in CodeKeys \cap DOMAIN fetched'
        PROVE  fetched'[k].ledger <= fetched'[c2].ledger
    <3>1. CASE c2 \in Chunk
      BY <2>1, <3>1
    <3>2. CASE c2 \notin Chunk
      <4>1. c2 \in DOMAIN fetched /\ fetched'[c2] = fetched[c2]
        BY <1>6, <3>2
      <4>2. phase = "code"
        <5>1. c2 \in Read /\ c2 \notin PlannedKeys
          BY <4>1, KeysApart DEF Read
        <5> QED  BY <5>1 DEF RoundsInv, RoundsApart, Fetching
      <4>3. k \notin Chunk
        BY <1>4, <4>2, KeysApart DEF RoundsInv, RoundsApart
      <4>4. k \in DOMAIN fetched /\ fetched'[k] = fetched[k]
        BY <1>6, <4>3
      <4> QED  BY <4>1, <4>4 DEF RoundsInv, LedgersFollow
    <3> QED  BY <3>1, <3>2
  <2> QED  BY <2>2, <2>3 DEF LedgersFollow
<1>10. Read' = Read \cup Chunk
  BY <1>2, <1>6 DEF Read
<1>11. \A k \in DOMAIN errors' : errors'[k] \in Errors
  BY <1>2 DEF RoundsInv, RoundsTyped
<1>12. \A k : k \notin Chunk => (k \in DOMAIN fetched' <=> k \in DOMAIN fetched)
  BY <1>6
<1> HIDE DEF Chunk
<1> QED  BY <1>1, <1>2, <1>4, <1>5, <1>6, <1>7, <1>8, <1>9, <1>10, <1>11, <1>12, FetchRounds

(* Errors of a chunk, or of all the keys that are left.                    *)
LEMMA ErrorsRounds ==
  ASSUME RoundsInv, Fetching, UNCHANGED <<phase, check, nth, states, items, ledger, fetched>>,
         NEW asked, NEW e \in Errors, errors' = Put(errors, [k \in asked |-> e]),
         ToSet(todo) = asked \cup ToSet(todo'), todo' \in Seq(AllKeys), InstanceFirst'
  PROVE  RoundsInv'
<1>1. /\ DOMAIN errors' = DOMAIN errors \cup asked
      /\ \A k \in asked : errors'[k] = e
      /\ \A k \in DOMAIN errors : k \notin asked => errors'[k] = errors[k]
  <2> DEFINE new == [k \in asked |-> e]
  <2>1. DOMAIN new = asked /\ \A k \in asked : new[k] = e
    OBVIOUS
  <2>2. errors' = Put(errors, new)
    OBVIOUS
  <2> HIDE DEF new
  <2>3. /\ DOMAIN errors' = DOMAIN errors \cup DOMAIN new
        /\ \A k \in DOMAIN new : errors'[k] = new[k]
        /\ \A k \in DOMAIN errors : k \notin DOMAIN new => errors'[k] = errors[k]
    BY <2>2 DEF Put
  <2> QED  BY <2>1, <2>3
<1>2. \A k \in DOMAIN errors' : errors'[k] \in Errors
  BY <1>1 DEF RoundsInv, RoundsTyped
<1>3. Read' = Read \cup asked
  BY <1>1 DEF Read
<1>4. LedgersFollow'
  <2>1. ASSUME NEW i \in Checks, NEW k \in ToSet(Plan[i]),
               k \in DOMAIN fetched \ (ToSet(todo') \cup DOMAIN errors'), Plan[i][1] \in DOMAIN fetched
        PROVE  fetched[Plan[i][1]].ledger <= fetched[k].ledger
    <3>1. k \notin ToSet(todo) /\ k \notin DOMAIN errors
      BY <1>1, <2>1
    <3> QED  BY <2>1, <3>1 DEF RoundsInv, LedgersFollow
  <2> QED  BY <2>1 DEF RoundsInv, LedgersFollow
<1>5. ledger' \in Nat /\ \A k \in DOMAIN fetched' :
          fetched'[k].ledger \in Nat /\ fetched'[k].ledger <= ledger' /\ fetched'[k].content \in Contents(k)
  BY DEF RoundsInv, RoundsTyped
<1> QED  BY <1>1, <1>2, <1>3, <1>4, <1>5, FetchRounds

LEMMA FetchChunkRounds ==
  ASSUME RoundsInv, FetchChunk
  PROVE  RoundsInv'
<1>1. Fetching /\ UNCHANGED <<phase, check, nth, states, items>>
  BY DEF FetchChunk, out
<1>2. CASE ChunkAnswered(Rest)
  BY <1>1, <1>2, AnsweredRounds
<1>3. CASE ChunkFailed(Rest)
  <2>1. /\ errors' = Put(errors, [k \in Chunk |-> "rpc"]) /\ todo' = Rest
        /\ UNCHANGED <<ledger, fetched>>
    BY <1>3 DEF ChunkFailed
  <2>2. todo \in Seq(AllKeys) /\ todo # <<>>
    BY <1>1 DEF RoundsInv, RoundsTyped, Fetching
  <2>3. todo' \in Seq(AllKeys) /\ ToSet(todo) = Chunk \cup ToSet(todo')
    BY <2>1, <2>2, ChunkIs
  <2>4. InstanceFirst'
    BY <1>1, <2>1, RestInstanceFirst
  <2>5. "rpc" \in Errors
    BY DEF Errors
  <2> HIDE DEF Chunk
  <2> QED  BY <1>1, <2>1, <2>3, <2>4, <2>5, ErrorsRounds
<1> QED  BY <1>2, <1>3 DEF FetchChunk

LEMMA FetchAbandonedRounds ==
  ASSUME RoundsInv, FetchAbandoned
  PROVE  RoundsInv'
<1>1. /\ Fetching /\ UNCHANGED <<phase, check, nth, states, items, ledger, fetched>>
      /\ errors' = Put(errors, [k \in ToSet(todo) |-> "canceled"]) /\ todo' = <<>>
  BY DEF FetchAbandoned, out
<1>2. todo' \in Seq(AllKeys) /\ DOMAIN todo' = {} /\ ToSet(todo') = {}
  BY <1>1, NoneToSet
<1>3. ToSet(todo) = ToSet(todo) \cup ToSet(todo')
  BY <1>2
<1>4. InstanceFirst'
  BY <1>1, <1>2 DEF InstanceFirst, Fetching
<1>5. "canceled" \in Errors
  BY DEF Errors
<1> QED  BY <1>1, <1>2, <1>3, <1>4, <1>5, ErrorsRounds

(* The content of an instance that was read, or absent.                    *)
LEMMA HeldIs ==
  ASSUME RoundsInv, NEW i \in Checks, Plan[i] # <<>>
  PROVE  Content(Plan[i][1]) \in {"absent", "asset", "broken"} \cup CodeKeys
<1> DEFINE k == Plan[i][1]
<1>1. k \in InstanceKeys
  BY DEF InstanceKeys
<1>2. Contents(k) = {"absent", "asset", "broken"} \cup CodeKeys
  BY <1>1 DEF Contents
<1>3. k \in DOMAIN fetched => fetched[k].content \in Contents(k)
  BY DEF RoundsInv, RoundsTyped
<1> QED  BY <1>2, <1>3 DEF Content

(* What the second loop finds.                                             *)
LEMMA AfterIs ==
  ASSUME RoundsInv, NEW i \in Checks, Plan[i] # <<>>,
         NEW after, after = StateAfterInitial(i)
  PROVE  /\ after.err \in {"none", "unreadable"} \cup Errors
         /\ after.codeKey \in CodeKeys \cup {"none"}
         /\ after \in [err : {"none", "plan", "unreadable"} \cup Errors, codeKey : CodeKeys \cup {"none"}]
         /\ after.codeKey # "none" => after.err = "none"
         /\ after.err \in Errors => ToSet(Plan[i]) \cap DOMAIN errors # {}
         /\ after.err = "none" =>
               IF Content(Plan[i][1]) \in CodeKeys THEN after.codeKey = Content(Plan[i][1])
                                                   ELSE after.codeKey = "none"
<1> DEFINE held == Content(Plan[i][1])
           fails == ToSet(Plan[i]) \cap DOMAIN errors # {}
<1>1. held \in {"absent", "asset", "broken"} \cup CodeKeys
  BY HeldIs
<1>2. /\ fails => after = [err |-> errors[FirstIn(DOMAIN errors, Plan[i])], codeKey |-> "none"]
      /\ ~fails /\ held = "broken" => after = [err |-> "unreadable", codeKey |-> "none"]
      /\ ~fails /\ held \in CodeKeys => after = [err |-> "none", codeKey |-> held]
      /\ ~fails /\ held \in {"absent", "asset"} => after = NoState
  <2>1. held = "broken" => held \notin CodeKeys
    BY KeysApart
  <2>2. held \in {"absent", "asset"} => held \notin CodeKeys /\ held # "broken"
    BY KeysApart
  <2> HIDE DEF held, fails
  <2>3. after = CASE fails                           -> [err |-> errors[FirstIn(DOMAIN errors, Plan[i])],
                                                         codeKey |-> "none"]
                  [] ~fails /\ held = "broken"       -> [err |-> "unreadable", codeKey |-> "none"]
                  [] ~fails /\ held \in CodeKeys     -> [err |-> "none", codeKey |-> held]
                  [] ~fails /\ held \in {"absent", "asset"} -> NoState
    BY DEF StateAfterInitial, held, fails
  <2> QED  BY <2>1, <2>2, <2>3
<1> HIDE DEF held
<1>3. CASE fails
  <2>1. FirstIn(DOMAIN errors, Plan[i]) \in DOMAIN errors
    BY <1>3, PlanIs, FirstInIs
  <2>2. errors[FirstIn(DOMAIN errors, Plan[i])] \in Errors
    BY <2>1 DEF RoundsInv, RoundsTyped
  <2>3. after.err \in Errors /\ after.codeKey = "none" /\ after.err # "none"
    BY <1>2, <1>3, <2>2 DEF Errors
  <2>4. after \in [err : {"none", "plan", "unreadable"} \cup Errors, codeKey : CodeKeys \cup {"none"}]
    BY <1>2, <1>3, <2>2
  <2> QED  BY <1>3, <2>3, <2>4
<1> HIDE DEF fails
<1>4. CASE ~fails /\ held = "broken"
  BY <1>2, <1>4 DEF Errors
<1>5. CASE ~fails /\ held \in CodeKeys
  BY <1>2, <1>5 DEF Errors, held
<1>6. CASE ~fails /\ held \in {"absent", "asset"}
  <2>1. held \notin CodeKeys
    BY <1>6, KeysApart
  <2> QED  BY <1>2, <1>6, <2>1 DEF Errors, held, NoState
<1> QED  BY <1>1, <1>3, <1>4, <1>5, <1>6

LEMMA CollectCodeKeyRounds ==
  ASSUME RoundsInv, CollectCodeKey
  PROVE  RoundsInv'
<1>1. PICK after :
         /\ after = IF states[check].err = "none" THEN StateAfterInitial(check) ELSE states[check]
         /\ states' = [states EXCEPT ![check] = after]
         /\ todo' = IF after.codeKey = "none" THEN todo ELSE Joined(after.codeKey)
  BY DEF CollectCodeKey
<1>2. /\ phase = "collect" /\ check \in Checks /\ check' = check + 1
      /\ UNCHANGED <<phase, nth, ledger, fetched, errors, items>>
  BY DEF CollectCodeKey, out
<1>3. StateFollows(check) /\ ~Collected(check)
  BY <1>2, ChecksNumbered DEF RoundsInv, StatesFollow, Collected
<1>4. states[check].err = "none" => Plan[check] # <<>>
  BY <1>2, <1>3 DEF StateFollows
<1>5. /\ after \in [err : {"none", "plan", "unreadable"} \cup Errors, codeKey : CodeKeys \cup {"none"}]
      /\ after.codeKey # "none" => after.err = "none"
      /\ after.err \in Errors => ToSet(Plan[check]) \cap DOMAIN errors # {}
      /\ Plan[check] = <<>> => after.err = "plan"
      /\ after.err = "none" =>
            IF Content(Plan[check][1]) \in CodeKeys THEN after.codeKey = Content(Plan[check][1])
                                                    ELSE after.codeKey = "none"
  <2>1. CASE states[check].err = "none"
    <3>1. after = StateAfterInitial(check) /\ Plan[check] # <<>>
      BY <1>1, <1>4, <2>1
    <3> QED  BY <1>2, <3>1, AfterIs
  <2>2. CASE states[check].err # "none"
    <3>1. after = states[check] /\ states[check].err # "none" /\ states[check].codeKey = "none"
      BY <1>1, <1>3, <2>2 DEF StateFollows
    <3>2. after \in [err : {"none", "plan", "unreadable"} \cup Errors, codeKey : CodeKeys \cup {"none"}]
      BY <1>2, <3>1 DEF RoundsInv, RoundsTyped
    <3> QED  BY <1>2, <1>3, <3>1, <3>2 DEF StateFollows
  <2> QED  BY <2>1, <2>2
<1>6. /\ states' \in [Checks -> [err : {"none", "plan", "unreadable"} \cup Errors,
                                codeKey : CodeKeys \cup {"none"}]]
      /\ states'[check] = after
      /\ \A i \in Checks : i # check => states'[i] = states[i]
  BY <1>1, <1>2, <1>5 DEF RoundsInv, RoundsTyped
<1>7. /\ todo' \in Seq(AllKeys) /\ ToSet(todo') \subseteq CodeKeys /\ ToSet(todo) \subseteq ToSet(todo')
      /\ after.codeKey # "none" => after.codeKey \in ToSet(todo')
  <2>1. todo \in Seq(AllKeys) /\ ToSet(todo) \subseteq CodeKeys
    BY <1>2 DEF RoundsInv, RoundsTyped, RoundsApart
  <2>2. CASE after.codeKey = "none"
    BY <1>1, <2>1, <2>2
  <2>3. CASE after.codeKey # "none"
    <3>1. todo' = Joined(after.codeKey) /\ after.codeKey \in CodeKeys /\ after.codeKey \in AllKeys
      BY <1>1, <1>5, <2>3 DEF AllKeys
    <3>2. todo' \in Seq(AllKeys) /\ ToSet(todo') = ToSet(todo) \cup {after.codeKey}
      BY <2>1, <3>1, JoinedIs
    <3> QED  BY <2>1, <3>1, <3>2
  <2> QED  BY <2>2, <2>3
<1>8. RoundsTyped'
  <2>1. check' \in Nat /\ check' >= 1
    BY <1>2 DEF RoundsInv, RoundsTyped
  <2> QED  BY <1>2, <1>6, <1>7, <2>1 DEF RoundsInv, RoundsTyped, Read
<1>9. RoundsApart'
  BY <1>2, <1>7 DEF RoundsInv, RoundsApart, Read
<1>10. PlannedAreRead'
  BY <1>2 DEF RoundsInv, PlannedAreRead, Read
<1>11. StatesFollow'
  <2>1. ASSUME NEW i \in Checks PROVE StateFollows(i)'
    <3>0. Content(Plan[i][1])' = Content(Plan[i][1])
      BY <1>2 DEF Content
    <3>1. CASE i = check
      <4>1. Collected(i)' /\ states'[i] = after
        BY <1>2, <1>6, <3>1, ChecksNumbered DEF Collected
      <4> QED  BY <1>2, <1>5, <3>0, <3>1, <4>1 DEF StateFollows
    <3>2. CASE i # check
      <4>1. StateFollows(i) /\ states'[i] = states[i] /\ (Collected(i)' <=> Collected(i))
        BY <1>2, <1>6, <3>2, ChecksNumbered DEF RoundsInv, StatesFollow, Collected
      <4> QED  BY <1>2, <3>0, <4>1 DEF StateFollows
    <3> QED  BY <3>1, <3>2
  <2> QED  BY <2>1 DEF StatesFollow
<1>12. CodesAreRead'
  <2>1. ASSUME NEW i \in Checks, states'[i].codeKey # "none"
        PROVE  states'[i].codeKey \in ToSet(todo') \cup Read
    BY <1>6, <1>7, <2>1 DEF RoundsInv, CodesAreRead
  <2> QED  BY <1>2, <2>1 DEF CodesAreRead, Read
<1>13. InstanceFirst'
  <2>1. ASSUME NEW i \in Checks, NEW k \in ToSet(Plan[i]), NEW b \in DOMAIN todo', todo'[b] = k
        PROVE  FALSE
    <3>1. k \in CodeKeys
      BY <1>7, <2>1, ToSetIs
    <3> QED  BY <2>1, <3>1, PlanIs, KeysApart
  <2> QED  BY <1>2, <2>1 DEF InstanceFirst
<1>14. LedgersFollow'
  <2>1. ToSet(todo) \subseteq ToSet(todo')
    BY <1>7
  <2> QED  BY <1>2, <2>1 DEF RoundsInv, LedgersFollow
<1> QED  BY <1>8, <1>9, <1>10, <1>11, <1>12, <1>13, <1>14 DEF RoundsInv

(* A round is over.                                                        *)
LEMMA FetchEndsRounds ==
  ASSUME RoundsInv, FetchEnds
  PROVE  RoundsInv'
<1>1. /\ todo = <<>>
      /\ \/ phase = "initial" /\ phase' = "collect"
         \/ phase = "code" /\ phase' = "run"
      /\ UNCHANGED <<check, nth, todo, ledger, fetched, errors, states, items>>
  BY DEF FetchEnds, reads, out
<1>2. ToSet(todo) = {} /\ DOMAIN todo = {}
  BY <1>1, NoneToSet
<1>3. RoundsTyped' /\ RoundsApart'
  BY <1>1, <1>2 DEF RoundsInv, RoundsTyped, RoundsApart, Read
<1>4. PlannedAreRead' /\ CodesAreRead'
  BY <1>1, <1>2 DEF RoundsInv, PlannedAreRead, CodesAreRead, Read
<1>5. StatesFollow'
  <2>1. ASSUME NEW i \in Checks PROVE StateFollows(i)'
    <3>0. StateFollows(i) /\ Content(Plan[i][1])' = Content(Plan[i][1])
      BY <1>1 DEF RoundsInv, StatesFollow, Content
    <3>1. CASE phase = "initial"
      <4>1. ~Collected(i) /\ ~Collected(i)'
        BY <1>1, <3>1, ChecksNumbered DEF RoundsInv, RoundsApart, Collected
      <4> QED  BY <1>1, <3>0, <3>1, <4>1 DEF StateFollows
    <3>2. CASE phase = "code"
      BY <1>1, <3>0, <3>2 DEF StateFollows, Collected
    <3> QED  BY <1>1, <3>1, <3>2
  <2> QED  BY <2>1 DEF StatesFollow
<1>6. InstanceFirst' /\ LedgersFollow'
  BY <1>1, <1>2 DEF RoundsInv, InstanceFirst, LedgersFollow
<1> QED  BY <1>3, <1>4, <1>5, <1>6 DEF RoundsInv

LEMMA NextRounds == IInv /\ RoundsInv /\ [Next]_vars => RoundsInv'
<1> SUFFICES ASSUME IInv, RoundsInv, [Next]_vars PROVE RoundsInv'
  OBVIOUS
<1>1. CASE \/ Cancel \/ ReturnError \/ RecordFetchError \/ BeginCheck \/ ReturnReport
           \/ UNCHANGED vars
  <2>1. UNCHANGED <<phase, check, nth, reads, states>> /\ (items' = items \/ phase = "run")
    BY <1>1 DEF Cancel, ReturnError, RecordFetchError, BeginCheck, ReturnReport, vars, out
  <2> QED  BY <2>1, QuietRounds
<1>2. CASE EndCheck
  <2>1. UNCHANGED <<phase, check, nth, reads, states>> /\ phase = "run"
    BY <1>2 DEF EndCheck, IInv, LoopAgrees
  <2> QED  BY <2>1, QuietRounds
<1> QED
  BY <1>1, <1>2, PlanFailsRounds, PlanKeyRounds, LoopEndsRounds, FetchChunkRounds,
     FetchAbandonedRounds, CollectCodeKeyRounds, FetchEndsRounds DEF Next, Work

(* The cached client never meets a key that was not read: what it misses   *)
(* has failed.                                                             *)
LEMMA LookupIs ==
  ASSUME RoundsInv, NEW K, NEW t \in Seq(K), ToSet(t) \subseteq Read
  PROVE  /\ Misses(t) # {} => Lookup(t).error \in Errors
         /\ Misses(t) = {} => Lookup(t).error = "none" /\ Lookup(t).ledger = fetched[t[1]].ledger
<1>1. ASSUME Misses(t) # {} PROVE Lookup(t).error \in Errors
  <2> DEFINE k == FirstIn(Misses(t), t)
  <2>1. ToSet(t) \cap Misses(t) # {}
    BY <1>1 DEF Misses
  <2>2. k \in ToSet(t) /\ k \in Misses(t)
    BY <2>1, FirstInIs
  <2>3. k \in DOMAIN errors
    BY <2>2 DEF Misses, Read
  <2>4. errors[k] \in Errors
    BY <2>3 DEF RoundsInv, RoundsTyped
  <2> QED  BY <1>1, <2>3, <2>4 DEF Lookup, Missed
<1>2. ASSUME Misses(t) = {} PROVE Lookup(t).error = "none" /\ Lookup(t).ledger = fetched[t[1]].ledger
  BY <1>2 DEF Lookup
<1> QED  BY <1>1, <1>2

(* What Check finds of a batch that runs it.                               *)
LEMMA InspectionIs ==
  ASSUME RoundsInv, phase = "run", NEW i \in Checks, ErrorBefore(i) = "none"
  PROVE  /\ Inspection(i).error # "not prefetched"
         /\ Inspection(i).error = "none" =>
               /\ KeysOf(i) \subseteq DOMAIN fetched
               /\ \A k \in KeysOf(i) : Inspection(i).ledger <= fetched[k].ledger
<1> DEFINE held == Content(Plan[i][1])
           first == Lookup(Plan[i])
           code == Lookup(<<held>>)
<1>0. todo = <<>> /\ ToSet(todo) = {}
  BY NoneToSet DEF RoundsInv, RoundsApart
<1>1. states[i].err = "none" /\ StateFollows(i) /\ Collected(i)
  BY DEF ErrorBefore, Errors, RoundsInv, RoundsTyped, StatesFollow, Collected
<1>2. Plan[i] # <<>>
  BY <1>1 DEF StateFollows
<1>3. IF held \in CodeKeys THEN states[i].codeKey = held ELSE states[i].codeKey = "none"
  BY <1>1 DEF StateFollows
<1>4. ToSet(Plan[i]) \subseteq Read
  BY PlanIs DEF RoundsInv, PlannedAreRead
<1>5. /\ Misses(Plan[i]) # {} => first.error \in Errors
      /\ Misses(Plan[i]) = {} => first.error = "none" /\ first.ledger = fetched[Plan[i][1]].ledger
  BY <1>4, PlanIs, LookupIs
<1>6. ASSUME held \in CodeKeys
      PROVE  /\ Misses(<<held>>) # {} => code.error \in Errors
             /\ Misses(<<held>>) = {} => code.error = "none" /\ held \in DOMAIN fetched
  <2>1. held # "none" /\ states[i].codeKey = held
    BY <1>3, <1>6, KeysApart
  <2>2. held \in Read
    BY <1>0, <2>1 DEF RoundsInv, CodesAreRead
  <2> HIDE DEF held
  <2>3. <<held>> \in Seq({held}) /\ DOMAIN <<held>> = {1} /\ <<held>>[1] = held
    OBVIOUS
  <2>4. \A k : k \in ToSet(<<held>>) <=> k = held
    BY <2>3, ToSetIs
  <2>5. ToSet(<<held>>) \subseteq Read
    BY <2>2, <2>4
  <2>6. /\ Misses(<<held>>) # {} => code.error \in Errors
        /\ Misses(<<held>>) = {} => code.error = "none"
    BY <2>3, <2>5, LookupIs
  <2>7. Misses(<<held>>) = {} => held \in DOMAIN fetched
    BY <2>4 DEF Misses
  <2> QED  BY <2>6, <2>7
<1>7. Inspection(i) = IF first.error = "none" /\ held \in CodeKeys /\ code.error # "none"
                      THEN code ELSE first
  BY DEF Inspection
<1> HIDE DEF held, first, code
<1>8. Inspection(i).error \in Errors \cup {"none"}
  BY <1>5, <1>6, <1>7 DEF Errors
<1>9. ASSUME Inspection(i).error = "none"
      PROVE  /\ KeysOf(i) \subseteq DOMAIN fetched
             /\ \A k \in KeysOf(i) : Inspection(i).ledger <= fetched[k].ledger
  <2>1. first.error = "none" /\ Inspection(i) = first /\ (held \in CodeKeys => code.error = "none")
    BY <1>7, <1>9
  <2>2. Misses(Plan[i]) = {} /\ first.ledger = fetched[Plan[i][1]].ledger
    BY <1>5, <2>1 DEF Errors
  <2>3. held \in CodeKeys => held \in DOMAIN fetched
    BY <1>6, <2>1 DEF Errors
  <2>4. \A k \in ToSet(Plan[i]) : k \in DOMAIN fetched /\ k \notin DOMAIN errors
    BY <2>2 DEF Misses
  <2>5. Plan[i][1] \in ToSet(Plan[i]) /\ Plan[i][1] \in PlannedKeys
    BY <1>2, PlanIs
  <2>6. \A k \in KeysOf(i) : k \in ToSet(Plan[i]) \/ (held \in CodeKeys /\ k = held)
    BY <1>3 DEF KeysOf
  <2>7. ASSUME NEW k \in ToSet(Plan[i]) PROVE fetched[Plan[i][1]].ledger <= fetched[k].ledger
    BY <1>0, <2>4, <2>5 DEF RoundsInv, LedgersFollow
  <2>8. held \in CodeKeys => fetched[Plan[i][1]].ledger <= fetched[held].ledger
    BY <2>3, <2>4, <2>5 DEF RoundsInv, LedgersFollow
  <2> QED  BY <2>1, <2>2, <2>3, <2>4, <2>6, <2>7, <2>8
<1> QED  BY <1>8, <1>9 DEF Errors

(* An item more.                                                           *)
LEMMA ItemsGrow ==
  ASSUME IInv, NEW item, items' = Append(items, item)
  PROVE  \A i \in DOMAIN items' : \/ i = This /\ items'[i] = item
                                  \/ i \in DOMAIN items /\ items'[i] = items[i]
<1> DEFINE n == Len(items)
<1>1. /\ n \in Nat /\ DOMAIN items = 1 .. n /\ DOMAIN items' = 1 .. n + 1
      /\ \A i \in 1 .. n : items'[i] = items[i]
      /\ items'[n + 1] = item
  BY AppendAdds DEF IInv, ItemsInOrder
<1> HIDE DEF n
<1> QED  BY <1>1 DEF This, n

LEMMA RecordedFollows ==
  ASSUME IInv, ItemsFollow, UNCHANGED <<fetched, states>>, NEW item, items' = Append(items, item),
         item.error # "not prefetched",
         item.result # "none" =>
            /\ KeysOf(This) \subseteq DOMAIN fetched
            /\ \A k \in KeysOf(This) : item.ledger <= fetched[k].ledger
  PROVE  ItemsFollow'
<1>1. \A i \in DOMAIN items' : \/ i = This /\ items'[i] = item
                               \/ i \in DOMAIN items /\ items'[i] = items[i]
  BY ItemsGrow
<1>2. \A i : KeysOf(i)' = KeysOf(i)
  BY DEF KeysOf
<1>3. ASSUME NEW i \in DOMAIN items'
      PROVE  /\ items'[i].error # "not prefetched"
             /\ items'[i].result # "none" =>
                   /\ KeysOf(i) \subseteq DOMAIN fetched
                   /\ \A k \in KeysOf(i) : items'[i].ledger <= fetched[k].ledger
  <2>1. CASE i = This /\ items'[i] = item
    BY <2>1
  <2>2. CASE i \in DOMAIN items /\ items'[i] = items[i]
    <3>2. /\ items[i].error # "not prefetched"
          /\ items[i].result # "none" =>
                /\ KeysOf(i) \subseteq DOMAIN fetched
                /\ \A k \in KeysOf(i) : items[i].ledger <= fetched[k].ledger
      BY <2>2 DEF ItemsFollow
    <3> QED  BY <2>2, <3>2
  <2> QED  BY <1>1, <2>1, <2>2
<1> QED  BY <1>2, <1>3 DEF ItemsFollow

LEMMA ErrorFollows ==
  ASSUME IInv, ItemsFollow, UNCHANGED <<fetched, states>>,
         NEW e, e # "not prefetched", RecordError(e)
  PROVE  ItemsFollow'
<1> DEFINE item == [result |-> "none", error |-> e, ledger |-> 0]
<1>1. items' = Append(items, item) /\ item.error = e /\ item.result = "none"
  BY DEF RecordError
<1> HIDE DEF item
<1> QED  BY <1>1, RecordedFollows

LEMMA ResultFollows ==
  ASSUME IInv, ItemsFollow, UNCHANGED <<fetched, states>>, NEW res, NEW at, RecordResult(res, at),
         KeysOf(This) \subseteq DOMAIN fetched, \A k \in KeysOf(This) : at <= fetched[k].ledger
  PROVE  ItemsFollow'
<1> DEFINE item == [result |-> res, error |-> "none", ledger |-> at]
<1>1. items' = Append(items, item) /\ item.error = "none" /\ item.ledger = at
  BY DEF RecordResult
<1> HIDE DEF item
<1> QED  BY <1>1, RecordedFollows

(* A check runs only if the prefetch has not failed it.                    *)
RunsUnfailed == running => ErrorBefore(This) = "none"

ReadsInv == RoundsInv /\ ItemsFollow /\ RunsUnfailed

(* Nothing that was read changes once the checks run.                      *)
LEMMA NextItems == IInv /\ ReadsInv /\ [Next]_vars => ItemsFollow' /\ RunsUnfailed'
<1> SUFFICES ASSUME IInv, ReadsInv, [Next]_vars PROVE ItemsFollow' /\ RunsUnfailed'
  OBVIOUS
<1>0. RoundsInv /\ ItemsFollow /\ RunsUnfailed /\ (running => phase = "run" /\ This \in Checks)
  BY DEF ReadsInv, IInv, LoopAgrees
<1>1. CASE PlanFails \/ PlanKey \/ LoopEnds \/ FetchChunk \/ FetchAbandoned \/ CollectCodeKey \/ FetchEnds
  <2>1. phase # "run" /\ UNCHANGED <<items, running>>
    BY <1>1 DEF PlanFails, PlanKey, LoopEnds, FetchChunk, FetchAbandoned, CollectCodeKey, FetchEnds,
                Fetching, out
  <2>2. DOMAIN items' = {} /\ ~running'
    BY <1>0, <2>1 DEF RoundsInv, RoundsApart
  <2> QED  BY <2>2 DEF ItemsFollow, RunsUnfailed
<1>2. CASE Cancel \/ ReturnError \/ ReturnReport \/ UNCHANGED vars
  <2>1. UNCHANGED <<fetched, errors, states, items, running>>
    BY <1>2 DEF Cancel, ReturnError, ReturnReport, vars, out, reads
  <2> QED
    BY <1>0, <2>1 DEF ItemsFollow, RunsUnfailed, KeysOf, ErrorBefore, This
<1>3. CASE BeginCheck
  <2>1. UNCHANGED <<fetched, errors, states, items>> /\ ErrorBefore(This) = "none"
    BY <1>3 DEF BeginCheck, out, reads
  <2> QED
    BY <1>0, <2>1 DEF ItemsFollow, RunsUnfailed, KeysOf, ErrorBefore, This
<1>4. CASE RecordFetchError
  <2>1. /\ UNCHANGED <<fetched, errors, states>> /\ ~running' /\ This \in Checks
        /\ RecordError(ErrorBefore(This))
    BY <1>4 DEF RecordFetchError, reads
  <2>2. ErrorBefore(This) # "not prefetched"
    <3>1. /\ states[This].err \in {"none", "plan", "unreadable"} \cup Errors
          /\ \A k \in DOMAIN errors : errors[k] \in Errors
      BY <1>0, <2>1 DEF RoundsInv, RoundsTyped
    <3> QED  BY <3>1 DEF ErrorBefore, Errors
  <2> QED  BY <1>0, <2>1, <2>2, ErrorFollows DEF RunsUnfailed
<1>5. CASE EndCheck
  <2>1. /\ running /\ ~running' /\ UNCHANGED <<fetched, errors, states>>
        /\ phase = "run" /\ This \in Checks /\ ErrorBefore(This) = "none"
    BY <1>0, <1>5 DEF EndCheck, reads, RunsUnfailed
  <2>2. /\ Inspection(This).error # "not prefetched"
        /\ Inspection(This).error = "none" =>
              /\ KeysOf(This) \subseteq DOMAIN fetched
              /\ \A k \in KeysOf(This) : Inspection(This).ledger <= fetched[k].ledger
    BY <1>0, <2>1, InspectionIs
  <2>3. \/ \E e : e # "not prefetched" /\ RecordError(e)
        \/ /\ Inspection(This).error = "none"
           /\ \E res \in {"pass", "fail"} : RecordResult(res, Inspection(This).ledger)
    <3> HIDE DEF This
    <3> QED  BY <1>5, <2>2 DEF EndCheck
  <2>4. CASE \E e : e # "not prefetched" /\ RecordError(e)
    BY <1>0, <2>1, <2>4, ErrorFollows DEF RunsUnfailed
  <2>5. CASE /\ Inspection(This).error = "none"
             /\ \E res \in {"pass", "fail"} : RecordResult(res, Inspection(This).ledger)
    BY <1>0, <2>1, <2>2, <2>5, ResultFollows DEF RunsUnfailed
  <2> QED  BY <2>3, <2>4, <2>5
<1> QED  BY <1>1, <1>2, <1>3, <1>4, <1>5 DEF Next, Work

LEMMA ReadsInvHolds == Spec => [](IInv /\ ReadsInv)
<1>1. Init => IInv /\ ReadsInv
  BY InitIInv, InitRounds DEF ReadsInv, RunsUnfailed, Init
<1>2. IInv /\ ReadsInv /\ [Next]_vars => (IInv /\ ReadsInv)'
  <2> SUFFICES ASSUME IInv, ReadsInv, [Next]_vars PROVE IInv' /\ ReadsInv'
    OBVIOUS
  <2>1. IInv'
    BY NextIInv
  <2>2. RoundsInv'
    BY NextRounds DEF ReadsInv
  <2>3. ItemsFollow' /\ RunsUnfailed'
    BY NextItems
  <2> QED  BY <2>1, <2>2, <2>3 DEF ReadsInv
<1> QED  BY <1>1, <1>2, PTL DEF Spec

(* No check of a batch meets a key that its batch has not asked for, for   *)
(* any plans, any size of chunk and any failures (batch.go:345-353).       *)
THEOREM PrefetchReadsAll == Spec => []NothingUnprefetched
<1>1. ReadsInv => NothingUnprefetched
  BY DEF ReadsInv, ItemsFollow, NothingUnprefetched
<1> QED  BY <1>1, ReadsInvHolds, PTL

(* A chunk that fails takes with it the checks of its keys and no other    *)
(* (batch.go:209-217 and 274-289).                                         *)
THEOREM PrefetchFailureIsContained == Spec => []FailureIsContained
<1>1. IInv /\ ReadsInv => FailureIsContained
  <2> SUFFICES ASSUME IInv, ReadsInv, NEW i \in DOMAIN items
               PROVE  /\ items[i].result # "none" => KeysOf(i) \subseteq DOMAIN fetched
                      /\ ErrorBefore(i) \in {"rpc", "canceled"} => KeysOf(i) \cap DOMAIN errors # {}
    BY DEF FailureIsContained
  <2>1. items[i].result # "none" => KeysOf(i) \subseteq DOMAIN fetched
    BY DEF ReadsInv, ItemsFollow
  <2>2. i \in Checks
    BY ChecksNumbered, LenProperties DEF IInv, ItemsInOrder
  <2>3. StateFollows(i) /\ Read \subseteq AllKeys
    BY <2>2 DEF ReadsInv, RoundsInv, RoundsTyped, StatesFollow
  <2>4. ASSUME ErrorBefore(i) \in {"rpc", "canceled"} PROVE KeysOf(i) \cap DOMAIN errors # {}
    <3>1. CASE states[i].err = "none" /\ states[i].codeKey \in DOMAIN errors
      <4>1. states[i].codeKey # "none"
        BY <2>3, <3>1, KeysApart DEF Read, AllKeys
      <4> QED  BY <3>1, <4>1 DEF KeysOf
    <3>2. CASE states[i].err \in Errors
      <4>1. ToSet(Plan[i]) \cap DOMAIN errors # {}
        BY <2>3, <3>2 DEF StateFollows
      <4> QED  BY <4>1 DEF KeysOf
    <3> QED  BY <2>4, <3>1, <3>2 DEF ErrorBefore, Errors
  <2> QED  BY <2>1, <2>4
<1> QED  BY <1>1, ReadsInvHolds, PTL

(* The ledger a report of a batch names is not later than the read of any  *)
(* entry it judges, whichever chunks its keys lay in (batch.go:354-356).   *)
THEOREM PrefetchLedgerIsHonest == Spec => []LedgerIsHonest
<1>1. ReadsInv => LedgerIsHonest
  BY DEF ReadsInv, ItemsFollow, LedgerIsHonest
<1> QED  BY <1>1, ReadsInvHolds, PTL
=============================================================================
