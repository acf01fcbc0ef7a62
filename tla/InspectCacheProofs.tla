------------------------- MODULE InspectCacheProofs -------------------------
(***************************************************************************)
(* Theorems about InspectCache, for any callers, requests, lifetime and    *)
(* size of the cache.                                                      *)
(***************************************************************************)
EXTENDS InspectCache, FiniteSetTheorems, SequenceTheorems, WellFoundedInduction, TLAPS

(* A call that is under way has a request, and what it has read is for     *)
(* that request and no older than the call.                                *)
FillIsOwn ==
    \A c \in Callers : pc[c] # "idle" =>
        /\ fill[c].req \in Requests
        /\ fill[c].started <= now /\ now - fill[c].started <= FetchLimit
        /\ pc[c] \in {"prefetched", "filling"} =>
              /\ fill[c].report \in Reports
              /\ fill[c].report.of = fill[c].req
              /\ fill[c].started <= fill[c].report.read

(* An entry is for its key, and expires a lifetime after the end of the    *)
(* call that read it.                                                      *)
EntryIsOwn ==
    \A k \in DOMAIN entries :
        /\ CacheKey(entries[k].report.of) = k
        /\ entries[k].expires <= entries[k].report.read + FetchLimit + TTL

IInv ==
    /\ TypeOK
    /\ IsFiniteSet(DOMAIN entries)
    /\ FillIsOwn
    /\ EntryIsOwn
    /\ ServedReportIsRecent
    /\ AnswersTheKeySet

(* What the type invariant says of the map.                                *)
EntriesTyped ==
    /\ DOMAIN entries \subseteq Keys
    /\ \A k \in DOMAIN entries :
          entries[k] \in [report : Reports, expires : 0 .. MaxTime + TTL]

-----------------------------------------------------------------------------
(* The key of the cache.  Texts of one piece each are joined to the        *)
(* sequence of their pieces: what a step of the join has made so far is    *)
(* settled by induction over the steps.                                    *)
LEMMA JoinOfPlainTexts ==
  ASSUME NEW S, NEW texts \in Seq(Seq(S)), texts # <<>>,
         \A i \in DOMAIN texts : Len(texts[i]) = 1
  PROVE  FlattenSeq(texts) = [i \in 1 .. Len(texts) |-> texts[i][1]]
<1> DEFINE n == Len(texts)
           Part(i) == [j \in 1 .. i |-> texts[j][1]]
           Goes(f) == f = [i \in 1 .. n |-> IF i = 1 THEN texts[i] ELSE f[i - 1] \o texts[i]]
           front == [i \in 1 .. n |-> Part(i)]
<1>1. n \in Nat \ {0} /\ DOMAIN texts = 1 .. n
  BY EmptySeq, LenProperties
<1>2. ASSUME NEW i \in 1 .. n
      PROVE  texts[i] = <<texts[i][1]>> /\ texts[i][1] \in S
  <2> DEFINE t == texts[i]
  <2>1. t \in Seq(S) /\ Len(t) = 1
    BY <1>1
  <2> HIDE DEF t
  <2>2. t[1] \in S
    <3>1. 1 \in 1 .. Len(t)
      BY <2>1
    <3> QED  BY <2>1, <3>1, ElementOfSeq
  <2>3. <<t[1]>> \in Seq(S) /\ Len(<<t[1]>>) = 1
    BY <2>2
  <2>4. \A j \in 1 .. 1 : t[j] = <<t[1]>>[j]
    OBVIOUS
  <2>5. t = <<t[1]>>
    BY <2>1, <2>3, <2>4, SeqEqual
  <2> QED  BY <2>2, <2>5 DEF t
<1>3. ASSUME NEW i \in 1 .. n, i # 1
      PROVE  Part(i) = Part(i - 1) \o texts[i]
  <2>1. i - 1 \in Nat /\ i - 1 \in 1 .. n /\ 1 .. i \subseteq 1 .. n /\ 1 .. i - 1 \subseteq 1 .. n
    BY <1>1, <1>3
  <2>2. Part(i - 1) \in Seq(S) /\ Len(Part(i - 1)) = i - 1
    BY <1>2, <2>1
  <2>3. Part(i) \in Seq(S) /\ Len(Part(i)) = i
    BY <1>2, <2>1
  <2>4. ASSUME NEW j \in 1 .. i
        PROVE  Part(i)[j] = (Part(i - 1) \o <<texts[i][1]>>)[j]
    BY <2>1, <2>2, <2>4
  <2> HIDE DEF Part
  <2>5. Part(i - 1) \o <<texts[i][1]>> \in Seq(S) /\ Len(Part(i - 1) \o <<texts[i][1]>>) = i
    BY <1>2, <2>1, <2>2
  <2>6. Part(i) = Part(i - 1) \o <<texts[i][1]>>
    BY <2>3, <2>4, <2>5, SeqEqual
  <2> QED  BY <1>2, <2>6
<1>4. Part(1) = texts[1]
  <2>1. 1 \in 1 .. n
    BY <1>1
  <2>2. Part(1) = <<texts[1][1]>>
    OBVIOUS
  <2> QED  BY <1>2, <2>1, <2>2
<1>5. Goes(front)
  <2> HIDE DEF Part
  <2>1. ASSUME NEW i \in 1 .. n
        PROVE  front[i] = IF i = 1 THEN texts[i] ELSE front[i - 1] \o texts[i]
    <3>1. i # 1 => i - 1 \in 1 .. n
      BY <1>1
    <3> QED  BY <1>3, <1>4, <3>1
  <2> QED  BY <2>1
<1>6. ASSUME NEW f, Goes(f) PROVE f[n] = Part(n)
  <2> HIDE DEF Part
  <2> DEFINE T == {i \in 1 .. n : f[i] # Part(i)}
  <2>1. SUFFICES ASSUME T # {} PROVE FALSE
    BY <1>1
  <2>2. T \subseteq Nat
    BY <1>1
  <2> HIDE DEF T
  <2>3. PICK x \in T : \A y \in T : ~ (<<y, x>> \in OpToRel(<, Nat))
    BY <2>1, <2>2, NatLessThanWellFounded, WFMin
  <2>4. \A y \in T : ~ (y < x)
    BY <2>2, <2>3 DEF OpToRel
  <2>5. x \in 1 .. n /\ f[x] # Part(x)
    BY DEF T
  <2>6. f[x] = IF x = 1 THEN texts[x] ELSE f[x - 1] \o texts[x]
    BY <1>6, <2>5
  <2>7. x # 1
    BY <1>4, <2>5, <2>6
  <2>8. x - 1 \in 1 .. n /\ x - 1 < x
    BY <1>1, <2>5, <2>7
  <2>9. f[x - 1] = Part(x - 1)
    BY <2>4, <2>8 DEF T
  <2> QED  BY <1>3, <2>5, <2>6, <2>7, <2>9
<1> DEFINE flatten == CHOOSE f : Goes(f)
<1>7. Goes(flatten)
  BY <1>5
<1>8. FlattenSeq(texts) = flatten[n]
  BY <1>1 DEF FlattenSeq
<1> HIDE DEF flatten, Goes
<1> QED  BY <1>6, <1>7, <1>8

(* Requests with one key ask for the same entries, unless a NUL hides      *)
(* where the texts of one of them end.                                     *)
LEMMA KeyDetermines ==
  ASSUME NEW r \in Requests, NEW s \in Requests, CacheKey(r) = CacheKey(s),
         ~HoldsNUL(r), ~HoldsNUL(s)
  PROVE  SameEntries(r, s)
<1> DEFINE S == Pieces \cup Durabilities
           Fixed(q) == <<q.contract, <<Durability(q)>>>>
           TextsOf(q) == Fixed(q) \o q.keys
<1>1. ASSUME NEW q \in Requests, ~HoldsNUL(q)
      PROVE  /\ q.keys \in Seq(Seq(S)) /\ q.contract \in Seq(S) /\ Durability(q) \in S
             /\ Len(q.contract) = 1 /\ \A i \in DOMAIN q.keys : Len(q.keys[i]) = 1
  <2>1. q \in RequestShape
    BY CacheAssumption
  <2>2. q.contract \in Texts /\ q.durability \in Durabilities /\ q.keys \in Seq(Texts)
    BY <2>1 DEF RequestShape
  <2>3. ASSUME NEW t \in Texts PROVE t \in Seq(S) /\ Len(t) \in Nat \ {0}
    <3>1. t \in Seq(Pieces) /\ t # <<>>
      BY DEF Texts
    <3>2. t \in Seq(S)
      BY <3>1, SeqMonotonic
    <3> QED  BY <3>1, <3>2, EmptySeq, LenProperties
  <2>4. q.keys \in Seq(Seq(S))
    BY <2>2, <2>3, SeqMonotonic
  <2>5. \A i \in DOMAIN q.keys : q.keys[i] \in Texts
    BY <2>2
  <2>6. Durability(q) \in S
    BY <2>2 DEF Durability, Durabilities
  <2>7. ASSUME NEW t \in Texts, ~(Len(t) > 1) PROVE Len(t) = 1
    <3> DEFINE l == Len(t)
    <3>1. l \in Nat \ {0} /\ ~(l > 1)
      BY <2>3, <2>7
    <3> HIDE DEF l
    <3>2. l = 1
      BY <3>1
    <3> QED  BY <3>2 DEF l
  <2>8. Len(q.contract) = 1
    BY <1>1, <2>2, <2>7 DEF HoldsNUL
  <2>9. \A i \in DOMAIN q.keys : Len(q.keys[i]) = 1
    BY <1>1, <2>5, <2>7 DEF HoldsNUL
  <2> QED  BY <2>2, <2>3, <2>4, <2>6, <2>8, <2>9
<1>2. ASSUME NEW q \in Requests, ~HoldsNUL(q)
      PROVE  /\ Len(TextsOf(q)) = Len(q.keys) + 2 /\ Len(q.keys) \in Nat
             /\ CacheKey(q) = [i \in 1 .. Len(q.keys) + 2 |-> TextsOf(q)[i][1]]
             /\ TextsOf(q)[1] = q.contract /\ TextsOf(q)[2] = <<Durability(q)>>
             /\ \A i \in 1 .. Len(q.keys) : TextsOf(q)[i + 2] = q.keys[i]
  <2>1. /\ q.keys \in Seq(Seq(S)) /\ q.contract \in Seq(S) /\ <<Durability(q)>> \in Seq(S)
        /\ Len(q.keys) \in Nat /\ DOMAIN q.keys = 1 .. Len(q.keys)
    BY <1>1, <1>2, LenProperties
  <2>2. Fixed(q) \in Seq(Seq(S)) /\ Len(Fixed(q)) = 2
    BY <2>1
  <2> HIDE DEF S
  <2>3. /\ TextsOf(q) \in Seq(Seq(S)) /\ Len(TextsOf(q)) = Len(q.keys) + 2
        /\ \A i \in 1 .. Len(q.keys) + 2 :
              TextsOf(q)[i] = IF i <= 2 THEN Fixed(q)[i] ELSE q.keys[i - 2]
    BY <2>1, <2>2, ConcatProperties
  <2>4. TextsOf(q)[1] = q.contract /\ TextsOf(q)[2] = <<Durability(q)>>
    BY <2>1, <2>3
  <2>5. \A i \in 1 .. Len(q.keys) : TextsOf(q)[i + 2] = q.keys[i]
    <3> TAKE i \in 1 .. Len(q.keys)
    <3>1. i + 2 \in 1 .. Len(q.keys) + 2 /\ ~(i + 2 <= 2) /\ (i + 2) - 2 = i
      BY <2>1
    <3> QED  BY <2>3, <3>1
  <2>6. \A i \in DOMAIN TextsOf(q) : Len(TextsOf(q)[i]) = 1
    <3> TAKE i \in DOMAIN TextsOf(q)
    <3>1. i \in 1 .. Len(q.keys) + 2
      <4> DEFINE ts == TextsOf(q)
      <4>1. ts \in Seq(Seq(S)) /\ Len(ts) = Len(q.keys) + 2 /\ i \in DOMAIN ts
        BY <2>3
      <4> HIDE DEF ts
      <4>2. DOMAIN ts = 1 .. Len(ts)
        BY <4>1, LenProperties
      <4> QED  BY <4>1, <4>2
    <3>2. i = 1 \/ i = 2 \/ (i - 2 \in 1 .. Len(q.keys) /\ (i - 2) + 2 = i)
      <4> DEFINE l == Len(q.keys)
      <4>1. l \in Nat /\ i \in 1 .. l + 2
        BY <2>1, <3>1
      <4> HIDE DEF l
      <4>2. i = 1 \/ i = 2 \/ (i - 2 \in 1 .. l /\ (i - 2) + 2 = i)
        BY <4>1
      <4> QED  BY <4>2 DEF l
    <3> HIDE DEF TextsOf
    <3>3. CASE i = 1
      BY <1>1, <1>2, <2>4, <3>3
    <3>4. CASE i = 2
      BY <2>4, <3>4
    <3>5. CASE i - 2 \in 1 .. Len(q.keys) /\ (i - 2) + 2 = i
      BY <1>1, <1>2, <2>1, <2>5, <3>5
    <3> QED  BY <3>2, <3>3, <3>4, <3>5
  <2>7. TextsOf(q) # <<>>
    BY <2>1, <2>3
  <2>8. CacheKey(q) = FlattenSeq(TextsOf(q))
    BY DEF CacheKey
  <2> HIDE DEF TextsOf
  <2>9. FlattenSeq(TextsOf(q)) = [i \in 1 .. Len(TextsOf(q)) |-> TextsOf(q)[i][1]]
    BY <2>3, <2>6, <2>7, JoinOfPlainTexts
  <2> QED  BY <2>1, <2>3, <2>4, <2>5, <2>8, <2>9
<1> HIDE DEF TextsOf, S
<1>3. Len(r.keys) = Len(s.keys) /\ Len(r.keys) \in Nat
  <2>1. 1 .. Len(r.keys) + 2 = 1 .. Len(s.keys) + 2
    BY <1>2
  <2> QED  BY <1>2, <2>1
<1>4. \A i \in 1 .. Len(r.keys) + 2 : TextsOf(r)[i][1] = TextsOf(s)[i][1]
  BY <1>2, <1>3
<1>5. r.contract = s.contract
  <2>1. r.contract[1] = s.contract[1]
    BY <1>2, <1>3, <1>4
  <2> QED  BY <1>1, <2>1
<1>6. Durability(r) = Durability(s)
  <2>1. 2 \in 1 .. Len(r.keys) + 2
    BY <1>3
  <2>2. TextsOf(r)[2][1] = Durability(r) /\ TextsOf(s)[2][1] = Durability(s)
    BY <1>2
  <2> QED  BY <1>4, <2>1, <2>2
<1>7. r.keys = s.keys
  <2>1. ASSUME NEW i \in 1 .. Len(r.keys) PROVE r.keys[i] = s.keys[i]
    <3>1. i + 2 \in 1 .. Len(r.keys) + 2 /\ i \in 1 .. Len(s.keys)
      BY <1>3
    <3>2. r.keys[i][1] = s.keys[i][1]
      <4>1. TextsOf(r)[i + 2] = r.keys[i]
        BY <1>2
      <4>2. TextsOf(s)[i + 2] = s.keys[i]
        BY <1>2, <3>1
      <4>3. TextsOf(r)[i + 2][1] = TextsOf(s)[i + 2][1]
        BY <1>4, <3>1
      <4> QED  BY <4>1, <4>2, <4>3
    <3>3. /\ r.keys \in Seq(Seq(S)) /\ s.keys \in Seq(Seq(S))
          /\ i \in DOMAIN r.keys /\ i \in DOMAIN s.keys
      BY <1>1, <1>3, <3>1, LenProperties
    <3>4. r.keys[i] \in Seq(S) /\ s.keys[i] \in Seq(S)
          /\ Len(r.keys[i]) = 1 /\ Len(s.keys[i]) = 1
      BY <1>1, <3>3
    <3> QED  BY <3>2, <3>4
  <2>2. r.keys \in Seq(Seq(S)) /\ s.keys \in Seq(Seq(S))
    BY <1>1
  <2> QED  BY <1>3, <2>1, <2>2, SeqEqual
<1> QED  BY <1>5, <1>6, <1>7 DEF SameEntries

(* An empty cache.                                                         *)
LEMMA InitIInv == Init => IInv
<1> SUFFICES ASSUME Init PROVE IInv
  OBVIOUS
<1>1. DOMAIN entries = {}
  BY DEF Init
<1>2. IsFiniteSet(DOMAIN entries) /\ Cardinality(DOMAIN entries) = 0
  BY <1>1, FS_EmptySet
<1> QED
  BY <1>1, <1>2, CacheAssumption
     DEF Init, IInv, TypeOK, FillIsOwn, EntryIsOwn, ServedReportIsRecent, AnswersTheKeySet,
         NoFill, NoReport, Reports

(* evictLocked leaves some of the entries, and room for one more.          *)
LEMMA EvictionMakesRoom ==
  ASSUME IsFiniteSet(DOMAIN entries), Cardinality(DOMAIN entries) <= MaxEntries,
         NEW kept \in KeptSets
  PROVE  kept \subseteq DOMAIN entries /\ IsFiniteSet(kept) /\ Cardinality(kept) < MaxEntries
<1> DEFINE unexpired == DOMAIN entries \ Expired
<1>1. MaxEntries \in Nat /\ Cardinality(DOMAIN entries) \in Nat
  BY CacheAssumption, FS_CardinalityType
<1>2. /\ IsFiniteSet(unexpired) /\ Cardinality(unexpired) \in Nat
      /\ Cardinality(unexpired) <= Cardinality(DOMAIN entries)
  BY FS_Subset, FS_CardinalityType
<1>3. CASE Cardinality(DOMAIN entries) < MaxEntries
  BY <1>3 DEF KeptSets
<1>4. CASE Cardinality(unexpired) < MaxEntries /\ ~(Cardinality(DOMAIN entries) < MaxEntries)
  BY <1>2, <1>4 DEF KeptSets
<1>5. CASE ~(Cardinality(unexpired) < MaxEntries) /\ ~(Cardinality(DOMAIN entries) < MaxEntries)
  <2>1. PICK k \in Oldest(unexpired) : kept = unexpired \ {k}
    BY <1>5 DEF KeptSets
  <2>2. k \in unexpired
    BY DEF Oldest
  <2>3. IsFiniteSet(kept) /\ Cardinality(kept) = Cardinality(unexpired) - 1
    BY <1>2, <2>1, <2>2, FS_RemoveElement
  <2> QED  BY <1>1, <1>2, <2>1, <2>3
<1> QED  BY <1>3, <1>4, <1>5

(* An entry that has not expired goes only where all of a full cache is    *)
(* alive, alone, and is the first to expire.                               *)
LEMMA EvictsTheOldest ==
  ASSUME EntriesTyped, now \in Nat, IsFiniteSet(DOMAIN entries),
         Cardinality(DOMAIN entries) <= MaxEntries,
         NEW kept \in KeptSets, NEW k \in DOMAIN entries, Live(k), k \notin kept
  PROVE  /\ Cardinality(DOMAIN entries) = MaxEntries
         /\ Expired = {}
         /\ kept = DOMAIN entries \ {k}
         /\ \A j \in DOMAIN entries : entries[k].expires <= entries[j].expires
<1> DEFINE unexpired == DOMAIN entries \ Expired
<1>1. MaxEntries \in Nat /\ Cardinality(DOMAIN entries) \in Nat
  BY CacheAssumption, FS_CardinalityType
<1>2. k \in unexpired
  BY DEF Live, Expired
<1>3. ~(Cardinality(DOMAIN entries) < MaxEntries) /\ ~(Cardinality(unexpired) < MaxEntries)
  BY <1>2 DEF KeptSets
<1>4. Cardinality(unexpired) \in Nat /\ Cardinality(unexpired) <= Cardinality(DOMAIN entries)
  BY FS_Subset, FS_CardinalityType
<1>5. Cardinality(DOMAIN entries) = MaxEntries /\ Cardinality(unexpired) = MaxEntries
  BY <1>1, <1>3, <1>4
<1>6. unexpired = DOMAIN entries
  BY <1>5, FS_Subset
<1>7. PICK old \in Oldest(unexpired) : kept = unexpired \ {old}
  BY <1>3 DEF KeptSets
<1>8. old = k
  BY <1>2, <1>7
<1>9. \A j \in DOMAIN entries : entries[k].expires <= entries[j].expires
  BY <1>6, <1>8 DEF Oldest
<1> QED  BY <1>5, <1>6, <1>7, <1>8, <1>9 DEF Expired

(* What a live entry is served for and how old it is.                      *)
LEMMA HitIsHonest ==
  ASSUME IInv, NEW r \in Requests, Live(CacheKey(r)),
         served' = Served("hit", r, entries[CacheKey(r)].report)
  PROVE  ServedReportIsRecent' /\ AnswersTheKeySet' /\
         served' \in [kind : {"none", "hit", "fresh", "error"}, asked : Requests \cup {NoRequest},
                      report : Reports \cup {NoReport}, at : 0 .. MaxTime]
<1> DEFINE e == entries[CacheKey(r)]
<1>1. /\ CacheKey(r) \in DOMAIN entries /\ now < e.expires
      /\ e.report \in Reports /\ e.expires \in Nat /\ e.report.read \in Nat
      /\ now \in 0 .. MaxTime
  BY CacheAssumption DEF IInv, TypeOK, Live, Cached, Reports
<1>2. CacheKey(e.report.of) = CacheKey(r) /\ e.expires <= e.report.read + FetchLimit + TTL
  BY <1>1 DEF IInv, EntryIsOwn
<1>3. now - e.report.read < TTL + FetchLimit
  BY <1>1, <1>2, CacheAssumption
<1>4. e.report.of \in Requests
  BY <1>1 DEF Reports
<1>5. SameEntries(e.report.of, r) \/ HoldsNUL(e.report.of) \/ HoldsNUL(r)
  BY <1>2, <1>4, KeyDetermines
<1>6. AnswersTheKeySet'
  BY <1>5 DEF Served, AnswersTheKeySet
<1> QED  BY <1>1, <1>3, <1>6 DEF Served, ServedReportIsRecent

(* Each step keeps the invariant.                                          *)
LEMMA NextIInv == IInv /\ [Next]_vars => IInv'
<1> SUFFICES ASSUME IInv, [Next]_vars PROVE IInv'
  OBVIOUS
<1> USE CacheAssumption
<1> DEFINE ServedTyped ==
             served \in [kind : {"none", "hit", "fresh", "error"}, asked : Requests \cup {NoRequest},
                         report : Reports \cup {NoReport}, at : 0 .. MaxTime]
           FillTyped ==
             /\ pc \in [Callers -> {"idle", "reading", "prefetched", "filling"}]
             /\ fill \in [Callers -> [req : Requests \cup {NoRequest}, started : 0 .. MaxTime,
                                      report : Reports \cup {NoReport}]]
           Map == /\ EntriesTyped /\ EntryIsOwn
                  /\ IsFiniteSet(DOMAIN entries) /\ Cardinality(DOMAIN entries) <= MaxEntries
           Calls == FillTyped /\ FillIsOwn
           Answer == ServedTyped /\ ServedReportIsRecent /\ AnswersTheKeySet
<1>i. IInv <=> now \in 0 .. MaxTime /\ Map /\ Calls /\ Answer
  BY DEF IInv, TypeOK, EntriesTyped
<1>i2. IInv' <=> now' \in 0 .. MaxTime /\ Map' /\ Calls' /\ Answer'
  BY DEF IInv, TypeOK, EntriesTyped
<1>n. now \in Nat /\ now \in 0 .. MaxTime
  BY <1>i
<1>m. UNCHANGED entries => Map'
  BY <1>i DEF EntriesTyped, EntryIsOwn
<1>c. UNCHANGED <<now, pc, fill>> => Calls'
  BY <1>i DEF FillIsOwn
<1>a. UNCHANGED served => Answer'
  BY <1>i DEF ServedReportIsRecent, AnswersTheKeySet
<1>r. ASSUME NEW k, entries' = Restrict(entries, DOMAIN entries \ {k}) PROVE Map'
  <2>1. DOMAIN entries' = DOMAIN entries \ {k} /\ \A j \in DOMAIN entries' : entries'[j] = entries[j]
    BY <1>r DEF Restrict
  <2>2. IsFiniteSet(DOMAIN entries') /\ Cardinality(DOMAIN entries') <= MaxEntries
    <3>1. /\ IsFiniteSet(DOMAIN entries') /\ Cardinality(DOMAIN entries') <= Cardinality(DOMAIN entries)
      BY <1>i, <2>1, FS_Subset
    <3>2. Cardinality(DOMAIN entries') \in Nat /\ Cardinality(DOMAIN entries) \in Nat
      BY <1>i, <3>1, FS_CardinalityType
    <3> QED  BY <1>i, <3>1, <3>2
  <2> QED  BY <1>i, <2>1, <2>2 DEF EntriesTyped, EntryIsOwn
<1>1. ASSUME NEW c \in Callers, NEW r \in Requests, GetHit(c, r) PROVE IInv'
  <2>1. Answer'
    BY <1>1, HitIsHonest DEF GetHit
  <2> QED  BY <1>1, <1>i2, <1>n, <1>m, <1>c, <2>1 DEF GetHit
<1>2. ASSUME NEW c \in Callers, NEW r \in Requests, GetMiss(c, r) PROVE IInv'
  <2>1. Map'
    BY <1>2, <1>r DEF GetMiss
  <2>2. Calls'
    BY <1>2, <1>i, <1>n DEF GetMiss, FillIsOwn, NoReport, Reports
  <2> QED  BY <1>2, <1>i2, <1>n, <1>a, <2>1, <2>2 DEF GetMiss
<1>3. ASSUME NEW c \in Callers, NEW r \in Requests, Prefetch(c, r) PROVE IInv'
  <2>1. Calls'
    BY <1>3, <1>i, <1>n DEF Prefetch, FillIsOwn, Reports
  <2> QED  BY <1>3, <1>i2, <1>n, <1>a, <1>m, <2>1 DEF Prefetch
<1>4. ASSUME NEW c \in Callers, PrefetchedHit(c) PROVE IInv'
  <2>1. fill[c].req \in Requests
    BY <1>4, <1>i DEF PrefetchedHit, FillIsOwn
  <2>2. Answer'
    BY <1>4, <2>1, HitIsHonest DEF PrefetchedHit
  <2>3. Calls'
    BY <1>4, <1>i, <1>n DEF PrefetchedHit, FillIsOwn, NoFill
  <2> QED  BY <1>4, <1>i2, <1>n, <1>m, <2>2, <2>3 DEF PrefetchedHit
<1>5. ASSUME NEW c \in Callers, PrefetchedMiss(c) PROVE IInv'
  <2>1. Map'
    BY <1>5, <1>r DEF PrefetchedMiss
  <2>2. Calls'
    BY <1>5, <1>i DEF PrefetchedMiss, FillIsOwn
  <2> QED  BY <1>5, <1>i2, <1>n, <1>a, <2>1, <2>2 DEF PrefetchedMiss
<1>6. ASSUME NEW c \in Callers, ReadLedger(c) PROVE IInv'
  <2>1. Calls'
    BY <1>6, <1>i, <1>n DEF ReadLedger, FillIsOwn, Reports
  <2> QED  BY <1>6, <1>i2, <1>n, <1>a, <1>m, <2>1 DEF ReadLedger
<1>7. ASSUME NEW c \in Callers, FillFails(c) PROVE IInv'
  <2>1. Calls'
    BY <1>7, <1>i, <1>n DEF FillFails, FillIsOwn, NoFill
  <2>2. Answer'
    BY <1>7, <1>i, <1>n DEF FillFails, Served, ServedReportIsRecent, AnswersTheKeySet
  <2> QED  BY <1>7, <1>i2, <1>n, <1>m, <2>1, <2>2 DEF FillFails
<1>8. ASSUME NEW c \in Callers, Put(c) PROVE IInv'
  <2> DEFINE f == fill[c]
             k == CacheKey(f.req)
  <2>1. PICK kept \in KeptSets :
            entries' = Stored(kept, k, [report |-> f.report, expires |-> now + TTL])
    BY <1>8 DEF Put
  <2>2. /\ f.req \in Requests /\ f.report \in Reports /\ f.report.of = f.req
        /\ f.started <= f.report.read /\ f.started <= now /\ now - f.started <= FetchLimit
        /\ f.started \in Nat /\ f.report.read \in Nat
    BY <1>8, <1>i DEF Put, FillIsOwn, Reports
  <2>3. kept \subseteq DOMAIN entries /\ IsFiniteSet(kept) /\ Cardinality(kept) < MaxEntries
    BY <1>i, EvictionMakesRoom
  <2>4. DOMAIN entries' = kept \cup {k}
    BY <2>1 DEF Stored
  <2>5. \A j \in DOMAIN entries' :
            entries'[j] = IF j = k THEN [report |-> f.report, expires |-> now + TTL] ELSE entries[j]
    BY <2>1, <2>4 DEF Stored
  <2>6. IsFiniteSet(DOMAIN entries') /\ Cardinality(DOMAIN entries') <= MaxEntries
    <3>1. Cardinality(kept) \in Nat
      BY <2>3, FS_CardinalityType
    <3>2. /\ IsFiniteSet(kept \cup {k})
          /\ Cardinality(kept \cup {k}) = IF k \in kept THEN Cardinality(kept) ELSE Cardinality(kept) + 1
      BY <2>3, FS_AddElement
    <3>3. Cardinality(kept \cup {k}) <= MaxEntries
      BY <2>3, <3>1, <3>2
    <3> QED  BY <2>4, <3>2, <3>3
  <2>7. k \in Keys
    BY <2>2 DEF Keys
  <2>8. now + TTL \in 0 .. MaxTime + TTL /\ now + TTL <= f.report.read + FetchLimit + TTL
    BY <1>n, <2>2
  <2>9. EntriesTyped' /\ EntryIsOwn'
    BY <1>i, <2>2, <2>3, <2>4, <2>5, <2>7, <2>8 DEF EntriesTyped, EntryIsOwn
  <2>10. Calls'
    BY <1>8, <1>i, <1>n DEF Put, FillIsOwn, NoFill
  <2>11. Answer'
    BY <1>8, <1>n, <2>2 DEF Put, Served, ServedReportIsRecent, AnswersTheKeySet
  <2> QED  BY <1>8, <1>i2, <1>n, <2>6, <2>9, <2>10, <2>11 DEF Put
<1>9. CASE Tick
  <2>1. Calls'
    BY <1>9, <1>i, <1>n DEF Tick, FillIsOwn
  <2> QED  BY <1>9, <1>i2, <1>n, <1>a, <1>m, <2>1 DEF Tick
<1>10. CASE UNCHANGED vars
  BY <1>10, <1>i2, <1>n, <1>m, <1>c, <1>a DEF vars
<1> QED
  BY <1>1, <1>2, <1>3, <1>4, <1>5, <1>6, <1>7, <1>8, <1>9, <1>10 DEF Next

(* The state is typed, and however fills overlap the map holds no more     *)
(* than its maximum.                                                       *)
THEOREM CacheTypeCorrect == Spec => []TypeOK
<1>1. IInv => TypeOK
  BY DEF IInv
<1> QED  BY <1>1, InitIInv, NextIInv, PTL DEF Spec

(* A report from the cache is younger than its lifetime and one call.      *)
THEOREM CacheServesRecent == Spec => []ServedReportIsRecent
<1>1. IInv => ServedReportIsRecent
  BY DEF IInv
<1> QED  BY <1>1, InitIInv, NextIInv, PTL DEF Spec

(* A report is for the contract, the durability and the ordered key set    *)
(* that was asked for, unless a text of one of the two requests holds the  *)
(* NUL that inspectCacheKey joins them with (inspect_cache.go:56-64).      *)
THEOREM CacheAnswersTheKeySet == Spec => []AnswersTheKeySet
<1>1. IInv => AnswersTheKeySet
  BY DEF IInv
<1> QED  BY <1>1, InitIInv, NextIInv, PTL DEF Spec

(* Only a put into a full cache of live entries loses one, the oldest.     *)
THEOREM CacheKeepsLiveEntries == Spec => LiveEntryLostOnlyWhenFull
<1> DEFINE lost == {k \in DOMAIN entries : Live(k) /\ k \notin DOMAIN entries'}
           OnlyWhenFull == \A k \in lost :
              /\ Cardinality(DOMAIN entries) = MaxEntries
              /\ Expired = {}
              /\ lost = {k}
              /\ \A j \in DOMAIN entries : entries[k].expires <= entries[j].expires
<1>1. ASSUME IInv, [Next]_vars PROVE [OnlyWhenFull]_vars
  <2>1. CASE UNCHANGED entries
    BY <2>1
  <2>2. ASSUME NEW j, ~Live(j), entries' = Restrict(entries, DOMAIN entries \ {j}) PROVE OnlyWhenFull
    BY <2>2 DEF Restrict
  <2>3. ASSUME NEW c \in Callers, Put(c) PROVE OnlyWhenFull
    <3>1. PICK kept \in KeptSets :
              entries' = Stored(kept, CacheKey(fill[c].req),
                                [report |-> fill[c].report, expires |-> now + TTL])
      BY <2>3 DEF Put
    <3>2. DOMAIN entries' = kept \cup {CacheKey(fill[c].req)}
      BY <3>1 DEF Stored
    <3>3. ASSUME NEW k \in lost
          PROVE  /\ Cardinality(DOMAIN entries) = MaxEntries
                 /\ Expired = {}
                 /\ kept = DOMAIN entries \ {k}
                 /\ \A j \in DOMAIN entries : entries[k].expires <= entries[j].expires
      BY <1>1, <3>2, <3>3, EvictsTheOldest DEF IInv, TypeOK, EntriesTyped
    <3>4. \A k \in lost : lost = {k}
      BY <3>2, <3>3
    <3> QED  BY <3>3, <3>4
  <2>4. ASSUME NEW c \in Callers, NEW r \in Requests, GetHit(c, r) \/ GetMiss(c, r) \/ Prefetch(c, r)
        PROVE  OnlyWhenFull
    BY <2>1, <2>2, <2>4 DEF GetHit, GetMiss, Prefetch
  <2>5. ASSUME NEW c \in Callers, PrefetchedHit(c) \/ PrefetchedMiss(c) \/ ReadLedger(c) \/ FillFails(c)
        PROVE  OnlyWhenFull
    BY <2>1, <2>2, <2>5 DEF PrefetchedHit, PrefetchedMiss, ReadLedger, FillFails
  <2>6. CASE Tick
    BY <2>1, <2>6 DEF Tick
  <2> QED  BY <1>1, <2>3, <2>4, <2>5, <2>6 DEF Next
<1> QED  BY <1>1, InitIInv, NextIInv, PTL DEF Spec, LiveEntryLostOnlyWhenFull
=============================================================================
