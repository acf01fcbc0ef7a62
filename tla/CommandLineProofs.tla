------------------------- MODULE CommandLineProofs -------------------------
(***************************************************************************)
(* Theorems about CommandLine, for any settings, files, arguments and      *)
(* answers.                                                                *)
(***************************************************************************)
EXTENDS CommandLine, SequenceTheorems, WellFoundedInduction, TLAPS

(* An order of all steps that agrees with the order of each command: check *)
(* parses its durability after it has opened its report, inspect before.   *)
Position ==
    [args |-> 0, locate |-> 1, load |-> 2, env |-> 3, flags |-> 4, quiet |-> 5, format |-> 6,
     durability |-> 7, report |-> 8, input |-> 10, gates |-> 11, serveFlags |-> 11,
     prober |-> 12, run |-> 13, write |-> 14, print |-> 15, verdict |-> 16]

AllSteps ==
    {"args", "locate", "load", "env", "flags", "quiet", "format", "durability", "report",
     "input", "gates", "serveFlags", "prober", "run", "write", "print", "verdict"}

Rank(c, s) == IF s = "durability" /\ c = "check" THEN 9 ELSE Position[s]

Sorted(c, t) == \A i, j \in DOMAIN t : i < j => Rank(c, t[i]) < Rank(c, t[j])

Plan(i) == <<"args">> \o Resolve(i) \o Work(i)
Needs == ToSet(Plan(inv))
Left == ToSet(todo)

LEMMA ToSetIs ==
  ASSUME NEW s
  PROVE  \A x : x \in ToSet(s) <=> \E i \in DOMAIN s : x = s[i]
BY DEF ToSet

(* What the assumption on the scenarios says of an invocation.             *)
Shape(i) ==
    /\ i.command \in Commands /\ i.form \in {"single", "file"}
    /\ i.form = "file" => i.command \in {"simulate", "check"}
    /\ i.command \in {"serve", "version"} => i.report = "" /\ i.input = ""
    /\ DOMAIN i.flags.set \subseteq
          (IF i.command = "serve" THEN FlagScalars \cup ServeScalars ELSE FlagScalars)
-----------------------------------------------------------------------------
(* The tail of a sorted sequence has all but its first step, which was the *)
(* lowest.                                                                 *)
LEMMA TailAdvances ==
  ASSUME NEW c, NEW t \in Seq(AllSteps), t # <<>>, Sorted(c, t)
  PROVE  /\ Tail(t) \in Seq(AllSteps) /\ Sorted(c, Tail(t))
         /\ Head(t) \in ToSet(t) /\ Head(t) \notin ToSet(Tail(t))
         /\ ToSet(t) = ToSet(Tail(t)) \cup {Head(t)}
         /\ \A s \in ToSet(Tail(t)) : Rank(c, Head(t)) < Rank(c, s)
<1> DEFINE u == Tail(t)
           n == Len(t)
<1>1. /\ n \in Nat \ {0} /\ DOMAIN t = 1 .. n /\ Head(t) = t[1]
      /\ u \in Seq(AllSteps) /\ DOMAIN u = 1 .. n - 1
      /\ \A i \in 1 .. n - 1 : u[i] = t[i + 1]
  <2>1. n \in Nat \ {0} /\ DOMAIN t = 1 .. n /\ Head(t) = t[1]
    <3>1. n \in Nat \ {0}
      BY EmptySeq
    <3>2. DOMAIN t = 1 .. n
      BY LenProperties
    <3> QED  BY <3>1, <3>2
  <2>2. u \in Seq(AllSteps) /\ Len(u) = n - 1 /\ \A i \in 1 .. n - 1 : u[i] = t[i + 1]
    BY HeadTailProperties
  <2> QED  BY <2>1, <2>2, LenProperties
<1> HIDE DEF u, n
<1>2. Sorted(c, u)
  <2>1. SUFFICES ASSUME NEW i \in 1 .. n - 1, NEW j \in 1 .. n - 1, i < j
                 PROVE  Rank(c, u[i]) < Rank(c, u[j])
    BY <1>1 DEF Sorted
  <2>2. i + 1 \in 1 .. n /\ j + 1 \in 1 .. n /\ i + 1 < j + 1
    BY <1>1, <2>1
  <2>3. Rank(c, t[i + 1]) < Rank(c, t[j + 1])
    BY <1>1, <2>2 DEF Sorted
  <2> QED  BY <1>1, <2>3
<1>3. \A s \in ToSet(u) : Rank(c, t[1]) < Rank(c, s)
  <2>1. SUFFICES ASSUME NEW i \in 1 .. n - 1 PROVE Rank(c, t[1]) < Rank(c, u[i])
    BY <1>1, ToSetIs
  <2>2. 1 \in DOMAIN t /\ i + 1 \in DOMAIN t /\ 1 < i + 1 /\ u[i] = t[i + 1]
    BY <1>1
  <2> QED  BY <2>2 DEF Sorted
<1>4. \A k \in AllSteps : Rank(c, k) \in Int
  BY DEF Rank, Position, AllSteps
<1>5. t[1] \in AllSteps
  BY <1>1
<1>6. t[1] \notin ToSet(u)
  BY <1>3, <1>4, <1>5
<1>7. ToSet(t) = ToSet(u) \cup {t[1]}
  <2>1. ASSUME NEW i \in 1 .. n, i # 1 PROVE i - 1 \in 1 .. n - 1 /\ t[i] = u[i - 1]
    BY <1>1, <2>1
  <2>2. ASSUME NEW i \in 1 .. n - 1 PROVE i + 1 \in 1 .. n /\ u[i] = t[i + 1]
    BY <1>1, <2>2
  <2>3. 1 \in 1 .. n
    BY <1>1
  <2>4. ASSUME NEW i \in 1 .. n PROVE t[i] \in ToSet(u) \cup {t[1]}
    <3>1. CASE i = 1
      BY <3>1
    <3>2. CASE i # 1
      BY <1>1, <2>1, <3>2 DEF ToSet
    <3> QED  BY <3>1, <3>2
  <2>5. ToSet(u) \cup {t[1]} \subseteq ToSet(t)
    BY <1>1, <2>2, <2>3 DEF ToSet
  <2>6. ToSet(t) \subseteq ToSet(u) \cup {t[1]}
    BY <1>1, <2>4 DEF ToSet
  <2> QED  BY <2>5, <2>6
<1>8. t[1] \in ToSet(t)
  BY <1>7
<1> QED  BY <1>1, <1>2, <1>3, <1>6, <1>7, <1>8 DEF u

(* Two sorted sequences, one below the other, are sorted together.         *)
LEMMA ConcatSorted ==
  ASSUME NEW c, NEW s \in Seq(AllSteps), NEW t \in Seq(AllSteps), Sorted(c, s), Sorted(c, t),
         \A x \in ToSet(s), y \in ToSet(t) : Rank(c, x) < Rank(c, y)
  PROVE  /\ s \o t \in Seq(AllSteps)
         /\ Sorted(c, s \o t)
         /\ ToSet(s \o t) = ToSet(s) \cup ToSet(t)
<1> DEFINE u == s \o t
           m == Len(s)
           n == Len(t)
<1>1. /\ m \in Nat /\ n \in Nat /\ u \in Seq(AllSteps)
      /\ DOMAIN s = 1 .. m /\ DOMAIN t = 1 .. n /\ DOMAIN u = 1 .. m + n
      /\ \A i \in 1 .. m : u[i] = s[i]
      /\ \A i \in 1 .. n : u[m + i] = t[i]
  <2>1. m \in Nat /\ n \in Nat /\ DOMAIN s = 1 .. m /\ DOMAIN t = 1 .. n
    BY LenProperties
  <2>2. /\ u \in Seq(AllSteps) /\ Len(u) = m + n
        /\ \A i \in 1 .. m + n : u[i] = IF i <= m THEN s[i] ELSE t[i - m]
    BY ConcatProperties
  <2>3. DOMAIN u = 1 .. m + n
    BY <2>2, LenProperties
  <2> HIDE DEF u, m, n
  <2>4. ASSUME NEW i \in 1 .. m PROVE u[i] = s[i]
    BY <2>1, <2>2
  <2>5. ASSUME NEW i \in 1 .. n PROVE u[m + i] = t[i]
    <3>1. m + i \in 1 .. m + n /\ ~(m + i <= m) /\ (m + i) - m = i
      BY <2>1
    <3> QED  BY <2>2, <3>1
  <2> QED  BY <2>1, <2>2, <2>3, <2>4, <2>5
<1> HIDE DEF u, m, n
<1>2. ASSUME NEW i \in 1 .. m + n
      PROVE  \/ i \in 1 .. m /\ u[i] = s[i] /\ u[i] \in ToSet(s)
             \/ i - m \in 1 .. n /\ u[i] = t[i - m] /\ u[i] \in ToSet(t) /\ ~(i <= m)
  <2>1. CASE i <= m
    <3>1. i \in 1 .. m /\ u[i] = s[i]
      BY <1>1, <2>1
    <3>2. s[i] \in ToSet(s)
      BY <1>1, <3>1, ToSetIs
    <3> QED  BY <3>1, <3>2
  <2>2. CASE ~(i <= m)
    <3>1. i - m \in 1 .. n /\ m + (i - m) = i
      BY <1>1, <2>2
    <3>2. u[i] = t[i - m]
      BY <1>1, <3>1
    <3>3. t[i - m] \in ToSet(t)
      BY <1>1, <3>1, ToSetIs
    <3> QED  BY <2>2, <3>1, <3>2, <3>3
  <2> QED  BY <2>1, <2>2
<1>3. Sorted(c, u)
  <2>1. SUFFICES ASSUME NEW i \in 1 .. m + n, NEW j \in 1 .. m + n, i < j
                 PROVE  Rank(c, u[i]) < Rank(c, u[j])
    BY <1>1 DEF Sorted
  <2>2. CASE j \in 1 .. m
    <3>1. i \in 1 .. m /\ u[i] = s[i] /\ u[j] = s[j]
      BY <1>1, <2>1, <2>2
    <3> QED  BY <1>1, <2>1, <2>2, <3>1 DEF Sorted
  <2>3. CASE i \in 1 .. m /\ ~(j \in 1 .. m)
    BY <1>1, <1>2, <2>3
  <2>4. CASE ~(i \in 1 .. m) /\ ~(j \in 1 .. m)
    <3>1. /\ i - m \in 1 .. n /\ j - m \in 1 .. n /\ i - m < j - m
          /\ u[i] = t[i - m] /\ u[j] = t[j - m]
      BY <1>1, <1>2, <2>1, <2>4
    <3> QED  BY <1>1, <3>1 DEF Sorted
  <2> QED  BY <2>2, <2>3, <2>4
<1>4. ToSet(u) = ToSet(s) \cup ToSet(t)
  <2>1. ToSet(u) \subseteq ToSet(s) \cup ToSet(t)
    BY <1>1, <1>2 DEF ToSet
  <2>2. ASSUME NEW i \in 1 .. m PROVE s[i] \in ToSet(u)
    BY <1>1 DEF ToSet
  <2>3. ASSUME NEW i \in 1 .. n PROVE t[i] \in ToSet(u)
    <3>1. m + i \in 1 .. m + n /\ u[m + i] = t[i]
      BY <1>1
    <3> QED  BY <1>1, <3>1 DEF ToSet
  <2>4. ToSet(s) \subseteq ToSet(u) /\ ToSet(t) \subseteq ToSet(u)
    BY <1>1, <2>2, <2>3, ToSetIs
  <2> QED  BY <2>1, <2>4
<1> QED  BY <1>1, <1>3, <1>4 DEF u

(* The steps of each command, in order.                                    *)
WorkSteps == AllSteps \ {"args", "locate", "load", "env", "flags"}

LEMMA WorkFacts ==
  ASSUME NEW i, Shape(i)
  PROVE  /\ Work(i) \in Seq(AllSteps) /\ Sorted(i.command, Work(i))
         /\ ToSet(Work(i)) \subseteq WorkSteps
         /\ i.command \notin {"serve", "version"} =>
               {"report", "input", "prober", "run", "write", "print", "verdict"}
                  \subseteq ToSet(Work(i))
         /\ i.command = "serve" =>
               ToSet(Work(i)) = {"serveFlags", "prober", "run", "verdict"}
         /\ i.command = "version" => ToSet(Work(i)) = {"print"}
         /\ i.command # "serve" => "serveFlags" \notin ToSet(Work(i))
<1>1. CASE i.command = "simulate" /\ i.form = "single"
  BY <1>1 DEF Work, Sorted, Rank, Position, AllSteps, WorkSteps, ToSet
<1>2. CASE i.command = "simulate" /\ i.form = "file"
  BY <1>2 DEF Work, Sorted, Rank, Position, AllSteps, WorkSteps, ToSet
<1>3. CASE i.command = "inspect"
  BY <1>3 DEF Work, Sorted, Rank, Position, AllSteps, WorkSteps, ToSet
<1>4. CASE i.command = "check" /\ i.form = "single"
  BY <1>4 DEF Work, Sorted, Rank, Position, AllSteps, WorkSteps, ToSet
<1>5. CASE i.command = "check" /\ i.form = "file"
  BY <1>5 DEF Work, Sorted, Rank, Position, AllSteps, WorkSteps, ToSet
<1>6. CASE i.command = "serve"
  BY <1>6 DEF Work, Sorted, Rank, Position, AllSteps, WorkSteps, ToSet
<1>7. CASE i.command = "version"
  BY <1>7 DEF Work, Sorted, Rank, Position, AllSteps, WorkSteps, ToSet
<1> QED  BY <1>1, <1>2, <1>3, <1>4, <1>5, <1>6, <1>7 DEF Shape, Commands

LEMMA PlanFacts ==
  ASSUME NEW i, Shape(i)
  PROVE  /\ Plan(i) \in Seq(AllSteps) /\ Sorted(i.command, Plan(i))
         /\ i.command # "version" =>
               {"locate", "load", "env", "flags", "prober", "run", "verdict"}
                  \subseteq ToSet(Plan(i))
         /\ i.command \notin {"serve", "version"} =>
               {"report", "input", "write", "print"} \subseteq ToSet(Plan(i))
         /\ i.command \in {"serve", "version"} =>
               {"report", "input", "write"} \cap ToSet(Plan(i)) = {}
         /\ i.command = "serve" =>
               {"serveFlags"} \subseteq ToSet(Plan(i)) /\ "print" \notin ToSet(Plan(i))
         /\ i.command # "serve" => "serveFlags" \notin ToSet(Plan(i))
         /\ i.command = "version" => ToSet(Plan(i)) \subseteq {"args", "print"}
<1> DEFINE c == i.command
           a == <<"args">>
           r == Resolve(i)
           w == Work(i)
<1>1. /\ a \in Seq(AllSteps) /\ Sorted(c, a) /\ ToSet(a) = {"args"}
      /\ r \in Seq(AllSteps) /\ Sorted(c, r)
      /\ ToSet(r) = IF c = "version" THEN {} ELSE {"locate", "load", "env", "flags"}
  <2>1. a \in Seq(AllSteps) /\ Sorted(c, a) /\ ToSet(a) = {"args"}
    BY DEF Sorted, Rank, Position, AllSteps, ToSet
  <2>2. CASE c = "version"
    BY <2>1, <2>2 DEF Resolve, Sorted, Rank, Position, AllSteps, ToSet
  <2>3. CASE c # "version"
    BY <2>1, <2>3 DEF Resolve, Sorted, Rank, Position, AllSteps, ToSet
  <2> QED  BY <2>2, <2>3
<1>2. \A x \in {"args"}, y \in {"locate", "load", "env", "flags"} : Rank(c, x) < Rank(c, y)
  BY DEF Rank, Position
<1>3. \A x \in {"args", "locate", "load", "env", "flags"}, y \in WorkSteps :
         Rank(c, x) < Rank(c, y)
  BY DEF Rank, Position, WorkSteps, AllSteps
<1>4. /\ a \o r \in Seq(AllSteps) /\ Sorted(c, a \o r)
      /\ ToSet(a \o r) = ToSet(a) \cup ToSet(r)
  <2>1. \A x \in ToSet(a), y \in ToSet(r) : Rank(c, x) < Rank(c, y)
    BY <1>1, <1>2
  <2> HIDE DEF a, r, c
  <2> QED  BY <1>1, <2>1, ConcatSorted
<1>5. /\ w \in Seq(AllSteps) /\ Sorted(c, w) /\ ToSet(w) \subseteq WorkSteps
  BY WorkFacts
<1>6. /\ Plan(i) \in Seq(AllSteps) /\ Sorted(c, Plan(i))
      /\ ToSet(Plan(i)) = ToSet(a \o r) \cup ToSet(w)
  <2>1. \A x \in ToSet(a \o r), y \in ToSet(w) : Rank(c, x) < Rank(c, y)
    BY <1>1, <1>3, <1>4, <1>5
  <2>2. Plan(i) = (a \o r) \o w
    BY DEF Plan
  <2> DEFINE b == a \o r
  <2>3. /\ b \in Seq(AllSteps) /\ Sorted(c, b)
        /\ \A x \in ToSet(b), y \in ToSet(w) : Rank(c, x) < Rank(c, y)
    BY <1>4, <2>1
  <2> HIDE DEF c, w, b
  <2>4. /\ b \o w \in Seq(AllSteps) /\ Sorted(c, b \o w)
        /\ ToSet(b \o w) = ToSet(b) \cup ToSet(w)
    BY <1>5, <2>3, ConcatSorted
  <2> QED  BY <2>2, <2>4 DEF b
<1>7. /\ c \notin {"serve", "version"} =>
            {"report", "input", "prober", "run", "write", "print", "verdict"} \subseteq ToSet(w)
      /\ c = "serve" => ToSet(w) = {"serveFlags", "prober", "run", "verdict"}
      /\ c = "version" => ToSet(w) = {"print"}
      /\ c # "serve" => "serveFlags" \notin ToSet(w)
  BY WorkFacts
<1> HIDE DEF a, r, w
<1> QED  BY <1>1, <1>4, <1>6, <1>7
-----------------------------------------------------------------------------
(* Where a command is: what is left of its steps is in order, and is all   *)
(* that comes after the first of them.                                     *)
Ordered ==
    /\ Shape(inv)
    /\ todo \in Seq(AllSteps) /\ Sorted(inv.command, todo)
    /\ Left \subseteq Needs
    /\ \A s \in Left, t \in Needs : Rank(inv.command, s) < Rank(inv.command, t) => t \in Left

LEMMA Advance ==
  ASSUME Ordered, NEW x, At(x), todo' = Tail(todo), inv' = inv
  PROVE  /\ Ordered' /\ Needs' = Needs
         /\ x \in Left /\ x \in Needs /\ Left' = Left \ {x}
         /\ \A s \in Left' : Rank(inv.command, x) < Rank(inv.command, s)
         /\ \A s \in Needs : Rank(inv.command, x) < Rank(inv.command, s) => s \in Left'
<1> DEFINE c == inv.command
<1>1. /\ todo' \in Seq(AllSteps) /\ Sorted(c, todo')
      /\ x \in Left /\ x \notin Left' /\ Left = Left' \cup {x}
      /\ \A s \in Left' : Rank(c, x) < Rank(c, s)
  BY TailAdvances DEF Ordered, At, Left
<1>2. Needs' = Needs
  BY DEF Needs
<1>3. x \in Needs
  BY <1>1 DEF Ordered
<1>4. \A s \in Left' : Rank(c, x) \in Int /\ Rank(c, s) \in Int
  <2>1. \A k \in AllSteps : Rank(c, k) \in Int
    BY DEF Rank, Position, AllSteps
  <2>2. \A s \in Left : s \in AllSteps
    BY DEF Left, Ordered, ToSet
  <2> QED  BY <1>1, <2>1, <2>2
<1>5. \A s \in Needs : Rank(c, x) < Rank(c, s) => s \in Left'
  <2>1. SUFFICES ASSUME NEW s \in Needs, Rank(c, x) < Rank(c, s) PROVE s \in Left'
    OBVIOUS
  <2>2. s \in Left
    BY <1>1, <2>1 DEF Ordered
  <2>3. s # x
    <3>1. x \in AllSteps
      BY <1>1 DEF Left, Ordered, ToSet
    <3>2. Rank(c, x) \in Int
      BY <3>1 DEF Rank, Position, AllSteps
    <3> QED  BY <2>1, <3>2
  <2> QED  BY <1>1, <2>2, <2>3
<1>6. Ordered'
  <2>1. \A s \in Left', t \in Needs' : Rank(c, s) < Rank(c, t) => t \in Left'
    <3>1. SUFFICES ASSUME NEW s \in Left', NEW t \in Needs, Rank(c, s) < Rank(c, t)
                   PROVE  t \in Left'
      BY <1>2
    <3>2. Rank(c, x) < Rank(c, s)
      BY <1>1
    <3>3. t \in Left
      BY <1>1, <3>1 DEF Ordered
    <3>4. t # x
      BY <1>4, <3>1, <3>2
    <3> QED  BY <1>1, <3>3, <3>4
  <2> QED  BY <1>1, <1>2, <2>1 DEF Ordered
<1> QED  BY <1>1, <1>2, <1>3, <1>5, <1>6

LEMMA Halt ==
  ASSUME Ordered, todo' = <<>>, inv' = inv
  PROVE  Ordered' /\ Needs' = Needs /\ Left' = {}
<1>1. Left' = {} /\ Needs' = Needs
  BY DEF Left, Needs, ToSet
<1>2. todo' \in Seq(AllSteps) /\ Sorted(inv.command, todo')
  BY DEF Sorted
<1> QED  BY <1>1, <1>2 DEF Ordered

LEMMA InFront ==
  ASSUME Ordered, NEW x, At(x)
  PROVE  /\ todo # <<>> /\ x \in Left /\ x \in Needs
         /\ \A s \in Left : s = x \/ Rank(inv.command, x) < Rank(inv.command, s)
         /\ \A s \in Needs : Rank(inv.command, x) < Rank(inv.command, s) => s \in Left
<1>1. todo # <<>> /\ x = Head(todo) /\ todo \in Seq(AllSteps) /\ Sorted(inv.command, todo)
  BY DEF Ordered, At
<1>2. /\ x \in Left /\ Left = ToSet(Tail(todo)) \cup {x}
      /\ \A s \in ToSet(Tail(todo)) : Rank(inv.command, x) < Rank(inv.command, s)
  BY <1>1, TailAdvances DEF Left
<1> QED  BY <1>1, <1>2 DEF Ordered

(* What each command needs, of its own plan.                               *)
LEMMA NeedsFacts ==
  ASSUME Ordered
  PROVE  /\ inv.command # "version" =>
               {"locate", "load", "env", "flags", "prober", "run", "verdict"} \subseteq Needs
         /\ inv.command \notin {"serve", "version"} =>
               {"report", "input", "write", "print"} \subseteq Needs
         /\ inv.command \in {"serve", "version"} =>
               {"report", "input", "write"} \cap Needs = {}
         /\ inv.command = "serve" => "serveFlags" \in Needs /\ "print" \notin Needs
         /\ inv.command # "serve" => "serveFlags" \notin Needs
         /\ inv.command = "version" =>
               {"locate", "load", "env", "flags", "serveFlags", "prober", "run", "verdict"}
                  \cap Needs = {}
         /\ inv.command \in Commands
         /\ inv.command \in {"serve", "version"} => inv.report = "" /\ inv.input = ""
BY PlanFacts DEF Ordered, Needs, Shape

LEMMA Ranks ==
  ASSUME NEW c
  PROVE  /\ Rank(c, "args") = 0 /\ Rank(c, "locate") = 1 /\ Rank(c, "load") = 2
         /\ Rank(c, "env") = 3 /\ Rank(c, "flags") = 4 /\ Rank(c, "report") = 8
         /\ Rank(c, "input") = 10 /\ Rank(c, "serveFlags") = 11 /\ Rank(c, "prober") = 12
         /\ Rank(c, "run") = 13 /\ Rank(c, "write") = 14 /\ Rank(c, "print") = 15
         /\ Rank(c, "verdict") = 16 /\ Rank(c, "durability") \in {7, 9}
         /\ Rank(c, "quiet") = 5 /\ Rank(c, "format") = 6 /\ Rank(c, "gates") = 11
<1>1. /\ Rank(c, "args") = 0 /\ Rank(c, "locate") = 1 /\ Rank(c, "load") = 2
      /\ Rank(c, "env") = 3 /\ Rank(c, "flags") = 4
  BY DEF Rank, Position
<1>2. /\ Rank(c, "report") = 8 /\ Rank(c, "input") = 10 /\ Rank(c, "serveFlags") = 11
      /\ Rank(c, "prober") = 12 /\ Rank(c, "run") = 13
  BY DEF Rank, Position
<1>3. Rank(c, "write") = 14 /\ Rank(c, "print") = 15 /\ Rank(c, "verdict") = 16
  BY DEF Rank, Position
<1>4. /\ Rank(c, "quiet") = 5 /\ Rank(c, "format") = 6 /\ Rank(c, "gates") = 11
      /\ Rank(c, "durability") \in {7, 9}
  BY DEF Rank, Position
<1> QED  BY <1>1, <1>2, <1>3, <1>4
-----------------------------------------------------------------------------
(* What a step of the plan has done once it is passed.                     *)
Passed(s) == s \in Needs /\ s \notin Left

ErrorStops == err \in Errors /\ (err # "none" => todo = <<>>)

ReportFollows ==
    /\ report \in {"none", "open", "closed"}
    /\ inv.report # "" => inv.report \in DOMAIN disk
    /\ report # "none" => inv.report # "" /\ "report" \in Needs
    /\ "report" \in Left => report = "none"
    /\ err = "none" /\ Passed("report") /\ inv.report # "" => report # "none"
    /\ report = "closed" => todo = <<>>

OutcomeFollows ==
    /\ "run" \notin Needs \/ "run" \in Left => outcome = "none"
    /\ err = "none" /\ Passed("run") => outcome \in {"pass", "fail", "incomplete"}
    /\ err = "none" /\ Passed("verdict") => outcome = "pass"

ReadAsAsked == inv.input # "" /\ ~Keyed => read = Input

DeliveryFollows ==
    /\ err = "none" /\ Passed("write") /\ report # "none" => disk[inv.report] = Result
    /\ err = "none" /\ Passed("print") /\ ~inv.quiet => printed
    /\ "print" \in Left => ~printed
    /\ err = "none" /\ Passed("input") => ReadAsAsked

VerdictFollows ==
    /\ err = "failed" => outcome = "fail" /\ Delivered /\ ReadAsAsked
    /\ err = "error" => ~(outcome = "fail" /\ Delivered)

ExitFollows ==
    exit # -1 => /\ todo = <<>> /\ report # "open"
                 /\ exit = CASE err = "none" -> 0 [] err = "failed" -> 1 [] err = "error" -> 2

ExitIInv ==
    /\ Ordered /\ ErrorStops /\ ReportFollows /\ OutcomeFollows /\ DeliveryFollows
    /\ VerdictFollows /\ ExitFollows

(* The steps that neither touch a file nor the result.                     *)
Quiet == AllSteps \ {"report", "input", "run", "write", "print", "verdict"}

LEMMA QuietStep ==
  ASSUME ExitIInv, NEW x \in Quiet, At(x), Continue \/ Fail("error"),
         UNCHANGED <<inv, disk, report, outcome, printed, exit, read>>
  PROVE  ExitIInv'
<1>1. /\ todo # <<>> /\ exit = -1 /\ err = "none"
      /\ x \in Left /\ x \in Needs
      /\ "run" \in Needs => "run" \in Left
  <2>1. x # "verdict" /\ Rank(inv.command, x) < Rank(inv.command, "run")
    BY Ranks DEF Quiet, AllSteps
  <2> QED  BY <2>1, InFront DEF ExitIInv, ErrorStops, ExitFollows
<1>2. outcome = "none"
  BY <1>1 DEF ExitIInv, OutcomeFollows
<1>3. Delivered' = Delivered /\ ReadAsAsked' = ReadAsAsked
  BY DEF Delivered, ReadAsAsked, Keyed
<1>4. CASE Continue
  <2>1. Ordered' /\ Needs' = Needs /\ Left' = Left \ {x} /\ err' = "none"
    BY <1>1, <1>4, Advance DEF Continue, ExitIInv
  <2>2. \A s \in {"report", "input", "run", "write", "print", "verdict"} :
           (s \in Left' <=> s \in Left) /\ (Passed(s)' <=> Passed(s))
    BY <2>1 DEF Quiet, Passed
  <2>3. ErrorStops' /\ ReportFollows' /\ OutcomeFollows'
    BY <1>1, <2>1, <2>2 DEF ExitIInv, ErrorStops, Errors, ReportFollows, OutcomeFollows
  <2>4. DeliveryFollows' /\ VerdictFollows' /\ ExitFollows'
    BY <1>1, <1>3, <2>1, <2>2 DEF ExitIInv, DeliveryFollows, VerdictFollows, ExitFollows
  <2> QED  BY <2>1, <2>3, <2>4 DEF ExitIInv
<1>5. CASE Fail("error")
  <2>1. Ordered' /\ Needs' = Needs /\ Left' = {} /\ err' = "error" /\ todo' = <<>>
    BY <1>5, Halt DEF Fail, ExitIInv
  <2>2. ErrorStops' /\ ReportFollows' /\ OutcomeFollows'
    BY <1>1, <1>2, <2>1 DEF ExitIInv, ErrorStops, Errors, ReportFollows, OutcomeFollows
  <2>3. DeliveryFollows' /\ VerdictFollows' /\ ExitFollows'
    BY <1>1, <1>2, <2>1 DEF DeliveryFollows, VerdictFollows, ExitFollows
  <2> QED  BY <2>1, <2>2, <2>3 DEF ExitIInv
<1> QED  BY <1>4, <1>5

LEMMA RemoveConfigKeepsExit ==
  ASSUME ExitIInv, RemoveConfig
  PROVE  ExitIInv'
<1>1. /\ todo # <<>> /\ todo' = todo /\ exit' = -1 /\ err = "none"
      /\ "write" \in Needs => "write" \in Left
      /\ UNCHANGED <<inv, report, outcome, printed, exit, read, err>>
  <2>1. Rank(inv.command, "load") < Rank(inv.command, "write")
    BY Ranks
  <2> QED  BY <2>1, InFront DEF RemoveConfig, ExitIInv, ErrorStops, ExitFollows, probe
<1>2. Left' = Left /\ Needs' = Needs /\ Ordered'
  BY <1>1 DEF Left, Needs, Ordered, ExitIInv
<1>3. DOMAIN disk' = DOMAIN disk
  BY DEF RemoveConfig
<1>4. \A s : Passed(s)' <=> Passed(s)
  BY <1>2 DEF Passed
<1>5. ErrorStops' /\ ReportFollows' /\ OutcomeFollows'
  BY <1>1, <1>2, <1>3, <1>4 DEF ExitIInv, ErrorStops, ReportFollows, OutcomeFollows
<1>6. DeliveryFollows' /\ VerdictFollows' /\ ExitFollows'
  <2>1. ~Passed("write") /\ (ReadAsAsked' <=> ReadAsAsked)
    BY <1>1 DEF Passed, ReadAsAsked, Keyed
  <2> QED  BY <1>1, <1>2, <1>4, <2>1 DEF ExitIInv, DeliveryFollows, VerdictFollows, ExitFollows
<1> QED  BY <1>2, <1>5, <1>6 DEF ExitIInv

LEMMA OpenReportKeepsExit ==
  ASSUME ExitIInv, OpenReport
  PROVE  ExitIInv'
<1>1. /\ todo # <<>> /\ exit = -1 /\ err = "none" /\ report = "none" /\ outcome = "none"
      /\ "report" \in Needs /\ "report" \in Left /\ "run" \in Left /\ "run" \in Needs
      /\ "write" \in Left /\ "print" \in Left /\ "input" \in Left /\ "verdict" \in Left
      /\ UNCHANGED <<inv, outcome, printed, exit, read>>
  <2>1. todo # <<>> /\ "report" \in Needs /\ "report" \in Left
    BY InFront DEF OpenReport, ExitIInv
  <2>2. inv.command \notin {"serve", "version"}
    BY <2>1, NeedsFacts DEF ExitIInv
  <2>3. {"run", "input", "write", "print", "verdict"} \subseteq Needs
    BY <2>2, NeedsFacts DEF ExitIInv
  <2>4. \A s \in {"run", "input", "write", "print", "verdict"} : s \in Left
    <3>1. \A s \in Needs : Rank(inv.command, "report") < Rank(inv.command, s) => s \in Left
      BY InFront DEF OpenReport, ExitIInv
    <3>2. \A s \in {"run", "input", "write", "print", "verdict"} :
             Rank(inv.command, "report") < Rank(inv.command, s)
      BY Ranks
    <3> QED  BY <2>3, <3>1, <3>2
  <2> QED  BY <2>1, <2>3, <2>4
           DEF OpenReport, ExitIInv, ErrorStops, ReportFollows, OutcomeFollows, ExitFollows, probe
<1>2. CASE Continue
  <2>1. Ordered' /\ Needs' = Needs /\ Left' = Left \ {"report"} /\ err' = "none"
    BY <1>1, <1>2, Advance DEF Continue, ExitIInv, OpenReport
  <2>2. \/ inv.report = "" /\ disk' = disk /\ report' = "none"
        \/ inv.report # "" /\ DOMAIN disk' = DOMAIN disk /\ report' = "open"
    BY <1>1, <1>2, <2>1 DEF OpenReport, Fail
  <2>3. ErrorStops' /\ ReportFollows' /\ OutcomeFollows'
    BY <1>1, <2>1, <2>2 DEF ExitIInv, ErrorStops, Errors, ReportFollows, OutcomeFollows, Passed
  <2>4. DeliveryFollows' /\ VerdictFollows' /\ ExitFollows'
    BY <1>1, <2>1, <2>2 DEF ExitIInv, DeliveryFollows, VerdictFollows, ExitFollows, Passed
  <2> QED  BY <2>1, <2>3, <2>4 DEF ExitIInv
<1>3. CASE Fail("error") /\ UNCHANGED <<disk, report>>
  <2>1. Ordered' /\ Needs' = Needs /\ Left' = {} /\ err' = "error" /\ todo' = <<>>
    BY <1>1, <1>3, Halt DEF Fail, ExitIInv
  <2>2. ErrorStops' /\ ReportFollows' /\ OutcomeFollows'
    BY <1>1, <1>3, <2>1 DEF ExitIInv, ErrorStops, Errors, ReportFollows, OutcomeFollows
  <2>3. DeliveryFollows' /\ VerdictFollows' /\ ExitFollows'
    BY <1>1, <1>3, <2>1 DEF DeliveryFollows, VerdictFollows, ExitFollows
  <2> QED  BY <2>1, <2>2, <2>3 DEF ExitIInv
<1> QED  BY <1>2, <1>3 DEF OpenReport

LEMMA ReadInputKeepsExit ==
  ASSUME ExitIInv, ReadInput
  PROVE  ExitIInv'
<1>1. /\ todo # <<>> /\ exit = -1 /\ err = "none" /\ outcome = "none"
      /\ "input" \in Needs /\ "input" \in Left /\ "run" \in Left /\ "run" \in Needs
      /\ "write" \in Left /\ "print" \in Left
      /\ UNCHANGED <<inv, disk, report, outcome, printed, exit>>
  <2>1. todo # <<>> /\ "input" \in Needs /\ "input" \in Left
    BY InFront DEF ReadInput, ExitIInv
  <2>2. inv.command \notin {"serve", "version"}
    BY <2>1, NeedsFacts DEF ExitIInv
  <2>3. {"run", "write", "print"} \subseteq Needs
    BY <2>2, NeedsFacts DEF ExitIInv
  <2>4. \A s \in {"run", "write", "print"} : s \in Left
    <3>1. \A s \in Needs : Rank(inv.command, "input") < Rank(inv.command, s) => s \in Left
      BY InFront DEF ReadInput, ExitIInv
    <3>2. \A s \in {"run", "write", "print"} :
             Rank(inv.command, "input") < Rank(inv.command, s)
      BY Ranks
    <3> QED  BY <2>3, <3>1, <3>2
  <2> QED  BY <2>1, <2>3, <2>4
           DEF ReadInput, ExitIInv, ErrorStops, OutcomeFollows, ExitFollows, probe
<1>2. CASE Continue
  <2>1. Ordered' /\ Needs' = Needs /\ Left' = Left \ {"input"} /\ err' = "none"
    BY <1>1, <1>2, Advance DEF Continue, ExitIInv, ReadInput
  <2>2. ReadAsAsked'
    <3>1. CASE inv.input = ""
      BY <1>1, <3>1 DEF ReadAsAsked
    <3>2. CASE inv.input # ""
      BY <1>1, <2>1, <3>2 DEF ReadAsAsked, ReadInput, Keyed, Fail
    <3> QED  BY <3>1, <3>2
  <2>3. ErrorStops' /\ ReportFollows' /\ OutcomeFollows'
    BY <1>1, <2>1 DEF ExitIInv, ErrorStops, Errors, ReportFollows, OutcomeFollows, Passed
  <2>4. DeliveryFollows' /\ VerdictFollows' /\ ExitFollows'
    BY <1>1, <2>1, <2>2 DEF ExitIInv, DeliveryFollows, VerdictFollows, ExitFollows, Passed
  <2> QED  BY <2>1, <2>3, <2>4 DEF ExitIInv
<1>3. CASE Fail("error")
  <2>1. Ordered' /\ Needs' = Needs /\ Left' = {} /\ err' = "error" /\ todo' = <<>>
    BY <1>1, <1>3, Halt DEF Fail, ExitIInv
  <2>2. ErrorStops' /\ ReportFollows' /\ OutcomeFollows'
    BY <1>1, <1>3, <2>1 DEF ExitIInv, ErrorStops, Errors, ReportFollows, OutcomeFollows
  <2>3. DeliveryFollows' /\ VerdictFollows' /\ ExitFollows'
    BY <1>1, <1>3, <2>1 DEF DeliveryFollows, VerdictFollows, ExitFollows
  <2> QED  BY <2>1, <2>2, <2>3 DEF ExitIInv
<1> QED  BY <1>2, <1>3 DEF ReadInput

LEMMA RunProbeKeepsExit ==
  ASSUME ExitIInv, RunProbe
  PROVE  ExitIInv'
<1>1. PICK o \in Outcomes : /\ outcome' = o
                            /\ IF o = "error" THEN Fail("error") ELSE Continue
  BY DEF RunProbe
<1>2. o \in {"pass", "fail", "incomplete", "error"}
  BY DEF Outcomes, Verdicts
<1>3. /\ todo # <<>> /\ exit = -1 /\ err = "none" /\ At("run")
      /\ "run" \in Needs /\ "run" \in Left /\ "verdict" \in Left
      /\ "write" \in Needs => "write" \in Left
      /\ "print" \in Needs => "print" \in Left
      /\ UNCHANGED <<inv, disk, report, printed, exit, read>>
  <2>1. todo # <<>> /\ "run" \in Needs /\ "run" \in Left
    BY InFront DEF RunProbe, ExitIInv
  <2>2. "verdict" \in Needs
    <3>1. inv.command # "version"
      BY <2>1, NeedsFacts DEF ExitIInv
    <3> QED  BY <3>1, NeedsFacts DEF ExitIInv
  <2>3. \A s \in {"verdict", "write", "print"} : s \in Needs => s \in Left
    BY InFront, Ranks DEF RunProbe, ExitIInv
  <2> QED  BY <2>1, <2>2, <2>3 DEF RunProbe, ExitIInv, ErrorStops, ExitFollows
<1>4. CASE o # "error"
  <2>1. Ordered' /\ Needs' = Needs /\ Left' = Left \ {"run"} /\ err' = "none"
    BY <1>1, <1>3, <1>4, Advance DEF Continue, ExitIInv
  <2>2. ReadAsAsked' <=> ReadAsAsked
    BY <1>3 DEF ReadAsAsked, Keyed
  <2>3. ErrorStops' /\ ReportFollows' /\ OutcomeFollows'
    BY <1>1, <1>2, <1>3, <1>4, <2>1
    DEF ExitIInv, ErrorStops, Errors, ReportFollows, OutcomeFollows, Passed
  <2>4. DeliveryFollows' /\ VerdictFollows' /\ ExitFollows'
    BY <1>3, <2>1, <2>2 DEF ExitIInv, DeliveryFollows, VerdictFollows, ExitFollows, Passed
  <2> QED  BY <2>1, <2>3, <2>4 DEF ExitIInv
<1>5. CASE o = "error"
  <2>1. Ordered' /\ Needs' = Needs /\ Left' = {} /\ err' = "error" /\ todo' = <<>>
    BY <1>1, <1>3, <1>5, Halt DEF Fail, ExitIInv
  <2>2. ErrorStops' /\ ReportFollows' /\ OutcomeFollows'
    BY <1>3, <2>1 DEF ExitIInv, ErrorStops, Errors, ReportFollows, OutcomeFollows
  <2>3. DeliveryFollows' /\ VerdictFollows' /\ ExitFollows'
    BY <1>1, <1>3, <1>5, <2>1 DEF DeliveryFollows, VerdictFollows, ExitFollows
  <2> QED  BY <2>1, <2>2, <2>3 DEF ExitIInv
<1> QED  BY <1>4, <1>5

LEMMA WriteReportKeepsExit ==
  ASSUME ExitIInv, WriteReport
  PROVE  ExitIInv'
<1>1. /\ todo # <<>> /\ exit = -1 /\ err = "none" /\ At("write")
      /\ "write" \in Needs /\ "write" \in Left /\ "run" \notin Left /\ "report" \notin Left
      /\ "print" \in Left /\ "verdict" \in Left /\ inv.command \notin {"serve", "version"}
      /\ UNCHANGED <<inv, report, outcome, printed, exit, read>>
  <2>1. todo # <<>> /\ "write" \in Needs /\ "write" \in Left
    BY InFront DEF WriteReport, ExitIInv
  <2>2. inv.command \notin {"serve", "version"}
    BY <2>1, NeedsFacts DEF ExitIInv
  <2>3. {"print", "verdict"} \subseteq Needs
    BY <2>2, NeedsFacts DEF ExitIInv
  <2>4. /\ \A s \in Needs : Rank(inv.command, "write") < Rank(inv.command, s) => s \in Left
        /\ \A s \in Left : s = "write" \/ Rank(inv.command, "write") < Rank(inv.command, s)
    BY InFront DEF WriteReport, ExitIInv
  <2>5. /\ Rank(inv.command, "write") < Rank(inv.command, "print")
        /\ Rank(inv.command, "write") < Rank(inv.command, "verdict")
        /\ ~(Rank(inv.command, "write") < Rank(inv.command, "run"))
        /\ ~(Rank(inv.command, "write") < Rank(inv.command, "report"))
    BY Ranks
  <2> QED  BY <2>1, <2>2, <2>3, <2>4, <2>5
           DEF WriteReport, ExitIInv, ErrorStops, ExitFollows, probe
<1>2. (ReadAsAsked' <=> ReadAsAsked) /\ DOMAIN disk' = DOMAIN disk
  BY <1>1 DEF ReadAsAsked, Keyed, WriteReport
<1>3. CASE Continue /\ (report # "none" => disk'[inv.report] = Result)
  <2>1. Ordered' /\ Needs' = Needs /\ Left' = Left \ {"write"} /\ err' = "none"
    BY <1>1, <1>3, Advance DEF Continue, ExitIInv
  <2>2. ErrorStops' /\ ReportFollows' /\ OutcomeFollows'
    BY <1>1, <1>2, <2>1 DEF ExitIInv, ErrorStops, Errors, ReportFollows, OutcomeFollows, Passed
  <2>3. DeliveryFollows' /\ VerdictFollows' /\ ExitFollows'
    BY <1>1, <1>2, <1>3, <2>1 DEF ExitIInv, DeliveryFollows, VerdictFollows, ExitFollows, Passed
  <2> QED  BY <2>1, <2>2, <2>3 DEF ExitIInv
<1>4. CASE Fail("error") /\ report = "open" /\ disk' = [disk EXCEPT ![inv.report] = Partial]
  <2>1. Ordered' /\ Needs' = Needs /\ Left' = {} /\ err' = "error" /\ todo' = <<>>
    BY <1>1, <1>4, Halt DEF Fail, ExitIInv
  <2>2. inv.report # "" /\ inv.report \in DOMAIN disk
    BY <1>4 DEF ExitIInv, ReportFollows
  <2>3. disk'[inv.report] = Partial /\ Partial # Result
    BY <1>4, <2>2 DEF Partial, Result
  <2>4. ~Delivered'
    BY <1>1, <2>2, <2>3 DEF Delivered
  <2>5. ErrorStops' /\ ReportFollows' /\ OutcomeFollows'
    BY <1>1, <1>2, <2>1 DEF ExitIInv, ErrorStops, Errors, ReportFollows, OutcomeFollows
  <2>6. DeliveryFollows' /\ VerdictFollows' /\ ExitFollows'
    BY <1>1, <2>1, <2>4 DEF DeliveryFollows, VerdictFollows, ExitFollows
  <2> QED  BY <2>1, <2>5, <2>6 DEF ExitIInv
<1>5. CASE report = "none" /\ Continue /\ UNCHANGED disk
  BY <1>3, <1>5
<1>6. CASE report = "open" /\ Continue /\ disk' = [disk EXCEPT ![inv.report] = Result]
  <2>1. inv.report \in DOMAIN disk
    BY <1>6 DEF ExitIInv, ReportFollows
  <2> QED  BY <1>3, <1>6, <2>1
<1> QED  BY <1>4, <1>5, <1>6 DEF WriteReport

LEMMA PrintResultKeepsExit ==
  ASSUME ExitIInv, PrintResult
  PROVE  ExitIInv'
<1>1. /\ todo # <<>> /\ exit = -1 /\ err = "none" /\ At("print")
      /\ "print" \in Needs /\ "print" \in Left /\ "run" \notin Left /\ "report" \notin Left
      /\ "verdict" \in Needs => "verdict" \in Left
      /\ inv.command # "serve" /\ ~printed
      /\ UNCHANGED <<inv, disk, report, outcome, exit, read>>
  <2>1. todo # <<>> /\ "print" \in Needs /\ "print" \in Left
    BY InFront DEF PrintResult, ExitIInv
  <2>2. inv.command # "serve"
    BY <2>1, NeedsFacts DEF ExitIInv
  <2>3. /\ \A s \in Needs : Rank(inv.command, "print") < Rank(inv.command, s) => s \in Left
        /\ \A s \in Left : s = "print" \/ Rank(inv.command, "print") < Rank(inv.command, s)
    BY InFront DEF PrintResult, ExitIInv
  <2>4. /\ Rank(inv.command, "print") < Rank(inv.command, "verdict")
        /\ ~(Rank(inv.command, "print") < Rank(inv.command, "run"))
        /\ ~(Rank(inv.command, "print") < Rank(inv.command, "report"))
    BY Ranks
  <2> QED  BY <2>1, <2>2, <2>3, <2>4
           DEF PrintResult, ExitIInv, ErrorStops, DeliveryFollows, ExitFollows, probe
<1>2. ReadAsAsked' <=> ReadAsAsked
  BY <1>1 DEF ReadAsAsked, Keyed
<1>3. CASE Continue /\ (~inv.quiet => printed')
  <2>1. Ordered' /\ Needs' = Needs /\ Left' = Left \ {"print"} /\ err' = "none"
    BY <1>1, <1>3, Advance DEF Continue, ExitIInv
  <2>2. ErrorStops' /\ ReportFollows' /\ OutcomeFollows'
    BY <1>1, <2>1 DEF ExitIInv, ErrorStops, Errors, ReportFollows, OutcomeFollows, Passed
  <2>3. DeliveryFollows' /\ VerdictFollows' /\ ExitFollows'
    BY <1>1, <1>2, <1>3, <2>1 DEF ExitIInv, DeliveryFollows, VerdictFollows, ExitFollows, Passed
  <2> QED  BY <2>1, <2>2, <2>3 DEF ExitIInv
<1>4. CASE Fail("error") /\ ~inv.quiet /\ UNCHANGED printed
  <2>1. Ordered' /\ Needs' = Needs /\ Left' = {} /\ err' = "error" /\ todo' = <<>>
    BY <1>1, <1>4, Halt DEF Fail, ExitIInv
  <2>2. ~Delivered'
    BY <1>1, <1>4 DEF Delivered
  <2>3. ErrorStops' /\ ReportFollows' /\ OutcomeFollows'
    BY <1>1, <2>1 DEF ExitIInv, ErrorStops, Errors, ReportFollows, OutcomeFollows
  <2>4. DeliveryFollows' /\ VerdictFollows' /\ ExitFollows'
    BY <1>1, <2>1, <2>2 DEF DeliveryFollows, VerdictFollows, ExitFollows
  <2> QED  BY <2>1, <2>3, <2>4 DEF ExitIInv
<1> QED  BY <1>3, <1>4 DEF PrintResult

LEMMA JudgeKeepsExit ==
  ASSUME ExitIInv, Judge
  PROVE  ExitIInv'
<1>1. /\ todo # <<>> /\ exit = -1 /\ err = "none" /\ At("verdict")
      /\ "verdict" \in Needs /\ "verdict" \in Left /\ Left \subseteq {"verdict"}
      /\ inv.command # "version"
      /\ UNCHANGED <<inv, disk, report, outcome, printed, exit, read>>
  <2>1. todo # <<>> /\ "verdict" \in Needs /\ "verdict" \in Left
    BY InFront DEF Judge, ExitIInv
  <2>2. inv.command # "version"
    BY <2>1, NeedsFacts DEF ExitIInv
  <2>3. \A s \in Left : s = "verdict" \/ Rank(inv.command, "verdict") < Rank(inv.command, s)
    BY InFront DEF Judge, ExitIInv
  <2>4. \A s \in AllSteps : ~(Rank(inv.command, "verdict") < Rank(inv.command, s))
    BY Ranks DEF AllSteps
  <2>5. Left \subseteq AllSteps
    BY DEF ExitIInv, Ordered, Left, ToSet
  <2> QED  BY <2>1, <2>2, <2>3, <2>4, <2>5
           DEF Judge, ExitIInv, ErrorStops, ExitFollows, probe
<1>2. outcome \in {"pass", "fail", "incomplete"}
  <2>1. Passed("run")
    BY <1>1, NeedsFacts DEF ExitIInv, Passed
  <2> QED  BY <1>1, <2>1 DEF ExitIInv, OutcomeFollows
<1>3. Delivered /\ ReadAsAsked
  <2>1. CASE inv.command = "serve"
    BY <2>1, NeedsFacts DEF Delivered, ReadAsAsked, ExitIInv
  <2>2. CASE inv.command # "serve"
    <3>1. {"report", "input", "write", "print"} \subseteq Needs
      BY <1>1, <2>2, NeedsFacts DEF ExitIInv
    <3>2. Passed("report") /\ Passed("input") /\ Passed("write") /\ Passed("print")
      BY <1>1, <3>1 DEF Passed
    <3> QED  BY <1>1, <3>2 DEF ExitIInv, ReportFollows, DeliveryFollows, Delivered
  <2> QED  BY <2>1, <2>2
<1>4. Delivered' /\ ReadAsAsked'
  BY <1>1, <1>3 DEF Delivered, ReadAsAsked, Keyed
<1>5. CASE outcome = "pass"
  <2>1. Continue
    BY <1>5 DEF Judge
  <2>2. Ordered' /\ Needs' = Needs /\ Left' = Left \ {"verdict"} /\ err' = "none"
    BY <1>1, <2>1, Advance DEF Continue, ExitIInv
  <2>3. ErrorStops' /\ ReportFollows' /\ OutcomeFollows'
    BY <1>1, <1>5, <2>2
    DEF ExitIInv, ErrorStops, Errors, ReportFollows, OutcomeFollows, Passed
  <2>4. DeliveryFollows' /\ VerdictFollows' /\ ExitFollows'
    BY <1>1, <1>4, <2>2 DEF ExitIInv, DeliveryFollows, VerdictFollows, ExitFollows, Passed
  <2> QED  BY <2>2, <2>3, <2>4 DEF ExitIInv
<1>6. CASE outcome # "pass"
  <2>1. /\ todo' = <<>> /\ err' \in {"failed", "error"}
        /\ err' = "failed" <=> outcome = "fail"
    BY <1>2, <1>6 DEF Judge, Fail
  <2>2. Ordered' /\ Needs' = Needs /\ Left' = {}
    BY <1>1, <2>1, Halt DEF ExitIInv
  <2>3. ErrorStops' /\ ReportFollows' /\ OutcomeFollows'
    BY <1>1, <2>1, <2>2 DEF ExitIInv, ErrorStops, Errors, ReportFollows, OutcomeFollows
  <2>4. DeliveryFollows' /\ VerdictFollows' /\ ExitFollows'
    BY <1>1, <1>4, <2>1, <2>2 DEF DeliveryFollows, VerdictFollows, ExitFollows
  <2> QED  BY <2>2, <2>3, <2>4 DEF ExitIInv
<1> QED  BY <1>5, <1>6

LEMMA CloseReportKeepsExit ==
  ASSUME ExitIInv, CloseReport
  PROVE  ExitIInv'
<1>1. /\ todo = <<>> /\ exit = -1 /\ report = "open" /\ report' = "closed" /\ todo' = todo
      /\ UNCHANGED <<inv, disk, outcome, printed, exit, read>>
      /\ err' = err \/ (err = "none" /\ err' = "error")
  BY DEF CloseReport, ExitIInv, ExitFollows, probe
<1>2. Left' = Left /\ Left = {} /\ Needs' = Needs /\ Ordered'
  BY <1>1 DEF Left, Needs, Ordered, ExitIInv, ToSet
<1>3. Delivered' = Delivered /\ (ReadAsAsked' <=> ReadAsAsked)
  BY <1>1 DEF Delivered, ReadAsAsked, Keyed
<1>4. \A s : Passed(s)' <=> Passed(s)
  BY <1>2 DEF Passed
<1>5. err = "none" => outcome = "pass"
  <2>1. inv.command # "version"
    BY <1>1, NeedsFacts DEF ExitIInv, ReportFollows
  <2>2. Passed("verdict")
    BY <1>2, <2>1, NeedsFacts DEF ExitIInv, Passed
  <2> QED  BY <2>2 DEF ExitIInv, OutcomeFollows
<1>6. ErrorStops' /\ ReportFollows' /\ OutcomeFollows'
  BY <1>1, <1>2, <1>4 DEF ExitIInv, ErrorStops, Errors, ReportFollows, OutcomeFollows
<1>7. DeliveryFollows' /\ VerdictFollows' /\ ExitFollows'
  BY <1>1, <1>2, <1>3, <1>4, <1>5
  DEF ExitIInv, DeliveryFollows, VerdictFollows, ExitFollows
<1> QED  BY <1>2, <1>6, <1>7 DEF ExitIInv

(* Steps of the end that none of the clauses but the last looks at.        *)
LEMMA EndKeepsExit ==
  ASSUME ExitIInv, UNCHANGED <<inv, disk, todo, err, report, outcome, printed, read>>,
         \/ exit' = exit
         \/ /\ todo = <<>> /\ report # "open"
            /\ exit' = CASE err = "none" -> 0 [] err = "failed" -> 1 [] err = "error" -> 2
  PROVE  ExitIInv'
<1>1. Left' = Left /\ Needs' = Needs /\ Ordered'
  BY DEF Left, Needs, Ordered, ExitIInv
<1>2. Delivered' = Delivered /\ (ReadAsAsked' <=> ReadAsAsked)
  BY DEF Delivered, ReadAsAsked, Keyed
<1>3. \A s : Passed(s)' <=> Passed(s)
  BY <1>1 DEF Passed
<1>4. ErrorStops' /\ ReportFollows' /\ OutcomeFollows'
  BY <1>1, <1>3 DEF ExitIInv, ErrorStops, ReportFollows, OutcomeFollows
<1>5. DeliveryFollows' /\ VerdictFollows'
  BY <1>1, <1>2, <1>3 DEF ExitIInv, DeliveryFollows, VerdictFollows
<1>6. ExitFollows'
  BY DEF ExitIInv, ExitFollows
<1> QED  BY <1>1, <1>4, <1>5, <1>6 DEF ExitIInv

LEMMA InitExit == Init => ExitIInv
<1> SUFFICES ASSUME Init PROVE ExitIInv
  OBVIOUS
<1>1. /\ Shape(inv) /\ todo = Plan(inv)
      /\ inv.report # "" => inv.report \in DOMAIN disk
  BY ScenarioAssumption DEF Init, Shape, Plan
<1>2. Left = Needs /\ Ordered
  BY <1>1, PlanFacts DEF Left, Needs, Ordered
<1>3. \A s : ~Passed(s)
  BY <1>2 DEF Passed
<1>4. ErrorStops /\ ReportFollows /\ OutcomeFollows
  BY <1>1, <1>3 DEF Init, ErrorStops, Errors, ReportFollows, OutcomeFollows
<1>5. DeliveryFollows /\ VerdictFollows /\ ExitFollows
  BY <1>3 DEF Init, DeliveryFollows, VerdictFollows, ExitFollows
<1> QED  BY <1>2, <1>4, <1>5 DEF ExitIInv

LEMMA NextExit ==
  ASSUME ExitIInv, [Next]_vars
  PROVE  ExitIInv'
<1>1. CASE Prepare
  <2>1. ASSUME NEW x \in Quiet, NEW r, Guarded(x, r) PROVE ExitIInv'
    BY <2>1, QuietStep DEF Guarded, probe
  <2>2. CASE CheckArgs \/ CheckQuiet \/ SelectFormat \/ ParseDurability \/ ParseGates
    BY <2>1, <2>2
    DEF CheckArgs, CheckQuiet, SelectFormat, ParseDurability, ParseGates, Quiet, AllSteps
  <2>3. CASE Locate
    BY <2>3, QuietStep DEF Locate, Quiet, AllSteps, probe
  <2>4. CASE Load
    <3>1. (Continue \/ Fail("error")) /\ At("load")
          /\ UNCHANGED <<inv, disk, report, outcome, printed, exit, read>>
      BY <2>4 DEF Load, probe
    <3> QED  BY <3>1, QuietStep DEF Quiet, AllSteps
  <2>5. CASE LoadEnv \/ SetFlags \/ SetServeFlags \/ BuildProber
    <3>1. \E x \in {"env", "flags", "serveFlags", "prober"} :
             /\ At(x) /\ (Continue \/ Fail("error"))
             /\ UNCHANGED <<inv, disk, report, outcome, printed, exit, read>>
      BY <2>5 DEF LoadEnv, SetFlags, SetServeFlags, BuildProber, probe
    <3> QED  BY <3>1, QuietStep DEF Quiet, AllSteps
  <2>6. CASE OpenReport
    BY <2>6, OpenReportKeepsExit
  <2>7. CASE ReadInput
    BY <2>7, ReadInputKeepsExit
  <2> QED  BY <1>1, <2>2, <2>3, <2>4, <2>5, <2>6, <2>7 DEF Prepare
<1>2. CASE RunProbe
  BY <1>2, RunProbeKeepsExit
<1>3. CASE Finish
  <2>1. CASE WriteReport
    BY <2>1, WriteReportKeepsExit
  <2>2. CASE PrintResult
    BY <2>2, PrintResultKeepsExit
  <2>3. CASE Judge
    BY <2>3, JudgeKeepsExit
  <2>4. CASE CloseClient
    BY <2>4, EndKeepsExit DEF CloseClient, probe
  <2>5. CASE CloseReport
    BY <2>5, CloseReportKeepsExit
  <2>6. CASE Exit
    BY <2>6, EndKeepsExit DEF Exit, probe
  <2> QED  BY <1>3, <2>1, <2>2, <2>3, <2>4, <2>5, <2>6 DEF Finish
<1>4. CASE AbandonClient
  BY <1>4, EndKeepsExit DEF AbandonClient, probe
<1>5. CASE RemoveConfig
  BY <1>5, RemoveConfigKeepsExit
<1>6. CASE Interrupt
  BY <1>6, EndKeepsExit DEF Interrupt, probe
<1>7. CASE UNCHANGED vars
  BY <1>7, EndKeepsExit DEF vars, probe
<1> QED  BY <1>1, <1>2, <1>3, <1>4, <1>5, <1>6, <1>7 DEF Next

LEMMA ExitImplies ==
  ASSUME ExitIInv
  PROVE  ExitTellsVerdict
<1>1. CASE exit = -1
  BY <1>1 DEF ExitTellsVerdict
<1>2. CASE exit # -1
  <2>1. /\ todo = <<>> /\ err \in Errors
        /\ exit = CASE err = "none" -> 0 [] err = "failed" -> 1 [] err = "error" -> 2
    BY <1>2 DEF ExitIInv, ExitFollows, ErrorStops
  <2>2. Left = {}
    BY <2>1 DEF Left, ToSet
  <2>3. CASE err = "none"
    <3>1. exit = 0
      BY <2>1, <2>3
    <3>2. ReadAsAsked
      <4>1. CASE inv.command \in {"serve", "version"}
        BY <4>1, NeedsFacts DEF ExitIInv, ReadAsAsked
      <4>2. CASE inv.command \notin {"serve", "version"}
        <5>1. Passed("input")
          BY <2>2, <4>2, NeedsFacts DEF ExitIInv, Passed
        <5> QED  BY <2>3, <5>1 DEF ExitIInv, DeliveryFollows
      <4> QED  BY <4>1, <4>2
    <3>3. inv.command # "version" => outcome = "pass"
      BY <2>2, <2>3, NeedsFacts DEF ExitIInv, OutcomeFollows, Passed
    <3>4. inv.command # "version" => Delivered
      <4>1. CASE inv.command = "serve"
        BY <4>1 DEF Delivered
      <4>2. CASE inv.command \notin {"serve", "version"}
        <5>1. Passed("report") /\ Passed("write") /\ Passed("print")
          BY <2>2, <4>2, NeedsFacts DEF ExitIInv, Passed
        <5> QED  BY <2>3, <5>1 DEF ExitIInv, ReportFollows, DeliveryFollows, Delivered
      <4> QED  BY <4>1, <4>2
    <3>5. exit # 1 /\ exit # 2
      BY <3>1
    <3> QED  BY <3>2, <3>3, <3>4, <3>5 DEF ExitTellsVerdict, ReadAsAsked
  <2>4. CASE err = "failed"
    <3>1. exit = 1
      BY <2>1, <2>4
    <3>2. exit # 0 /\ exit # 2
      BY <3>1
    <3>3. outcome = "fail" /\ Delivered /\ ReadAsAsked
      BY <2>4 DEF ExitIInv, VerdictFollows
    <3> QED  BY <3>2, <3>3 DEF ExitTellsVerdict, ReadAsAsked
  <2>5. CASE err = "error"
    <3>1. exit = 2
      BY <2>1, <2>5
    <3> QED  BY <2>5, <3>1 DEF ExitIInv, VerdictFollows, ExitTellsVerdict
  <2> QED  BY <2>1, <2>3, <2>4, <2>5 DEF Errors
<1> QED  BY <1>1, <1>2

(* An exit code is the verdict of a probe that ran to its end, was given   *)
(* what was asked for and whose result was written and printed, or is an   *)
(* error that hides no such verdict: for every command, whatever fails and *)
(* whatever is deferred (commands.go:384-386, main.go:25-46).              *)
THEOREM CommandExitTellsVerdict == Spec => []ExitTellsVerdict
<1>1. ExitIInv => ExitTellsVerdict
  BY ExitImplies
<1> QED  BY <1>1, InitExit, NextExit, PTL DEF Spec
-----------------------------------------------------------------------------
(* What the settings are at each stage: the layers that have been applied. *)
FileValue(s) ==
    IF s # "token" /\ s \in DOMAIN file.profile.set THEN file.profile.set[s]
    ELSE IF s # "token" /\ s \in DOMAIN file.top.set THEN file.top.set[s]
    ELSE Default.scalars[s]

EnvValue(s) == IF s \in Present(env) THEN env.set[s] ELSE FileValue(s)

FlagValue(s) ==
    IF s \in DOMAIN inv.flags.set \cap FlagScalars THEN inv.flags.set[s] ELSE EnvValue(s)

FinalValue(s) == IF s \in ServeGiven(inv.flags) THEN inv.flags.set[s] ELSE FlagValue(s)

EnvHalf(k, side) ==
    IF <<k, side>> \in DOMAIN env.halves THEN env.halves[<<k, side>>]
    ELSE FileOverrides[k][side]

FlagHalf(k, side) ==
    IF <<k, side>> \in DOMAIN inv.flags.halves THEN inv.flags.halves[<<k, side>>]
    ELSE EnvHalf(k, side)

FromFile ==
    /\ \A s \in Scalars : cfg.scalars[s] = FileValue(s)
    /\ cfg.overrides = FileOverrides

FromEnv ==
    /\ \A s \in Scalars : cfg.scalars[s] = EnvValue(s)
    /\ \A k \in Kinds, side \in Sides : cfg.overrides[k][side] = EnvHalf(k, side)

FromFlags ==
    /\ \A s \in Scalars : cfg.scalars[s] = FlagValue(s)
    /\ \A k \in Kinds, side \in Sides : cfg.overrides[k][side] = FlagHalf(k, side)

Final ==
    /\ \A s \in Scalars : cfg.scalars[s] = FinalValue(s)
    /\ \A k \in Kinds, side \in Sides : cfg.overrides[k][side] = FlagHalf(k, side)

Usable(c) ==
    /\ \A k \in Kinds :
          LET t == ResolveThresholds(k, GlobalThresholds(c), c.overrides)
          IN  t.critical <= t.warn
    /\ c.scalars.rate > 0 /\ c.scalars.burst > 0
    /\ c.scalars.rpcURL = "http" /\ c.scalars.timeout > 0
    /\ c.scalars.token = 0 \/ c.scalars.token >= MinTokenLength
    /\ c.scalars.tlsCert = "" <=> c.scalars.tlsKey = ""

SettledFollows ==
    /\ "load" \in Left => cfg = Default /\ file = NoFile
    /\ err = "none" /\ Passed("load") /\ "env" \in Left => FromFile
    /\ err = "none" /\ Passed("env") /\ "flags" \in Left => FromEnv
    /\ err = "none" /\ Passed("flags") /\ "serveFlags" \in Left => FromFlags
    /\ err = "none" /\ Passed("flags") /\ "serveFlags" \notin Left => Final
    /\ client # "none" => Final

UsableFollows ==
    /\ err = "none" /\ Passed("flags") =>
          Usable(cfg) /\ cfg = [scalars |-> cfg.scalars, overrides |-> cfg.overrides]
    /\ client # "none" => Usable(cfg)

ClientFollows == "prober" \notin Needs \/ "prober" \in Left => client = "none"

SettingsIInv == SettledFollows /\ UsableFollows /\ ClientFollows

(* The steps after which the settings or the client are others.            *)
Setting == {"load", "env", "flags", "serveFlags", "prober"}

LEMMA SettingsUntouched ==
  ASSUME SettingsIInv, UNCHANGED <<inv, env, cfg, file>>, Needs' = Needs,
         client' = client \/ (client # "none" /\ client' # "none"),
         \/ err' # "none" /\ Left' = {}
         \/ (err' = "none" => err = "none") /\ \A s \in Setting : s \in Left' <=> s \in Left
  PROVE  SettingsIInv'
<1>1. /\ \A s \in Scalars : FileValue(s)' = FileValue(s) /\ EnvValue(s)' = EnvValue(s)
      /\ \A s \in Scalars : FlagValue(s)' = FlagValue(s) /\ FinalValue(s)' = FinalValue(s)
      /\ FileOverrides' = FileOverrides
      /\ \A k \in Kinds, side \in Sides :
            EnvHalf(k, side)' = EnvHalf(k, side) /\ FlagHalf(k, side)' = FlagHalf(k, side)
  BY DEF FileValue, EnvValue, FlagValue, FinalValue, FileOverrides, EnvHalf, FlagHalf
<1>2. (FromFile' <=> FromFile) /\ (FromEnv' <=> FromEnv)
  BY <1>1 DEF FromFile, FromEnv
<1>3. (FromFlags' <=> FromFlags) /\ (Final' <=> Final) /\ (Usable(cfg)' <=> Usable(cfg))
  BY <1>1 DEF FromFlags, Final, Usable
<1>4. CASE err' # "none" /\ Left' = {}
  BY <1>2, <1>3, <1>4
  DEF SettingsIInv, SettledFollows, UsableFollows, ClientFollows
<1>5. CASE (err' = "none" => err = "none") /\ \A s \in Setting : s \in Left' <=> s \in Left
  BY <1>2, <1>3, <1>5
  DEF SettingsIInv, SettledFollows, UsableFollows, ClientFollows, Passed, Setting
<1> QED  BY <1>4, <1>5

(* Where a step stands among those that set something.                     *)
LEMMA SettingFront ==
  ASSUME ExitIInv, NEW x \in Setting, At(x)
  PROVE  /\ err = "none" /\ x \in Left /\ x \in Needs /\ inv.command # "version"
         /\ x = "load" => "env" \in Left /\ "flags" \in Left
         /\ x = "env" => "load" \notin Left /\ "flags" \in Left
         /\ x \in {"flags", "serveFlags", "prober"} => "load" \notin Left /\ "env" \notin Left
         /\ x = "prober" => "flags" \notin Left
         /\ "serveFlags" \in Left <=> inv.command = "serve" /\ x # "prober"
         /\ "prober" \in Left /\ "prober" \in Needs
         /\ x = "serveFlags" => Passed("flags")
<1>1. err = "none" /\ x \in Left /\ x \in Needs
  BY InFront DEF ExitIInv, ErrorStops
<1>2. inv.command # "version"
  BY <1>1, NeedsFacts DEF ExitIInv, Setting
<1>3. {"load", "env", "flags", "prober"} \subseteq Needs
  BY <1>2, NeedsFacts DEF ExitIInv
<1>4. /\ \A s \in Needs : Rank(inv.command, x) < Rank(inv.command, s) => s \in Left
      /\ \A s \in Left : s = x \/ Rank(inv.command, x) < Rank(inv.command, s)
  BY InFront DEF ExitIInv
<1>5. "serveFlags" \in Needs <=> inv.command = "serve"
  BY NeedsFacts DEF ExitIInv
<1>6. Left \subseteq Needs
  BY DEF ExitIInv, Ordered
<1>7. x = "load" => "env" \in Left /\ "flags" \in Left
  BY <1>3, <1>4, Ranks
<1>8. x = "env" => "load" \notin Left /\ "flags" \in Left
  BY <1>3, <1>4, Ranks
<1>9. x \in {"flags", "serveFlags", "prober"} => "load" \notin Left /\ "env" \notin Left
  BY <1>4, Ranks
<1>10. x \in {"serveFlags", "prober"} => "flags" \notin Left
  BY <1>4, Ranks
<1>11. "serveFlags" \in Left <=> inv.command = "serve" /\ x # "prober"
  <2>1. CASE x = "prober"
    BY <1>4, <2>1, Ranks
  <2>2. CASE x = "serveFlags"
    BY <1>1, <1>5, <2>2
  <2>3. CASE x \in {"load", "env", "flags"}
    BY <1>4, <1>5, <1>6, <2>3, Ranks
  <2> QED  BY <2>1, <2>2, <2>3 DEF Setting
<1>12. "prober" \in Left
  <2>1. x = "prober" \/ Rank(inv.command, x) < Rank(inv.command, "prober")
    BY Ranks DEF Setting
  <2> QED  BY <1>1, <1>3, <1>4, <2>1
<1>13. x = "serveFlags" => Passed("flags")
  BY <1>3, <1>10 DEF Passed
<1> QED  BY <1>1, <1>2, <1>3, <1>7, <1>8, <1>9, <1>10, <1>11, <1>12, <1>13

(* A step that fails leaves no step and no client.                         *)
LEMMA FailedSetting ==
  ASSUME ExitIInv, SettingsIInv, NEW x \in Setting, At(x), Fail("error"),
         UNCHANGED <<inv, client>>
  PROVE  SettingsIInv'
<1>1. Left' = {} /\ Needs' = Needs /\ err' = "error" /\ client' = "none"
  BY Halt, SettingFront DEF Fail, ExitIInv, SettingsIInv, ClientFollows
<1> QED  BY <1>1 DEF SettingsIInv, SettledFollows, UsableFollows, ClientFollows

LEMMA LoadSettles ==
  ASSUME ExitIInv, SettingsIInv, Load
  PROVE  SettingsIInv'
<1>1. /\ err = "none" /\ client = "none" /\ inv' = inv /\ env' = env /\ client' = client
      /\ cfg = Default /\ file = NoFile
      /\ At("load") /\ "load" \in Left /\ "env" \in Left /\ "flags" \in Left
      /\ "prober" \in Left
  BY SettingFront, Ranks
  DEF Load, Setting, SettingsIInv, ClientFollows, SettledFollows
<1>2. CASE Fail("error")
  BY <1>1, <1>2, FailedSetting DEF Setting
<1>3. CASE Continue
  <2>1. Needs' = Needs /\ Left' = Left \ {"load"} /\ err' = "none"
    BY <1>1, <1>3, Advance DEF Continue, ExitIInv
  <2>2. FromFile'
    <3>1. CASE UNCHANGED <<cfg, file>>
      BY <1>1, <3>1 DEF FromFile, FileValue, FileOverrides, NoFile, NoLayer
    <3>2. CASE \E t, q : /\ cfg' = ApplyValues(ApplyValues(cfg, t), q)
                         /\ file' = [top |-> t, profile |-> q]
      BY <1>1, <3>2
      DEF FromFile, FileValue, FileOverrides, ApplyValues, Override, Only
    <3> QED  BY <1>3, <2>1, <3>1, <3>2 DEF Load, Fail
  <2> QED  BY <1>1, <2>1, <2>2
           DEF SettingsIInv, SettledFollows, UsableFollows, ClientFollows, Passed
<1> QED  BY <1>2, <1>3 DEF Load

LEMMA LoadEnvSettles ==
  ASSUME ExitIInv, SettingsIInv, LoadEnv
  PROVE  SettingsIInv'
<1>1. /\ err = "none" /\ client = "none" /\ inv' = inv /\ env' = env /\ client' = client
      /\ file' = file /\ At("env") /\ "env" \in Left /\ "load" \notin Left /\ "flags" \in Left
      /\ "prober" \in Left /\ "prober" \in Needs /\ Passed("load")
  BY SettingFront, NeedsFacts
  DEF LoadEnv, Setting, SettingsIInv, ClientFollows, Passed, ExitIInv
<1>2. CASE Fail("error")
  BY <1>1, <1>2, FailedSetting DEF Setting
<1>3. CASE Continue /\ cfg' = ApplyEnv(cfg, env)
  <2>1. Needs' = Needs /\ Left' = Left \ {"env"} /\ err' = "none"
    BY <1>1, <1>3, Advance DEF Continue, ExitIInv
  <2>2. FromFile
    BY <1>1 DEF SettingsIInv, SettledFollows
  <2>3. FromEnv'
    <3>1. \A s \in Scalars : FileValue(s)' = FileValue(s)
      BY <1>1 DEF FileValue
    <3>2. \A s \in Scalars : cfg'.scalars[s] = EnvValue(s)'
      BY <1>1, <1>3, <2>2, <3>1 DEF FromFile, EnvValue, ApplyEnv, Override, Only, Present
    <3>3. FileOverrides' = FileOverrides
      BY <1>1 DEF FileOverrides
    <3>4. \A k \in Kinds, side \in Sides : cfg'.overrides[k][side] = EnvHalf(k, side)'
      BY <1>1, <1>3, <2>2, <3>3 DEF FromFile, EnvHalf, ApplyEnv, OverrideHalves, Sides
    <3> QED  BY <3>2, <3>4 DEF FromEnv
  <2> QED  BY <1>1, <2>1, <2>3
           DEF SettingsIInv, SettledFollows, UsableFollows, ClientFollows, Passed
<1> QED  BY <1>2, <1>3 DEF LoadEnv

(* Without serve's flags the settings are final once the flags are.        *)
LEMMA NoServeFlags ==
  ASSUME ExitIInv, inv.command # "serve"
  PROVE  ServeGiven(inv.flags) = {}
<1>1. DOMAIN inv.flags.set \subseteq FlagScalars
  BY DEF ExitIInv, Ordered, Shape
<1> QED  BY <1>1 DEF ServeGiven, FlagScalars

LEMMA SetFlagsSettles ==
  ASSUME ExitIInv, SettingsIInv, SetFlags
  PROVE  SettingsIInv'
<1>1. /\ err = "none" /\ client = "none" /\ inv' = inv /\ env' = env /\ client' = client
      /\ file' = file /\ At("flags") /\ "flags" \in Left /\ "load" \notin Left
      /\ "env" \notin Left /\ "prober" \in Left /\ "prober" \in Needs /\ Passed("env")
      /\ "serveFlags" \in Left <=> inv.command = "serve"
      /\ cfg' = ApplyFlags(cfg, inv.flags)
  BY SettingFront, NeedsFacts
  DEF SetFlags, Setting, SettingsIInv, ClientFollows, Passed, ExitIInv
<1>2. CASE Fail("error")
  BY <1>1, <1>2, FailedSetting DEF Setting
<1>3. CASE Continue /\ Validate(cfg')
  <2>1. Needs' = Needs /\ Left' = Left \ {"flags"} /\ err' = "none"
    BY <1>1, <1>3, Advance DEF Continue, ExitIInv
  <2>2. FromEnv
    BY <1>1 DEF SettingsIInv, SettledFollows
  <2>3. FromFlags'
    <3>1. /\ \A s \in Scalars : EnvValue(s)' = EnvValue(s)
          /\ FileOverrides' = FileOverrides
          /\ \A k \in Kinds, side \in Sides : EnvHalf(k, side)' = EnvHalf(k, side)
      BY <1>1 DEF EnvValue, FileValue, FileOverrides, EnvHalf
    <3>2. \A s \in Scalars : cfg'.scalars[s] = FlagValue(s)'
      BY <1>1, <2>2, <3>1 DEF FromEnv, FlagValue, ApplyFlags, Override, Only
    <3>3. \A k \in Kinds, side \in Sides : cfg'.overrides[k][side] = FlagHalf(k, side)'
      BY <1>1, <2>2, <3>1 DEF FromEnv, FlagHalf, ApplyFlags, OverrideHalves, Sides
    <3> QED  BY <3>2, <3>3 DEF FromFlags
  <2>4. inv.command # "serve" => Final'
    BY <1>1, <2>3, NoServeFlags DEF FromFlags, Final, FinalValue
  <2>5. /\ Usable(cfg')
        /\ cfg' = [scalars |-> cfg'.scalars, overrides |-> cfg'.overrides]
    BY <1>1, <1>3 DEF Validate, ThresholdsOrdered, TLSPaired, Usable, ApplyFlags
  <2>6. Usable(cfg)'
    BY <2>5 DEF Usable
  <2> QED  BY <1>1, <2>1, <2>3, <2>4, <2>5, <2>6
           DEF SettingsIInv, SettledFollows, UsableFollows, ClientFollows, Passed
<1> QED  BY <1>2, <1>3 DEF SetFlags

LEMMA SetServeFlagsSettles ==
  ASSUME ExitIInv, SettingsIInv, SetServeFlags
  PROVE  SettingsIInv'
<1>1. /\ err = "none" /\ client = "none" /\ inv' = inv /\ env' = env /\ client' = client
      /\ file' = file /\ At("serveFlags") /\ "flags" \notin Left /\ "load" \notin Left
      /\ "env" \notin Left /\ "serveFlags" \in Left
      /\ "prober" \in Left /\ "prober" \in Needs /\ Passed("flags")
      /\ cfg' = ApplyServeFlags(cfg, inv.flags)
  BY SettingFront
  DEF SetServeFlags, Setting, SettingsIInv, ClientFollows, Passed, ExitIInv
<1>2. CASE Fail("error")
  BY <1>1, <1>2, FailedSetting DEF Setting
<1>3. CASE Continue /\ TLSPaired(cfg')
  <2>1. Needs' = Needs /\ Left' = Left \ {"serveFlags"} /\ err' = "none"
    BY <1>1, <1>3, Advance DEF Continue, ExitIInv
  <2>2. FromFlags /\ Usable(cfg) /\ cfg = [scalars |-> cfg.scalars, overrides |-> cfg.overrides]
    BY <1>1 DEF SettingsIInv, SettledFollows, UsableFollows
  <2>3. /\ cfg'.overrides = cfg.overrides
        /\ cfg' = [scalars |-> cfg'.scalars, overrides |-> cfg'.overrides]
        /\ cfg'.scalars = Override(cfg.scalars, Only(inv.flags.set, ServeGiven(inv.flags)))
    BY <1>1, <2>2 DEF ApplyServeFlags
  <2>4. \A s \in Scalars : cfg'.scalars[s] = IF s \in ServeGiven(inv.flags)
                                             THEN inv.flags.set[s] ELSE cfg.scalars[s]
    BY <2>3 DEF Override, Only, ServeGiven
  <2>5. Final'
    <3>1. /\ \A s \in Scalars : FlagValue(s)' = FlagValue(s)
          /\ FileOverrides' = FileOverrides
          /\ \A k \in Kinds, side \in Sides : FlagHalf(k, side)' = FlagHalf(k, side)
      BY <1>1 DEF FlagValue, EnvValue, FileValue, FileOverrides, FlagHalf, EnvHalf
    <3> QED  BY <1>1, <2>2, <2>3, <2>4, <3>1 DEF FromFlags, Final, FinalValue
  <2>6. /\ \A s \in {"rate", "burst", "rpcURL", "timeout", "token", "warn", "critical"} :
              s \in Scalars /\ cfg'.scalars[s] = cfg.scalars[s]
        /\ GlobalThresholds(cfg') = GlobalThresholds(cfg)
    <3>1. \A s \in {"rate", "burst", "rpcURL", "timeout", "token", "warn", "critical"} :
             s \in Scalars /\ s \notin ServeGiven(inv.flags)
      BY DEF Scalars, Texts, ServeGiven
    <3> QED  BY <2>4, <3>1 DEF GlobalThresholds
  <2>7. Usable(cfg')
    BY <1>3, <2>2, <2>3, <2>6 DEF Usable, TLSPaired
  <2>8. Usable(cfg)'
    BY <2>7 DEF Usable
  <2> QED  BY <1>1, <2>1, <2>3, <2>5, <2>8
           DEF SettingsIInv, SettledFollows, UsableFollows, ClientFollows, Passed
<1> QED  BY <1>2, <1>3 DEF SetServeFlags

LEMMA BuildProberSettles ==
  ASSUME ExitIInv, SettingsIInv, BuildProber
  PROVE  SettingsIInv'
<1>1. /\ err = "none" /\ inv' = inv /\ UNCHANGED <<cfg, file, env>>
      /\ At("prober") /\ "flags" \notin Left /\ "load" \notin Left
      /\ "env" \notin Left /\ "serveFlags" \notin Left
      /\ "prober" \in Left /\ "prober" \in Needs /\ Passed("flags")
  BY SettingFront, NeedsFacts
  DEF BuildProber, Setting, SettingsIInv, ClientFollows, Passed, ExitIInv, settings
<1>2. CASE Fail("error") /\ UNCHANGED client
  BY <1>1, <1>2, FailedSetting DEF Setting
<1>3. CASE Continue /\ client' = "open"
  <2>1. Needs' = Needs /\ Left' = Left \ {"prober"} /\ err' = "none"
    BY <1>1, <1>3, Advance DEF Continue, ExitIInv
  <2>2. Final /\ Usable(cfg)
    BY <1>1 DEF SettingsIInv, SettledFollows, UsableFollows
  <2>3. Final' /\ Usable(cfg)'
    BY <1>1, <2>2
    DEF Final, FinalValue, FlagValue, EnvValue, FileValue, FlagHalf, EnvHalf, FileOverrides, Usable
  <2> QED  BY <1>1, <1>3, <2>1, <2>3
           DEF SettingsIInv, SettledFollows, UsableFollows, ClientFollows, Passed
<1> QED  BY <1>2, <1>3 DEF BuildProber

LEMMA InitSettings == Init => SettingsIInv
<1> SUFFICES ASSUME Init PROVE SettingsIInv
  OBVIOUS
<1>1. Shape(inv) /\ todo = Plan(inv)
  BY ScenarioAssumption DEF Init, Shape, Plan
<1>2. \A s : ~Passed(s)
  BY <1>1 DEF Left, Needs, Passed
<1> QED  BY <1>2 DEF Init, SettingsIInv, SettledFollows, UsableFollows, ClientFollows

(* A step that is taken elsewhere in the plan.                             *)
LEMMA OtherStep ==
  ASSUME ExitIInv, SettingsIInv, NEW x, x \notin Setting, At(x),
         UNCHANGED <<inv, env, cfg, file, client>>,
         Continue \/ (todo' = <<>> /\ err' # "none")
  PROVE  SettingsIInv'
<1>1. CASE Continue
  <2>1. Needs' = Needs /\ Left' = Left \ {x} /\ err' = err
    BY <1>1, Advance DEF Continue, ExitIInv
  <2> QED  BY <2>1, SettingsUntouched DEF Setting
<1>2. CASE todo' = <<>> /\ err' # "none"
  <2>1. Needs' = Needs /\ Left' = {}
    BY <1>2, Halt DEF ExitIInv
  <2> QED  BY <1>2, <2>1, SettingsUntouched
<1> QED  BY <1>1, <1>2

(* A step that takes none of the plan.                                     *)
LEMMA NoStep ==
  ASSUME SettingsIInv, UNCHANGED <<inv, env, cfg, file, todo>>,
         client' = client \/ (client # "none" /\ client' # "none"),
         err' = "none" => err = "none"
  PROVE  SettingsIInv'
<1>1. Left' = Left /\ Needs' = Needs
  BY DEF Left, Needs
<1> QED  BY <1>1, SettingsUntouched

LEMMA NextSettings ==
  ASSUME ExitIInv, SettingsIInv, [Next]_vars
  PROVE  SettingsIInv'
<1>1. CASE Prepare
  <2>1. ASSUME NEW x, x \notin Setting, NEW r, Guarded(x, r) PROVE SettingsIInv'
    BY <2>1, OtherStep DEF Guarded, Fail, settings
  <2>2. CASE CheckArgs \/ CheckQuiet \/ SelectFormat \/ ParseDurability \/ ParseGates
    BY <2>1, <2>2
    DEF CheckArgs, CheckQuiet, SelectFormat, ParseDurability, ParseGates, Setting
  <2>3. CASE Locate
    BY <2>3, OtherStep DEF Locate, Setting, Fail
  <2>4. CASE Load
    BY <2>4, LoadSettles
  <2>5. CASE LoadEnv
    BY <2>5, LoadEnvSettles
  <2>6. CASE SetFlags
    BY <2>6, SetFlagsSettles
  <2>7. CASE SetServeFlags
    BY <2>7, SetServeFlagsSettles
  <2>8. CASE OpenReport
    BY <2>8, OtherStep DEF OpenReport, Setting, Fail, settings
  <2>9. CASE ReadInput
    <3>1. /\ At("input") /\ (Continue \/ (todo' = <<>> /\ err' # "none"))
          /\ UNCHANGED <<inv, env, cfg, file, client>>
      BY <2>9 DEF ReadInput, Fail, settings
    <3> QED  BY <3>1, OtherStep DEF Setting
  <2>10. CASE BuildProber
    BY <2>10, BuildProberSettles
  <2> QED  BY <1>1, <2>2, <2>3, <2>4, <2>5, <2>6, <2>7, <2>8, <2>9, <2>10 DEF Prepare
<1>2. CASE RunProbe
  <2>1. /\ At("run") /\ (Continue \/ (todo' = <<>> /\ err' # "none"))
        /\ UNCHANGED <<inv, env, cfg, file, client>>
    BY <1>2 DEF RunProbe, Fail, settings
  <2> QED  BY <2>1, OtherStep DEF Setting
<1>3. CASE Finish
  <2>1. CASE WriteReport
    BY <2>1, OtherStep DEF WriteReport, Setting, Fail, settings
  <2>2. CASE PrintResult
    BY <2>2, OtherStep DEF PrintResult, Setting, Fail, settings
  <2>3. CASE Judge
    <3>1. /\ At("verdict") /\ (Continue \/ (todo' = <<>> /\ err' # "none"))
          /\ UNCHANGED <<inv, env, cfg, file, client>>
      BY <2>3 DEF Judge, Fail, settings
    <3> QED  BY <3>1, OtherStep DEF Setting
  <2>4. CASE CloseClient
    BY <2>4, NoStep DEF CloseClient, settings
  <2>5. CASE CloseReport
    BY <2>5, NoStep DEF CloseReport, settings
  <2>6. CASE Exit
    BY <2>6, NoStep DEF Exit, settings
  <2> QED  BY <1>3, <2>1, <2>2, <2>3, <2>4, <2>5, <2>6 DEF Finish
<1>4. CASE AbandonClient
  BY <1>4, NoStep DEF AbandonClient, settings
<1>5. CASE RemoveConfig
  BY <1>5, NoStep DEF RemoveConfig, settings
<1>6. CASE Interrupt
  BY <1>6, NoStep DEF Interrupt, settings
<1>7. CASE UNCHANGED vars
  BY <1>7, NoStep DEF vars, settings
<1> QED  BY <1>1, <1>2, <1>3, <1>4, <1>5, <1>6, <1>7 DEF Next

(* No command opens its client with settings that another part takes for   *)
(* excluded, whichever layers they come from and whichever checks serve    *)
(* has skipped (config.go:519-571, commands.go:751-765).                   *)
THEOREM CommandSettingsUsable == Spec => []EffectiveIsUsable
<1>1. SettingsIInv => EffectiveIsUsable
  BY DEF SettingsIInv, UsableFollows, Usable, EffectiveIsUsable
<1>2. Init => ExitIInv /\ SettingsIInv
  BY InitExit, InitSettings
<1>3. ExitIInv /\ SettingsIInv /\ [Next]_vars => (ExitIInv /\ SettingsIInv)'
  BY NextExit, NextSettings
<1> QED  BY <1>1, <1>2, <1>3, PTL DEF Spec

(* The final value of a setting is that of the highest layer that speaks   *)
(* for it.                                                                 *)
LEMMA FinalIsHighest ==
  ASSUME ExitIInv, Final
  PROVE  /\ \A s \in Scalars :
               \/ \E i \in 1 .. 4 :
                     /\ Speaks(i, s) /\ \A j \in i + 1 .. 4 : ~Speaks(j, s)
                     /\ cfg.scalars[s] = Layers[i][s]
               \/ /\ \A i \in 1 .. 4 : ~Speaks(i, s)
                  /\ cfg.scalars[s] = Default.scalars[s]
         /\ \A k \in Kinds, side \in Sides :
               cfg.overrides[k][side] =
                   IF <<k, side>> \in DOMAIN inv.flags.halves THEN inv.flags.halves[<<k, side>>]
                   ELSE IF <<k, side>> \in DOMAIN env.halves THEN env.halves[<<k, side>>]
                   ELSE FileOverrides[k][side]
<1>1. ASSUME NEW s \in Scalars
      PROVE  \/ \E i \in 1 .. 4 :
                   /\ Speaks(i, s) /\ \A j \in i + 1 .. 4 : ~Speaks(j, s)
                   /\ cfg.scalars[s] = Layers[i][s]
             \/ /\ \A i \in 1 .. 4 : ~Speaks(i, s)
                /\ cfg.scalars[s] = Default.scalars[s]
  <2>1. /\ Layers[1] = file.top.set /\ Layers[2] = file.profile.set
        /\ Layers[3] = env.set /\ Layers[4] = inv.flags.set
    BY DEF Layers
  <2>2. Speaks(1, s) <=> s # "token" /\ s \in DOMAIN file.top.set
    BY <2>1 DEF Speaks
  <2>3. Speaks(2, s) <=> s # "token" /\ s \in DOMAIN file.profile.set
    BY <2>1 DEF Speaks
  <2>4. Speaks(3, s) <=> s \in Present(env)
    BY <2>1 DEF Speaks, Present, Texts
  <2>5. Speaks(4, s) <=> \/ s \in DOMAIN inv.flags.set \cap FlagScalars
                         \/ s \in ServeGiven(inv.flags)
    <3>1. DOMAIN inv.flags.set \subseteq FlagScalars \cup ServeScalars
      BY DEF ExitIInv, Ordered, Shape
    <3>2. Speaks(4, s) <=> /\ s \in DOMAIN inv.flags.set
                           /\ s \in {"tlsCert", "tlsKey", "addr"} => inv.flags.set[s] # ""
      <4>1. s \in {"tlsCert", "tlsKey", "addr"} <=> s \in Texts /\ s # "rpcURL"
        BY DEF Texts
      <4>2. 4 > 2 /\ 4 # 3
        OBVIOUS
      <4> QED  BY <2>1, <4>1, <4>2 DEF Speaks
    <3>3. s \in ServeGiven(inv.flags) <=>
             /\ s \in DOMAIN inv.flags.set
             /\ \/ s \in {"tlsCert", "tlsKey", "addr"} /\ inv.flags.set[s] # ""
                \/ s = "cacheTTL"
      BY DEF ServeGiven
    <3>4. CASE s \in ServeScalars
      BY <3>2, <3>3, <3>4 DEF ServeScalars, FlagScalars
    <3>5. CASE s \notin ServeScalars
      BY <3>1, <3>2, <3>3, <3>5 DEF ServeScalars
    <3> QED  BY <3>4, <3>5
  <2>6. cfg.scalars[s] = FinalValue(s)
    BY DEF Final
  <2>7. CASE Speaks(4, s)
    <3>1. cfg.scalars[s] = Layers[4][s]
      BY <2>1, <2>5, <2>6, <2>7 DEF FinalValue, FlagValue
    <3>2. \A j \in 4 + 1 .. 4 : ~Speaks(j, s)
      OBVIOUS
    <3> QED  BY <2>7, <3>1, <3>2
  <2>8. CASE ~Speaks(4, s) /\ Speaks(3, s)
    <3>1. cfg.scalars[s] = Layers[3][s]
      BY <2>1, <2>4, <2>5, <2>6, <2>8 DEF FinalValue, FlagValue, EnvValue
    <3>2. \A j \in 3 + 1 .. 4 : j = 4
      OBVIOUS
    <3>3. \A j \in 3 + 1 .. 4 : ~Speaks(j, s)
      BY <2>8, <3>2
    <3> QED  BY <2>8, <3>1, <3>3
  <2>9. CASE ~Speaks(4, s) /\ ~Speaks(3, s) /\ Speaks(2, s)
    <3>1. cfg.scalars[s] = Layers[2][s]
      BY <2>1, <2>3, <2>4, <2>5, <2>6, <2>9 DEF FinalValue, FlagValue, EnvValue, FileValue
    <3>2. \A j \in 2 + 1 .. 4 : j = 3 \/ j = 4
      OBVIOUS
    <3>3. \A j \in 2 + 1 .. 4 : ~Speaks(j, s)
      BY <2>9, <3>2
    <3> QED  BY <2>9, <3>1, <3>3
  <2>10. CASE ~Speaks(4, s) /\ ~Speaks(3, s) /\ ~Speaks(2, s) /\ Speaks(1, s)
    <3>1. cfg.scalars[s] = Layers[1][s]
      BY <2>1, <2>2, <2>3, <2>4, <2>5, <2>6, <2>10
      DEF FinalValue, FlagValue, EnvValue, FileValue
    <3>2. \A j \in 1 + 1 .. 4 : j = 2 \/ j = 3 \/ j = 4
      OBVIOUS
    <3>3. \A j \in 1 + 1 .. 4 : ~Speaks(j, s)
      BY <2>10, <3>2
    <3> QED  BY <2>10, <3>1, <3>3
  <2>11. CASE ~Speaks(4, s) /\ ~Speaks(3, s) /\ ~Speaks(2, s) /\ ~Speaks(1, s)
    <3>1. cfg.scalars[s] = Default.scalars[s]
      BY <2>2, <2>3, <2>4, <2>5, <2>6, <2>11 DEF FinalValue, FlagValue, EnvValue, FileValue
    <3>2. \A i \in 1 .. 4 : i = 1 \/ i = 2 \/ i = 3 \/ i = 4
      OBVIOUS
    <3>3. \A i \in 1 .. 4 : ~Speaks(i, s)
      BY <2>11, <3>2
    <3> QED  BY <3>1, <3>3
  <2> QED  BY <2>7, <2>8, <2>9, <2>10, <2>11
<1>2. \A k \in Kinds, side \in Sides :
         cfg.overrides[k][side] =
             IF <<k, side>> \in DOMAIN inv.flags.halves THEN inv.flags.halves[<<k, side>>]
             ELSE IF <<k, side>> \in DOMAIN env.halves THEN env.halves[<<k, side>>]
             ELSE FileOverrides[k][side]
  BY DEF Final, FlagHalf, EnvHalf
<1> QED  BY <1>1, <1>2

(* Each setting that a command works with is the one of the highest layer  *)
(* that gives it, for any values of any layers and whatever the file       *)
(* system does between the look-up and the read (config.go:214-216,        *)
(* root.go:96-97).                                                         *)
THEOREM CommandSettledByHighestLayer == Spec => []SettledByHighestLayer
<1>1. ExitIInv /\ SettingsIInv => SettledByHighestLayer
  BY FinalIsHighest DEF SettingsIInv, SettledFollows, SettledByHighestLayer
<1>2. Init => ExitIInv /\ SettingsIInv
  BY InitExit, InitSettings
<1>3. ExitIInv /\ SettingsIInv /\ [Next]_vars => (ExitIInv /\ SettingsIInv)'
  BY NextExit, NextSettings
<1> QED  BY <1>1, <1>2, <1>3, PTL DEF Spec
-----------------------------------------------------------------------------
(* Words and digits *)

(* Induction over the natural numbers, for a set of them.                  *)
LEMMA Induction ==
  ASSUME NEW S, 0 \in S, \A n \in Nat : n \in S => n + 1 \in S
  PROVE  Nat \subseteq S
<1> SUFFICES ASSUME ~(Nat \subseteq S) PROVE FALSE
  OBVIOUS
<1> DEFINE T == Nat \ S
<1>1. T \subseteq Nat /\ T # {}
  OBVIOUS
<1> HIDE DEF T
<1>2. PICK x \in T : \A y \in T : ~ (<<y, x>> \in OpToRel(<, Nat))
  BY <1>1, NatLessThanWellFounded, WFMin
<1>3. \A y \in T : ~ (y < x)
  BY <1>1, <1>2 DEF OpToRel
<1>4. x \in Nat /\ x \notin S /\ x # 0
  BY DEF T
<1>5. x - 1 \in Nat /\ x - 1 < x /\ (x - 1) + 1 = x
  BY <1>4
<1>6. x - 1 \in S
  BY <1>3, <1>5 DEF T
<1> QED  BY <1>4, <1>5, <1>6

(* A sequence of values, each of which follows from the one before it.     *)
Goes(f, n, A, a, F) ==
    /\ f \in [0 .. n -> A]
    /\ f[0] = a
    /\ \A i \in 1 .. n : f[i] = F[i][f[i - 1]]

Follows(f, A, a, F) ==
    /\ f \in [Nat -> A]
    /\ f[0] = a
    /\ \A n \in Nat : f[n + 1] = F[n + 1][f[n]]

LEMMA Recursion ==
  ASSUME NEW A, NEW a \in A, NEW F \in [Nat -> [A -> A]]
  PROVE  \E f : Follows(f, A, a, F)
<1>1. ASSUME NEW n \in Nat PROVE \E f : Goes(f, n, A, a, F)
  <2> DEFINE S == {m \in Nat : \E f : Goes(f, m, A, a, F)}
  <2>1. 0 \in S
    <3> DEFINE f == [i \in 0 .. 0 |-> a]
    <3>1. Goes(f, 0, A, a, F)
      BY DEF Goes
    <3> QED  BY <3>1
  <2>2. ASSUME NEW m \in Nat, m \in S PROVE m + 1 \in S
    <3>1. PICK f : Goes(f, m, A, a, F)
      BY <2>2
    <3> DEFINE g == [i \in 0 .. m + 1 |-> IF i = m + 1 THEN F[m + 1][f[m]] ELSE f[i]]
    <3>2. \A i \in 0 .. m : i \in 0 .. m + 1 /\ i # m + 1
      OBVIOUS
    <3>3. f \in [0 .. m -> A] /\ f[m] \in A /\ m + 1 \in Nat
      BY <3>1 DEF Goes
    <3>4. F[m + 1][f[m]] \in A
      BY <3>3
    <3>5. g \in [0 .. m + 1 -> A]
      BY <3>3, <3>4
    <3>6. g[0] = a
      BY <3>1 DEF Goes
    <3>7. ASSUME NEW i \in 1 .. m + 1 PROVE g[i] = F[i][g[i - 1]]
      <4>1. i \in 0 .. m + 1 /\ i - 1 \in 0 .. m /\ i - 1 \in 0 .. m + 1 /\ i - 1 # m + 1
        OBVIOUS
      <4>2. g[i - 1] = f[i - 1]
        BY <4>1
      <4>3. CASE i = m + 1
        BY <4>1, <4>2, <4>3
      <4>4. CASE i # m + 1
        <5>1. i \in 1 .. m
          BY <4>4
        <5>2. f[i] = F[i][f[i - 1]]
          BY <3>1, <5>1 DEF Goes
        <5> QED  BY <4>1, <4>2, <4>4, <5>2
      <4> QED  BY <4>3, <4>4
    <3> HIDE DEF g
    <3>8. Goes(g, m + 1, A, a, F)
      BY <3>5, <3>6, <3>7 DEF Goes
    <3> QED  BY <3>8
  <2> HIDE DEF S
  <2>3. n \in S
    BY <2>1, <2>2, Induction
  <2> QED  BY <2>3 DEF S
<1>2. ASSUME NEW k \in Nat, NEW m \in Nat, NEW n \in Nat, k <= m, k <= n,
             NEW f, NEW g, Goes(f, m, A, a, F), Goes(g, n, A, a, F)
      PROVE  f[k] = g[k]
  <2> DEFINE S == {i \in Nat : i <= k => f[i] = g[i]}
  <2>1. 0 \in S
    BY <1>2 DEF Goes
  <2>2. ASSUME NEW i \in Nat, i \in S PROVE i + 1 \in S
    <3>1. SUFFICES ASSUME i + 1 <= k PROVE f[i + 1] = g[i + 1]
      OBVIOUS
    <3>2. i + 1 \in 1 .. m /\ i + 1 \in 1 .. n /\ (i + 1) - 1 = i /\ i <= k
      BY <1>2, <3>1
    <3>3. f[i + 1] = F[i + 1][f[i]] /\ g[i + 1] = F[i + 1][g[i]]
      BY <1>2, <3>2 DEF Goes
    <3> QED  BY <2>2, <3>2, <3>3
  <2> HIDE DEF S
  <2>3. k \in S
    BY <2>1, <2>2, Induction
  <2> QED  BY <2>3 DEF S
<1> DEFINE run(n) == CHOOSE f : Goes(f, n, A, a, F)
           h == [n \in Nat |-> run(n)[n]]
<1>3. ASSUME NEW n \in Nat PROVE Goes(run(n), n, A, a, F)
  BY <1>1
<1> HIDE DEF run
<1>4. ASSUME NEW n \in Nat PROVE run(n)[n] \in A
  BY <1>3 DEF Goes
<1>5. h \in [Nat -> A] /\ h[0] = a
  BY <1>3, <1>4 DEF Goes
<1>6. ASSUME NEW n \in Nat PROVE h[n + 1] = F[n + 1][h[n]]
  <2>1. n + 1 \in Nat /\ n + 1 \in 1 .. n + 1 /\ (n + 1) - 1 = n /\ n <= n + 1 /\ n <= n
    OBVIOUS
  <2>2. run(n + 1)[n + 1] = F[n + 1][run(n + 1)[n]]
    BY <1>3, <2>1 DEF Goes
  <2>3. run(n + 1)[n] = run(n)[n]
    BY <1>2, <1>3, <2>1
  <2> QED  BY <2>1, <2>2, <2>3
<1> HIDE DEF h
<1>7. Follows(h, A, a, F)
  BY <1>5, <1>6 DEF Follows
<1> QED  BY <1>7

(* The laws of powers, from their recursive definition.                    *)
LEMMA PowRecursion ==
  ASSUME NEW b \in Int
  PROVE  /\ Pow(b, 0) = 1
         /\ \A n \in Nat : Pow(b, n) \in Int /\ Pow(b, n + 1) = b * Pow(b, n)
<1> DEFINE F == [i \in Nat |-> [x \in Int |-> b * x]]
           Is(p) == p = [i \in Nat |-> IF i = 0 THEN 1 ELSE b * p[i - 1]]
           q == CHOOSE p : Is(p)
<1>1. PICK f \in [Nat -> Int] : f[0] = 1 /\ \A n \in Nat : f[n + 1] = F[n + 1][f[n]]
  <2>1. F \in [Nat -> [Int -> Int]] /\ 1 \in Int
    OBVIOUS
  <2> HIDE DEF F
  <2>2. PICK f : Follows(f, Int, 1, F)
    BY <2>1, Recursion
  <2> QED  BY <2>2 DEF Follows
<1>2. ASSUME NEW n \in Nat PROVE f[n + 1] = b * f[n]
  <2>1. n + 1 \in Nat /\ f[n] \in Int
    OBVIOUS
  <2>2. F[n + 1][f[n]] = b * f[n]
    BY <2>1
  <2> QED  BY <1>1, <2>2
<1> HIDE DEF F
<1>3. Is(f)
  <2>1. ASSUME NEW i \in Nat PROVE f[i] = IF i = 0 THEN 1 ELSE b * f[i - 1]
    <3>1. CASE i = 0
      BY <1>1, <3>1
    <3>2. CASE i # 0
      <4>1. i - 1 \in Nat /\ (i - 1) + 1 = i
        BY <3>2
      <4> QED  BY <1>2, <3>2, <4>1
    <3> QED  BY <3>1, <3>2
  <2> QED  BY <1>1, <2>1
<1>4. Is(q)
  BY <1>3
<1>5. ASSUME NEW n \in Nat PROVE Pow(b, n) = q[n]
  BY DEF Pow
<1>6. q[0] = 1 /\ \A n \in Nat : q[n + 1] = b * q[n]
  <2>1. ASSUME NEW i \in Nat PROVE q[i] = IF i = 0 THEN 1 ELSE b * q[i - 1]
    BY <1>4
  <2>2. q[0] = 1
    BY <2>1
  <2>3. ASSUME NEW n \in Nat PROVE q[n + 1] = b * q[n]
    <3>1. n + 1 \in Nat /\ n + 1 # 0 /\ (n + 1) - 1 = n
      OBVIOUS
    <3> QED  BY <2>1, <3>1
  <2> QED  BY <2>2, <2>3
<1> HIDE DEF q
<1> DEFINE S == {n \in Nat : q[n] \in Int}
<1>7. 0 \in S /\ \A n \in Nat : n \in S => n + 1 \in S
  BY <1>6
<1> HIDE DEF S
<1>8. Nat \subseteq S
  BY <1>7, Induction
<1>9. \A n \in Nat : q[n] \in Int
  BY <1>8 DEF S
<1>10. ASSUME NEW n \in Nat PROVE Pow(b, n) \in Int /\ Pow(b, n + 1) = b * Pow(b, n)
  <2>1. n + 1 \in Nat
    OBVIOUS
  <2>2. Pow(b, n) = q[n] /\ Pow(b, n + 1) = q[n + 1]
    BY <1>5, <2>1
  <2> QED  BY <1>6, <1>9, <2>2
<1>11. Pow(b, 0) = 1
  BY <1>5, <1>6
<1> QED  BY <1>10, <1>11

LEMMA PowAdds ==
  ASSUME NEW b \in Int, NEW m \in Nat, NEW n \in Nat
  PROVE  Pow(b, m + n) = Pow(b, m) * Pow(b, n)
<1> DEFINE S == {k \in Nat : Pow(b, m + k) = Pow(b, m) * Pow(b, k)}
<1>1. 0 \in S
  <2>1. Pow(b, m) \in Int /\ Pow(b, 0) = 1 /\ m + 0 = m
    BY PowRecursion
  <2> QED  BY <2>1
<1>2. ASSUME NEW k \in Nat, k \in S PROVE k + 1 \in S
  <2>0. m + k \in Nat
    OBVIOUS
  <2>1. /\ Pow(b, m) \in Int /\ Pow(b, k) \in Int /\ Pow(b, m + k) \in Int
        /\ Pow(b, k + 1) = b * Pow(b, k)
        /\ Pow(b, (m + k) + 1) = b * Pow(b, m + k)
    BY <2>0, PowRecursion
  <2>2. Pow(b, m + k) = Pow(b, m) * Pow(b, k)
    BY <1>2
  <2>3. b * (Pow(b, m) * Pow(b, k)) = Pow(b, m) * (b * Pow(b, k))
    BY <2>1
  <2>4. m + (k + 1) = (m + k) + 1
    OBVIOUS
  <2> QED  BY <2>1, <2>2, <2>3, <2>4
<1> HIDE DEF S
<1>3. n \in S
  BY <1>1, <1>2, Induction
<1> QED  BY <1>3 DEF S

LEMMA PowPositive ==
  ASSUME NEW b \in Nat \ {0}, NEW n \in Nat
  PROVE  Pow(b, n) \in Nat \ {0}
<1> DEFINE S == {k \in Nat : Pow(b, k) \in Nat \ {0}}
<1>1. 0 \in S
  <2>1. Pow(b, 0) = 1
    BY PowRecursion
  <2> QED  BY <2>1
<1>2. ASSUME NEW k \in Nat, k \in S PROVE k + 1 \in S
  <2>1. Pow(b, k + 1) = b * Pow(b, k) /\ Pow(b, k) \in Nat \ {0}
    BY <1>2, PowRecursion
  <2> QED  BY <2>1
<1> HIDE DEF S
<1>3. n \in S
  BY <1>1, <1>2, Induction
<1> QED  BY <1>3 DEF S

(* The digits read so far, one more after the other.                       *)
Accumulates(r, b, s) ==
    /\ r \in [0 .. Len(s) -> Int]
    /\ r[0] = 0
    /\ \A i \in 1 .. Len(s) : r[i] = r[i - 1] * b + s[i]

LEMMA PositionalRecursion ==
  ASSUME NEW b \in Int, NEW s \in Seq(Int)
  PROVE  \E r : Accumulates(r, b, s) /\ Positional(b, s) = r[Len(s)]
<1> DEFINE n == Len(s)
           F == [i \in Nat |-> [x \in Int |-> x * b + (IF i \in 1 .. n THEN s[i] ELSE 0)]]
           Is(r) == r = [i \in 0 .. n |-> IF i = 0 THEN 0 ELSE r[i - 1] * b + s[i]]
           q == CHOOSE r : Is(r)
<1>1. n \in Nat /\ \A i \in 1 .. n : s[i] \in Int
  BY LenProperties
<1>2. PICK f : Follows(f, Int, 0, F)
  <2> HIDE DEF n
  <2>1. F \in [Nat -> [Int -> Int]] /\ 0 \in Int
    BY <1>1
  <2> HIDE DEF F
  <2> QED  BY <2>1, Recursion
<1>3. Positional(b, s) = q[n]
  BY DEF Positional
<1> HIDE DEF n
<1>4. ASSUME NEW i \in 1 .. n PROVE f[i - 1] \in Int /\ f[i] = f[i - 1] * b + s[i]
  <2>1. i - 1 \in Nat /\ (i - 1) + 1 = i /\ i \in Nat
    BY <1>1
  <2>2. f[i - 1] \in Int /\ f[i] = F[i][f[i - 1]]
    BY <1>2, <2>1 DEF Follows
  <2> QED  BY <2>1, <2>2
<1> HIDE DEF F
<1> DEFINE r == [i \in 0 .. n |-> f[i]]
<1>5. r \in [0 .. n -> Int] /\ r[0] = 0
  BY <1>1, <1>2 DEF Follows
<1>6. ASSUME NEW i \in 1 .. n PROVE r[i] = r[i - 1] * b + s[i]
  <2>1. i \in 0 .. n /\ i - 1 \in 0 .. n
    BY <1>1
  <2>2. r[i] = f[i] /\ r[i - 1] = f[i - 1]
    BY <2>1
  <2> QED  BY <1>4, <2>2
<1> HIDE DEF r
<1>7. Is(r)
  <2>1. ASSUME NEW i \in 0 .. n PROVE r[i] = IF i = 0 THEN 0 ELSE r[i - 1] * b + s[i]
    <3>1. CASE i = 0
      BY <1>5, <3>1
    <3>2. CASE i # 0
      <4>1. i \in 1 .. n
        BY <1>1, <3>2
      <4> QED  BY <1>6, <3>2, <4>1
    <3> QED  BY <3>1, <3>2
  <2> QED  BY <1>5, <2>1
<1>8. Is(q)
  BY <1>7
<1>9. /\ DOMAIN q = 0 .. n
      /\ \A i \in 0 .. n : q[i] = IF i = 0 THEN 0 ELSE q[i - 1] * b + s[i]
  BY <1>8
<1>10. q = [i \in 0 .. n |-> q[i]]
  BY <1>8
<1> HIDE DEF q
<1> DEFINE S == {i \in Nat : i <= n => q[i] \in Int}
<1>11. 0 \in S
  BY <1>1, <1>9
<1>12. ASSUME NEW i \in Nat, i \in S PROVE i + 1 \in S
  <2>1. SUFFICES ASSUME i + 1 <= n PROVE q[i + 1] \in Int
    OBVIOUS
  <2>2. i + 1 \in 0 .. n /\ i + 1 # 0 /\ (i + 1) - 1 = i /\ i + 1 \in 1 .. n /\ q[i] \in Int
    BY <1>1, <1>12, <2>1
  <2>3. q[i + 1] = q[i] * b + s[i + 1]
    BY <1>9, <2>2
  <2> QED  BY <1>1, <2>2, <2>3
<1> HIDE DEF S
<1>13. Nat \subseteq S
  BY <1>11, <1>12, Induction
<1>14. q \in [0 .. n -> Int]
  <2>1. ASSUME NEW i \in 0 .. n PROVE q[i] \in Int
    BY <1>1, <1>13 DEF S
  <2> QED  BY <1>10, <2>1
<1>15. Accumulates(q, b, s)
  <2>1. ASSUME NEW i \in 1 .. n PROVE q[i] = q[i - 1] * b + s[i]
    BY <1>1, <1>9
  <2>2. q[0] = 0
    BY <1>1, <1>9
  <2> QED  BY <1>14, <2>1, <2>2 DEF Accumulates, n
<1> QED  BY <1>3, <1>15 DEF n

(* Whatever is accumulated in this way is the number.                      *)
LEMMA PositionalIs ==
  ASSUME NEW b \in Int, NEW s \in Seq(Int), NEW g, Accumulates(g, b, s)
  PROVE  Positional(b, s) = g[Len(s)] /\ Positional(b, s) \in Int
<1> DEFINE n == Len(s)
<1>1. n \in Nat
  BY LenProperties
<1>2. PICK r : Accumulates(r, b, s) /\ Positional(b, s) = r[n]
  BY PositionalRecursion
<1>3. /\ r[0] = 0 /\ \A i \in 1 .. n : r[i] = r[i - 1] * b + s[i]
      /\ g[0] = 0 /\ \A i \in 1 .. n : g[i] = g[i - 1] * b + s[i]
      /\ g \in [0 .. n -> Int]
  BY <1>2 DEF Accumulates
<1> HIDE DEF n
<1> DEFINE S == {i \in Nat : i <= n => r[i] = g[i]}
<1>4. 0 \in S
  BY <1>3
<1>5. ASSUME NEW i \in Nat, i \in S PROVE i + 1 \in S
  <2>1. SUFFICES ASSUME i + 1 <= n PROVE r[i + 1] = g[i + 1]
    OBVIOUS
  <2>2. i + 1 \in 1 .. n /\ (i + 1) - 1 = i /\ r[i] = g[i]
    BY <1>1, <1>5, <2>1
  <2>3. r[i + 1] = r[i] * b + s[i + 1] /\ g[i + 1] = g[i] * b + s[i + 1]
    BY <1>3, <2>2
  <2> QED  BY <2>2, <2>3
<1> HIDE DEF S
<1>6. n \in S
  BY <1>1, <1>4, <1>5, Induction
<1>7. r[n] = g[n] /\ g[n] \in Int
  BY <1>1, <1>3, <1>6 DEF S
<1> QED  BY <1>2, <1>7 DEF n

(* Zeros behind the digits raise the number by a power.                    *)
LEMMA PositionalPads ==
  ASSUME NEW b \in Int, NEW s \in Seq(Int), NEW k \in Nat
  PROVE  Positional(b, s \o [i \in 1 .. k |-> 0]) = Positional(b, s) * Pow(b, k)
<1> DEFINE n == Len(s)
           z == [i \in 1 .. k |-> 0]
           u == s \o z
<1>1. n \in Nat /\ DOMAIN s = 1 .. n
  BY LenProperties
<1>2. z \in Seq(Int) /\ Len(z) = k
  <2>1. z \in [1 .. k -> Int]
    OBVIOUS
  <2> HIDE DEF z
  <2> QED  BY <2>1, LenProperties, SeqDef
<1>3. /\ u \in Seq(Int) /\ Len(u) = n + k
      /\ \A i \in 1 .. n + k : u[i] = IF i <= n THEN s[i] ELSE z[i - n]
  <2> HIDE DEF z
  <2> QED  BY <1>2, ConcatProperties
<1> HIDE DEF u, n
<1>4. PICK r : Accumulates(r, b, s) /\ Positional(b, s) = r[n]
  BY PositionalRecursion DEF n
<1>5. /\ r \in [0 .. n -> Int] /\ r[0] = 0
      /\ \A i \in 1 .. n : r[i] = r[i - 1] * b + s[i]
  BY <1>4 DEF Accumulates, n
<1> DEFINE g == [i \in 0 .. n + k |-> IF i <= n THEN r[i] ELSE r[n] * Pow(b, i - n)]
<1>6. \A j \in Nat : Pow(b, j) \in Int /\ Pow(b, j + 1) = b * Pow(b, j)
  BY PowRecursion
<1>7. r[n] \in Int /\ r[n] * Pow(b, 0) = r[n]
  <2>1. Pow(b, 0) = 1
    BY PowRecursion
  <2> QED  BY <1>1, <1>5, <2>1
<1>8. ASSUME NEW i \in 0 .. n + k PROVE g[i] \in Int
  <2>1. CASE i <= n
    BY <1>1, <1>5, <2>1
  <2>2. CASE ~(i <= n)
    <3>1. i - n \in Nat
      BY <1>1, <2>2
    <3>2. Pow(b, i - n) \in Int
      BY <1>6, <3>1
    <3>3. r[n] * Pow(b, i - n) \in Int
      BY <1>7, <3>2
    <3> QED  BY <2>2, <3>3
  <2> QED  BY <2>1, <2>2
<1>9. ASSUME NEW i \in 1 .. n + k PROVE g[i] = g[i - 1] * b + u[i]
  <2>0. i \in 0 .. n + k /\ i - 1 \in 0 .. n + k
    BY <1>1
  <2>1. CASE i <= n
    <3>1. i \in 1 .. n /\ i - 1 <= n
      BY <1>1, <2>1
    <3>2. g[i] = r[i] /\ g[i - 1] = r[i - 1] /\ u[i] = s[i]
      BY <1>3, <2>0, <2>1, <3>1
    <3> QED  BY <1>5, <3>1, <3>2
  <2>2. CASE ~(i <= n)
    <3>1. i - n \in 1 .. k /\ (i - 1) - n \in Nat /\ ((i - 1) - n) + 1 = i - n
      BY <1>1, <2>2
    <3>2. u[i] = 0
      BY <1>3, <2>2, <3>1
    <3>3. g[i] = r[n] * Pow(b, i - n)
      BY <2>0, <2>2
    <3>4. g[i - 1] = r[n] * Pow(b, (i - 1) - n)
      <4>1. CASE i - 1 <= n
        <5>1. i - 1 = n /\ (i - 1) - n = 0
          BY <1>1, <2>2, <4>1
        <5>2. g[i - 1] = r[n]
          BY <2>0, <4>1, <5>1
        <5> QED  BY <1>7, <5>1, <5>2
      <4>2. CASE ~(i - 1 <= n)
        BY <2>0, <4>2
      <4> QED  BY <4>1, <4>2
    <3>5. Pow(b, i - n) = b * Pow(b, (i - 1) - n) /\ Pow(b, (i - 1) - n) \in Int
      <4> DEFINE j == (i - 1) - n
      <4>1. j \in Nat /\ j + 1 = i - n
        BY <3>1
      <4> HIDE DEF j
      <4>2. Pow(b, i - n) = b * Pow(b, j) /\ Pow(b, j) \in Int
        BY <1>6, <4>1
      <4> QED  BY <4>2 DEF j
    <3> DEFINE p == Pow(b, (i - 1) - n)
    <3> HIDE DEF p, g
    <3>6. g[i] = r[n] * (b * p) /\ g[i - 1] = r[n] * p /\ p \in Int
      BY <3>3, <3>4, <3>5 DEF p
    <3>7. r[n] * (b * p) = (r[n] * p) * b + 0
      BY <1>7, <3>6
    <3> QED  BY <3>2, <3>6, <3>7
  <2> QED  BY <2>1, <2>2
<1>10. g \in [0 .. n + k -> Int] /\ g[0] = 0
  <2>1. 0 \in 0 .. n + k /\ 0 <= n
    BY <1>1
  <2>2. g[0] = 0
    BY <1>5, <2>1
  <2>3. g \in [0 .. n + k -> Int]
    BY <1>8
  <2> QED  BY <2>2, <2>3
<1>11. g[n + k] = r[n] * Pow(b, k)
  <2>1. CASE k = 0
    BY <1>1, <1>7, <2>1
  <2>2. CASE k # 0
    <3>1. ~(n + k <= n) /\ (n + k) - n = k /\ n + k \in 0 .. n + k
      BY <1>1, <2>2
    <3> QED  BY <3>1
  <2> QED  BY <2>1, <2>2
<1> HIDE DEF g
<1>12. Accumulates(g, b, u)
  BY <1>3, <1>9, <1>10 DEF Accumulates
<1>13. Positional(b, u) = g[n + k]
  BY <1>3, <1>12, PositionalIs
<1> QED  BY <1>4, <1>11, <1>13 DEF u
-----------------------------------------------------------------------------
(* Division *)

LEMMA Division ==
  ASSUME NEW v \in Int, NEW d \in Nat \ {0}
  PROVE  /\ v \div d \in Int /\ v % d \in Int
         /\ v = d * (v \div d) + (v % d) /\ 0 <= v % d /\ v % d < d
OBVIOUS

LEMMA QuotientIs ==
  ASSUME NEW v \in Int, NEW d \in Nat \ {0}, NEW q \in Int, NEW r \in Int,
         v = d * q + r, 0 <= r, r < d
  PROVE  v \div d = q
<1> DEFINE p == v \div d
           m == v % d
<1>1. p \in Int /\ m \in Int /\ v = d * p + m /\ 0 <= m /\ m < d
  BY Division
<1> HIDE DEF p, m
<1>2. CASE p < q
  <2>1. d * p + d <= d * q
    <3>1. p + 1 <= q
      BY <1>1, <1>2
    <3>2. d * (p + 1) <= d * q
      BY <1>1, <3>1
    <3>3. d * (p + 1) = d * p + d
      BY <1>1
    <3> QED  BY <3>2, <3>3
  <2> QED  BY <1>1, <2>1
<1>3. CASE p > q
  <2>1. d * q + d <= d * p
    <3>1. q + 1 <= p
      BY <1>1, <1>3
    <3>2. d * (q + 1) <= d * p
      BY <1>1, <3>1
    <3>3. d * (q + 1) = d * q + d
      BY <1>1
    <3> QED  BY <3>2, <3>3
  <2> QED  BY <1>1, <2>1
<1> QED  BY <1>1, <1>2, <1>3 DEF p

(* A number is divided by two powers one after the other.                  *)
LEMMA QuotientOfQuotient ==
  ASSUME NEW v \in Int, NEW d \in Nat \ {0}, NEW e \in Nat \ {0}
  PROVE  v \div (d * e) = (v \div d) \div e
<1> DEFINE x == v \div d
           r == v % d
           y == x \div e
           t == x % e
<1>1. x \in Int /\ r \in Int /\ v = d * x + r /\ 0 <= r /\ r < d
  BY Division
<1> HIDE DEF x, r
<1>2. y \in Int /\ t \in Int /\ x = e * y + t /\ 0 <= t /\ t < e
  BY <1>1, Division
<1> HIDE DEF y, t
<1> DEFINE m == d * t + r
<1>3. v = (d * e) * y + m
  <2>1. d * (e * y + t) = (d * e) * y + d * t
    BY <1>2
  <2> QED  BY <1>1, <1>2, <2>1
<1>4. m \in Int /\ 0 <= m /\ m < d * e
  <2>1. 0 <= d * t /\ d * t \in Int
    BY <1>2
  <2>2. d * (t + 1) <= d * e
    BY <1>2
  <2>3. d * (t + 1) = d * t + d
    BY <1>2
  <2> QED  BY <1>1, <2>1, <2>2, <2>3
<1>5. d * e \in Nat \ {0}
  OBVIOUS
<1> HIDE DEF m
<1>6. v \div (d * e) = y
  BY <1>2, <1>3, <1>4, <1>5, QuotientIs
<1> QED  BY <1>6 DEF y, x

(* A quotient reaches h where the dividend reaches h times the divisor.    *)
LEMMA QuotientReaches ==
  ASSUME NEW v \in Int, NEW d \in Nat \ {0}, NEW h \in Int
  PROVE  v \div d >= h <=> v >= d * h
<1> DEFINE q == v \div d
           r == v % d
<1>1. q \in Int /\ r \in Int /\ v = d * q + r /\ 0 <= r /\ r < d
  BY Division
<1> HIDE DEF q, r
<1>2. CASE q >= h
  <2>1. d * q >= d * h
    BY <1>1, <1>2
  <2> QED  BY <1>1, <1>2, <2>1 DEF q
<1>3. CASE ~(q >= h)
  <2>1. q + 1 <= h
    BY <1>1, <1>3
  <2>2. d * (q + 1) <= d * h
    BY <1>1, <2>1
  <2>3. d * (q + 1) = d * q + d
    BY <1>1
  <2> QED  BY <1>1, <1>3, <2>2, <2>3 DEF q
<1> QED  BY <1>2, <1>3

(* The words of a number, read one after the other, give it back, and the  *)
(* first one holds what is above all the others.                           *)
LEMMA WordsRead ==
  ASSUME NEW W \in Nat, NEW c \in Nat \ {0}, NEW v \in Nat, v < Pow(2, W * c),
         NEW words,
         words = [i \in 1 .. c |-> (v \div Pow(2, W * (c - i))) % Pow(2, W)]
  PROVE  /\ words \in Seq(Int) /\ Len(words) = c
         /\ Positional(Pow(2, W), words) = v
         /\ words[1] = v \div Pow(2, W * (c - 1))
<1> DEFINE P == Pow(2, W)
           e(i) == Pow(2, W * (c - i))
           g == [i \in 0 .. c |-> v \div e(i)]
<1>1. P \in Nat \ {0}
  BY PowPositive
<1>2. ASSUME NEW i \in 0 .. c PROVE W * (c - i) \in Nat /\ e(i) \in Nat \ {0} /\ v \div e(i) \in Int
  <2> DEFINE k == W * (c - i)
             d == Pow(2, k)
  <2>1. k \in Nat /\ 2 \in Nat \ {0}
    OBVIOUS
  <2> HIDE DEF k
  <2>2. d \in Nat \ {0}
    BY <2>1, PowPositive
  <2>3. e(i) = d
    BY DEF k
  <2> HIDE DEF d, e
  <2>4. v \div d \in Int
    BY <2>2, Division
  <2>5. W * (c - i) \in Nat
    BY <2>1 DEF k
  <2> QED  BY <2>2, <2>3, <2>4, <2>5
<1>3. \A i \in 1 .. c : words[i] = (v \div e(i)) % P
  OBVIOUS
<1>4. ASSUME NEW i \in 1 .. c PROVE e(i - 1) = e(i) * P
  <2>1. W * (c - (i - 1)) = W * (c - i) + W
    OBVIOUS
  <2>2. W * (c - i) \in Nat
    BY <1>2
  <2>3. Pow(2, W * (c - i) + W) = Pow(2, W * (c - i)) * Pow(2, W)
    BY <2>2, PowAdds
  <2> QED  BY <2>1, <2>3
<1>5. e(0) = Pow(2, W * c) /\ e(c) = 1
  <2>1. c - 0 = c /\ W * (c - c) = 0
    OBVIOUS
  <2> QED  BY <2>1, PowRecursion
<1> HIDE DEF P, e
<1>6. words \in [1 .. c -> Int]
  <2>1. ASSUME NEW i \in 1 .. c PROVE (v \div e(i)) % P \in Int
    <3> DEFINE x == v \div e(i)
    <3>1. i \in 0 .. c
      OBVIOUS
    <3>2. x \in Int
      BY <1>2, <3>1
    <3> HIDE DEF x
    <3>3. x % P \in Int
      BY <1>1, <3>2, Division
    <3> QED  BY <3>3 DEF x
  <2> QED  BY <2>1 DEF P, e
<1>7. words \in Seq(Int) /\ Len(words) = c
  <2>1. words \in Seq(Int)
    BY <1>6, SeqDef
  <2>2. DOMAIN words = 1 .. Len(words) /\ DOMAIN words = 1 .. c /\ Len(words) \in Nat
    BY <1>6, <2>1, LenProperties
  <2> QED  BY <2>1, <2>2
<1>8. \A i \in 0 .. c : g[i] = v \div e(i)
  OBVIOUS
<1>9. g \in [0 .. c -> Int]
  BY <1>2
<1> HIDE DEF g
<1>10. g[0] = 0
  <2>1. v = e(0) * 0 + v /\ e(0) \in Nat \ {0} /\ v < e(0)
    BY <1>2, <1>5
  <2>2. v \div e(0) = 0
    BY <2>1, QuotientIs
  <2> QED  BY <1>8, <2>2
<1>11. g[c] = v
  <2>1. v = 1 * v + 0 /\ 1 \in Nat \ {0}
    OBVIOUS
  <2>2. v \div 1 = v
    BY <2>1, QuotientIs
  <2> QED  BY <1>5, <1>8, <2>2
<1>12. ASSUME NEW i \in 1 .. c PROVE g[i] = g[i - 1] * P + words[i]
  <2>1. i \in 0 .. c /\ i - 1 \in 0 .. c
    OBVIOUS
  <2> DEFINE x == v \div e(i)
  <2>2. x \in Int /\ e(i) \in Nat \ {0}
    BY <1>2, <2>1
  <2>3. v \div (e(i) * P) = x \div P
    <3> DEFINE d == e(i)
    <3>1. d \in Nat \ {0} /\ P \in Nat \ {0} /\ v \in Int
      BY <1>1, <2>2
    <3> HIDE DEF d
    <3>2. v \div (d * P) = (v \div d) \div P
      BY <3>1, QuotientOfQuotient
    <3> QED  BY <3>2 DEF d
  <2>4. g[i] = x /\ g[i - 1] = x \div P /\ words[i] = x % P
    BY <1>3, <1>4, <1>8, <2>1, <2>3
  <2> HIDE DEF x
  <2>5. x = P * (x \div P) + (x % P) /\ x \div P \in Int
    BY <1>1, <2>2, Division
  <2>6. P * (x \div P) = (x \div P) * P
    BY <1>1, <2>5
  <2> QED  BY <2>4, <2>5, <2>6
<1>13. Accumulates(g, P, words)
  BY <1>7, <1>9, <1>10, <1>12 DEF Accumulates
<1>14. Positional(P, words) = v
  <2>1. P \in Int /\ words \in Seq(Int)
    BY <1>1, <1>7
  <2>2. Positional(P, words) = g[Len(words)]
    BY <1>13, <2>1, PositionalIs
  <2> QED  BY <1>7, <1>11, <2>2
<1>15. words[1] = v \div e(1)
  <2>1. 1 \in 1 .. c /\ 1 \in 0 .. c /\ 1 - 1 = 0
    OBVIOUS
  <2>2. g[1] = g[0] * P + words[1] /\ words[1] \in Int
    BY <1>6, <1>12, <2>1
  <2>3. g[0] * P = 0
    BY <1>1, <1>10
  <2> QED  BY <1>8, <2>1, <2>2, <2>3
<1> QED  BY <1>7, <1>14, <1>15 DEF P, e

LEMMA Widths ==
  ASSUME NEW t \in DOMAIN IntTypes
  PROVE  /\ Count(t) \in Nat \ {0} /\ Bits(t) \in Nat \ {0}
         /\ Bits(t) <= WordBits * Count(t)
         /\ WordBits \in Nat \ {0}
<1> DEFINE h == WordBits \div 2
<1>1. WordBits \in Nat \ {0} /\ h \in Nat \ {0} /\ WordBits = 2 * h
  BY WordAssumption
<1>2. IntTypes[t].halves \in {1, 2, 4, 8}
  BY DEF IntTypes
<1>3. Count(t) = IF IntTypes[t].halves = 1 THEN 1 ELSE IntTypes[t].halves \div 2
  BY DEF Count
<1>4. Bits(t) = IntTypes[t].halves * h
  BY DEF Bits
<1> HIDE DEF h
<1>5. CASE IntTypes[t].halves = 1
  BY <1>1, <1>3, <1>4, <1>5
<1>6. CASE IntTypes[t].halves = 2
  BY <1>1, <1>3, <1>4, <1>6
<1>7. CASE IntTypes[t].halves = 4
  BY <1>1, <1>3, <1>4, <1>7
<1>8. CASE IntTypes[t].halves = 8
  BY <1>1, <1>3, <1>4, <1>8
<1> QED  BY <1>2, <1>5, <1>6, <1>7, <1>8

LEMMA PowGrows ==
  ASSUME NEW m \in Nat, NEW n \in Nat, m <= n
  PROVE  Pow(2, m) <= Pow(2, n)
<1>1. n - m \in Nat /\ m + (n - m) = n
  OBVIOUS
<1>2. Pow(2, n) = Pow(2, m) * Pow(2, n - m)
  BY <1>1, PowAdds
<1>3. Pow(2, m) \in Nat \ {0} /\ Pow(2, n - m) \in Nat \ {0}
  BY <1>1, PowPositive
<1> QED  BY <1>2, <1>3

(* A number that fits its type, negative or not and of any width, is the   *)
(* one its words are read as (encode.go:362-379, decode.go:234-246).       *)
THEOREM WordsKeepNumbers ==
  ASSUME NEW t \in DOMAIN IntTypes, NEW n \in Int, InRange(n, t)
  PROVE  NumberOf(WordsOf(n, t), IntTypes[t].signed) = n
<1> DEFINE W == WordBits
           c == Count(t)
           b == Bits(t)
           all == Pow(2, W * c)
           half == Pow(2, W - 1)
           low == Pow(2, W * (c - 1))
           v == IF n < 0 THEN n + all ELSE n
           words == WordsOf(n, t)
           signed == IntTypes[t].signed
<1>1. /\ c \in Nat \ {0} /\ b \in Nat \ {0} /\ W \in Nat \ {0}
      /\ b <= W * c /\ W * c \in Nat /\ 2 \in Nat \ {0}
  BY Widths
<1>3. /\ signed => -Pow(2, b - 1) <= n /\ n < Pow(2, b - 1)
      /\ ~signed => 0 <= n /\ n < Pow(2, b)
  BY DEF InRange
<1>4. words = [i \in 1 .. c |-> (v \div Pow(2, W * (c - i))) % Pow(2, W)]
  BY DEF WordsOf
<1>5. NumberOf(words, signed) =
         IF signed /\ words[1] >= half THEN Positional(Pow(2, W), words) - Pow(2, W * Len(words))
         ELSE Positional(Pow(2, W), words)
  BY DEF NumberOf
<1> HIDE DEF c, b, words, signed, W
<1>6. /\ W * c - 1 \in Nat /\ b - 1 \in Nat /\ b - 1 <= W * c - 1
      /\ W - 1 \in Nat /\ W * (c - 1) \in Nat /\ W * (c - 1) + (W - 1) = W * c - 1
      /\ (W * c - 1) + 1 = W * c
  <2>1. W * c >= 1
    BY <1>1
  <2>2. W * (c - 1) \in Nat /\ W * (c - 1) = W * c - W
    BY <1>1
  <2> QED  BY <1>1, <2>1, <2>2
<1> DEFINE top == Pow(2, W * c - 1)
<1>7. /\ Pow(2, b - 1) \in Nat \ {0} /\ Pow(2, b) \in Nat \ {0} /\ top \in Nat \ {0}
      /\ all \in Nat \ {0} /\ low \in Nat \ {0} /\ half \in Nat \ {0}
  BY <1>1, <1>6, PowPositive
<1>8. Pow(2, b - 1) <= top /\ Pow(2, b) <= all
  BY <1>1, <1>6, PowGrows
<1>9. all = 2 * top
  BY <1>1, <1>6, PowRecursion
<1>10. top = low * half
  BY <1>6, PowAdds
<1> HIDE DEF all, half, low, top
<1>11. v \in Nat /\ v < all /\ (n < 0 => signed) /\ (signed => (v >= top <=> n < 0))
  BY <1>3, <1>7, <1>8, <1>9
<1> HIDE DEF v
<1>12. /\ Len(words) = c /\ Positional(Pow(2, W), words) = v
       /\ words[1] = v \div low
  BY <1>1, <1>4, <1>11, WordsRead DEF all, low
<1>13. v \div low >= half <=> v >= top
  BY <1>7, <1>10, <1>11, QuotientReaches
<1>14. NumberOf(words, signed) = IF signed /\ v >= top THEN v - all ELSE v
  BY <1>5, <1>12, <1>13 DEF all
<1>15. NumberOf(words, signed) = n
  BY <1>7, <1>11, <1>14 DEF v
<1> QED  BY <1>15 DEF words, signed
-----------------------------------------------------------------------------
(* The number that a literal writes is the one its digits write, moved by  *)
(* its decimal count.                                                      *)
Exact(lit) ==
    FromDigits(lit.int \o lit.frac) * Pow(Base, IF lit.scale = NoScale THEN 0 ELSE lit.scale)

LEMMA LiteralsExact ==
  ASSUME NEW lit \in Literals, Reads(lit)
  PROVE  /\ Signed(lit) \in Int
         /\ Signed(lit) * Pow(Base, Len(lit.frac)) = (IF lit.neg THEN -Exact(lit) ELSE Exact(lit))
<1>1. /\ lit.int \in Seq(0 .. Base - 1) /\ lit.frac \in Seq(0 .. Base - 1)
      /\ lit.scale \in Int /\ Base \in Nat \ {0}
  BY WordAssumption DEF Literals
<1>2. /\ lit.int \in Seq(Int) /\ lit.frac \in Seq(Int) /\ lit.int \o lit.frac \in Seq(Int)
      /\ Len(lit.frac) \in Nat
  <2>1. 0 .. Base - 1 \subseteq Int
    BY <1>1
  <2>2. lit.int \in Seq(Int) /\ lit.frac \in Seq(Int)
    BY <1>1, <2>1, SeqMonotonic
  <2> QED  BY <2>2, ConcatProperties, LenProperties
<1> DEFINE all == lit.int \o lit.frac
           m == FromDigits(all)
           k == Len(lit.frac)
<1>3. m \in Int
  <2> HIDE DEF all
  <2>1. all \in Seq(Int) /\ Base \in Int
    BY <1>1, <1>2 DEF all
  <2>2. PICK r : Accumulates(r, Base, all)
    BY <2>1, PositionalRecursion
  <2>3. Positional(Base, all) \in Int
    BY <2>1, <2>2, PositionalIs
  <2> QED  BY <2>3 DEF FromDigits
<1>4. ASSUME NEW j \in Nat PROVE Pow(Base, j) \in Int
  BY <1>1, PowRecursion
<1>5. Magnitude(lit) \in Int /\ Magnitude(lit) * Pow(Base, k) = Exact(lit)
  <2>1. CASE Plain(lit)
    <3>1. lit.scale = NoScale /\ lit.frac = <<>> /\ k = 0
      BY <2>1, EmptySeq DEF Plain
    <3>2. all = lit.int
      BY <1>2, <3>1, ConcatEmptySeq
    <3>3. Magnitude(lit) = m
      BY <2>1, <3>2 DEF Magnitude
    <3>4. Exact(lit) = m * Pow(Base, 0)
      BY <3>1 DEF Exact
    <3> QED  BY <1>1, <1>3, <3>1, <3>3, <3>4, PowRecursion
  <2>2. CASE ~Plain(lit)
    <3>1. lit.scale \in Nat /\ k <= lit.scale /\ lit.scale # NoScale
      BY <2>2, WordAssumption DEF Reads, WholeReads, ScaleReads, NoScale
    <3> DEFINE j == lit.scale - k
    <3>2. j \in Nat /\ j + k = lit.scale /\ k \in Nat
      BY <1>2, <3>1
    <3>3. Magnitude(lit) = FromDigits(all \o [i \in 1 .. j |-> 0])
      <4>1. Magnitude(lit) = FromDigits(lit.int \o lit.frac \o [i \in 1 .. j |-> 0])
        BY <2>2 DEF Magnitude, Scaled
      <4> QED  BY <4>1
    <3> HIDE DEF j, k, all
    <3>4. Magnitude(lit) = m * Pow(Base, j)
      <4>1. all \in Seq(Int) /\ Base \in Int
        BY <1>1, <1>2 DEF all
      <4>2. Positional(Base, all \o [i \in 1 .. j |-> 0]) = Positional(Base, all) * Pow(Base, j)
        BY <3>2, <4>1, PositionalPads
      <4> QED  BY <3>3, <4>2 DEF FromDigits
    <3>5. Pow(Base, lit.scale) = Pow(Base, j) * Pow(Base, k)
      BY <1>1, <3>2, PowAdds
    <3>6. Exact(lit) = m * Pow(Base, lit.scale)
      BY <3>1 DEF Exact, all
    <3>7. Pow(Base, j) \in Int /\ Pow(Base, k) \in Int
      BY <1>4, <3>2
    <3> HIDE DEF m
    <3>8. (m * Pow(Base, j)) * Pow(Base, k) = m * (Pow(Base, j) * Pow(Base, k))
      BY <1>3, <3>7
    <3> QED  BY <1>3, <3>4, <3>5, <3>6, <3>7, <3>8 DEF k
  <2> QED  BY <2>1, <2>2
<1>6. Pow(Base, k) \in Int
  BY <1>2, <1>4
<1>7. (-Magnitude(lit)) * Pow(Base, k) = -(Magnitude(lit) * Pow(Base, k))
  BY <1>5, <1>6
<1> QED  BY <1>5, <1>6, <1>7 DEF Signed

LEMMA IntTypeNames ==
  DOMAIN IntTypes = {"u32", "i32", "u64", "i64", "timepoint", "duration", "u128", "i128",
                     "u256", "i256"}
BY DEF IntTypes

(* An encoder of integers makes the words of the number that is written.   *)
Numeric(e, lit) ==
    /\ Reads(lit)
    /\ \E t \in DOMAIN IntTypes :
          /\ InRange(Signed(lit), t)
          /\ e = [type |-> t, words |-> WordsOf(Signed(lit), t)]

LEMMA EncodeIntIs ==
  ASSUME NEW t \in DOMAIN IntTypes, NEW lit, EncodeInt(t, lit).type \in DOMAIN IntTypes
  PROVE  Numeric(EncodeInt(t, lit), lit)
<1>1. EncodeInt(t, lit) # Refused
  BY IntTypeNames DEF Refused
<1>2. Reads(lit) /\ EncodeInt(t, lit) = IntVal(t, Signed(lit))
  BY <1>1 DEF EncodeInt
<1>3. InRange(Signed(lit), t)
  BY <1>1, <1>2 DEF IntVal
<1> QED  BY <1>2, <1>3 DEF IntVal, Numeric

(* Nothing else is encoded as an integer.                                  *)
LEMMA OtherEncoders ==
  ASSUME NEW body, NEW e,
         e \in {EncodeBool(body), Void, EncodeSymbol(body), EncodeAddress(body),
                EncodeString(body), Refused}
  PROVE  e.type \notin DOMAIN IntTypes
<1>1. e.type \in {"bool", "void", "symbol", "address", "string", "refused"}
  BY DEF EncodeBool, Void, EncodeSymbol, EncodeAddress, EncodeString, Refused
<1> QED  BY <1>1, IntTypeNames

LEMMA EncodeIs ==
  ASSUME NEW spec, Encode(spec).type \in DOMAIN IntTypes
  PROVE  /\ spec.prefix \notin {"map", "vec"} /\ spec.body.form = "number"
         /\ Numeric(Encode(spec), spec.body.lit)
<1> DEFINE e == Encode(spec)
<1>1. e.type \notin {"vec", "map", "refused"}
  BY IntTypeNames
<1>2. CASE spec.prefix = "vec"
  <2>1. e = Refused \/ e = [type |-> "vec", items |-> EncodeAll(spec.items)]
    BY <1>2 DEF Encode
  <2> QED  BY <1>1, <2>1 DEF Refused
<1>3. CASE spec.prefix = "map"
  <2>1. e = Refused \/ \E p : e = [type |-> "map", pairs |-> p]
    BY <1>3 DEF Encode
  <2> QED  BY <1>1, <2>1 DEF Refused
<1>4. CASE spec.prefix \notin {"vec", "map"}
  <2> DEFINE b == spec.body
  <2>1. e = EncodeLeaf(spec)
    BY <1>4 DEF Encode
  <2>2. ASSUME NEW x, e = x,
               x \in {EncodeBool(b), Void, EncodeSymbol(b), EncodeAddress(b), EncodeString(b),
                      Refused}
        PROVE  FALSE
    BY <2>2, OtherEncoders
  <2> HIDE DEF b, e
  <2>3. CASE spec.prefix \in DOMAIN IntTypes
    <3>1. e = IF b.form = "number" THEN EncodeInt(spec.prefix, b.lit) ELSE Refused
      BY <2>1, <2>3, IntTypeNames DEF EncodeLeaf, Encoders, EncodeAs, b
    <3>2. b.form = "number"
      BY <2>2, <3>1
    <3>3. Numeric(e, b.lit)
      BY <2>3, <3>1, <3>2, EncodeIntIs DEF e
    <3> QED  BY <1>4, <3>2, <3>3 DEF b, e
  <2>4. CASE spec.prefix \in Encoders \ DOMAIN IntTypes
    <3>1. e = EncodeAs(spec.prefix, b)
      BY <2>1, <2>4 DEF EncodeLeaf, b
    <3>2. e \in {EncodeBool(b), Void, EncodeSymbol(b), EncodeAddress(b), EncodeString(b)}
      BY <2>4, <3>1, IntTypeNames DEF EncodeAs, Encoders
    <3> QED  BY <2>2, <3>2
  <2>5. CASE spec.prefix \notin Encoders
    <3>1. e = Infer(b)
      BY <2>1, <2>5 DEF EncodeLeaf, b
    <3>2. CASE b.form = "number" /\ Plain(b.lit)
      <4>1. e = EncodeInt("i128", b.lit)
        BY <3>1, <3>2 DEF Infer
      <4>2. Numeric(e, b.lit)
        BY <4>1, EncodeIntIs, IntTypeNames DEF e
      <4> QED  BY <1>4, <3>2, <4>2 DEF b, e
    <3>3. CASE ~(b.form = "number" /\ Plain(b.lit))
      <4>1. e \in {EncodeBool(b), Void, EncodeSymbol(b), EncodeAddress(b), EncodeString(b)}
        BY <3>1, <3>3 DEF Infer
      <4> QED  BY <2>2, <4>1
    <3> QED  BY <3>2, <3>3
  <2> QED  BY <2>3, <2>4, <2>5
<1> QED  BY <1>2, <1>3, <1>4

(* What is decoded of an integer is its number.                            *)
LEMMA DecodeIs ==
  ASSUME NEW t \in DOMAIN IntTypes, NEW words
  PROVE  LET d == DecodeLeaf([type |-> t, words |-> words])
             n == NumberOf(words, IntTypes[t].signed)
         IN  \/ d.json = "number" /\ d.number = n
             \/ d.json = "string" /\ d.text.decimal = n
<1>1. CASE t \in {"u32", "i32"}
  BY <1>1 DEF DecodeLeaf
<1>2. CASE t \notin {"u32", "i32"}
  BY <1>2, IntTypeNames DEF DecodeLeaf, String, Decimal
<1> QED  BY <1>1, <1>2

LEMMA LeafTypes ==
  ASSUME NEW spec
  PROVE  EncodeLeaf(spec).type \notin {"vec", "map"}
<1> DEFINE e == EncodeLeaf(spec)
           b == spec.body
<1>1. ASSUME NEW t \in DOMAIN IntTypes, NEW lit PROVE EncodeInt(t, lit).type \notin {"vec", "map"}
  BY IntTypeNames DEF EncodeInt, IntVal, Refused
<1>2. ASSUME NEW x, x \in {EncodeBool(b), Void, EncodeSymbol(b), EncodeAddress(b),
                           EncodeString(b), Refused}
      PROVE  x.type \notin {"vec", "map"}
  BY <1>2 DEF EncodeBool, Void, EncodeSymbol, EncodeAddress, EncodeString, Refused
<1>3. CASE spec.prefix \in DOMAIN IntTypes
  <2>1. e = IF b.form = "number" THEN EncodeInt(spec.prefix, b.lit) ELSE Refused
    BY <1>3, IntTypeNames DEF EncodeLeaf, Encoders, EncodeAs
  <2> HIDE DEF e, b
  <2>2. e.type \notin {"vec", "map"}
    BY <1>1, <1>2, <1>3, <2>1
  <2> QED  BY <2>2 DEF e
<1>4. CASE spec.prefix \in Encoders \ DOMAIN IntTypes
  <2>1. e = EncodeAs(spec.prefix, b)
    BY <1>4 DEF EncodeLeaf
  <2> HIDE DEF e, b
  <2>2. e \in {EncodeBool(b), Void, EncodeSymbol(b), EncodeAddress(b), EncodeString(b)}
    BY <1>4, <2>1, IntTypeNames DEF EncodeAs, Encoders
  <2>3. e.type \notin {"vec", "map"}
    BY <1>2, <2>2
  <2> QED  BY <2>3 DEF e
<1>5. CASE spec.prefix \notin Encoders
  <2>1. e = Infer(b)
    BY <1>5 DEF EncodeLeaf
  <2> HIDE DEF e, b
  <2>2. \/ e = EncodeInt("i128", b.lit)
        \/ e \in {EncodeBool(b), Void, EncodeSymbol(b), EncodeAddress(b), EncodeString(b)}
    BY <2>1 DEF Infer
  <2>3. e.type \notin {"vec", "map"}
    BY <1>1, <1>2, <2>2, IntTypeNames
  <2> QED  BY <2>3 DEF e
<1> QED  BY <1>3, <1>4, <1>5

(* The entries of a map keep their places, whoever makes it.               *)
Placed(p) == \E n \in Nat : DOMAIN p = 1 .. n

LEMMA ListsArePlaced ==
  ASSUME NEW p, IsList(p)
  PROVE  Placed(p)
<1>1. p \in Seq(ToSet(p))
  BY DEF IsList
<1>2. Len(p) \in Nat /\ DOMAIN p = 1 .. Len(p)
  BY <1>1, LenProperties
<1> QED  BY <1>2 DEF Placed

LEMMA EncodedMap ==
  ASSUME NEW spec, Encode(spec).type = "map", spec.prefix = "map" => IsList(spec.pairs)
  PROVE  Placed(Encode(spec).pairs)
<1> DEFINE e == Encode(spec)
<1>1. CASE spec.prefix = "vec"
  <2>1. e = Refused \/ e = [type |-> "vec", items |-> EncodeAll(spec.items)]
    BY <1>1 DEF Encode
  <2> QED  BY <2>1 DEF Refused
<1>2. CASE spec.prefix = "map"
  <2> DEFINE keys == EncodeAll([i \in DOMAIN spec.pairs |-> spec.pairs[i][1]])
             vals == EncodeAll([i \in DOMAIN spec.pairs |-> spec.pairs[i][2]])
             pairs == [i \in DOMAIN keys |-> <<keys[i], vals[i]>>]
  <2>1. e = Refused \/ e = [type |-> "map", pairs |-> pairs]
    BY <1>2 DEF Encode
  <2>2. DOMAIN pairs = DOMAIN spec.pairs
    BY DEF EncodeAll
  <2> HIDE DEF pairs
  <2>3. e.pairs = pairs
    BY <2>1 DEF Refused
  <2> QED  BY <1>2, <2>2, <2>3, ListsArePlaced DEF Placed
<1>3. CASE spec.prefix \notin {"vec", "map"}
  <2>1. e = EncodeLeaf(spec)
    BY <1>3 DEF Encode
  <2> QED  BY <2>1, LeafTypes
<1> QED  BY <1>1, <1>2, <1>3

(* Some numbers up to n have a last one.                                   *)
LEMMA LastOfSome ==
  ASSUME NEW n \in Nat, NEW S, S \subseteq 1 .. n, S # {}
  PROVE  \E j \in S : \A l \in S : ~(l > j)
<1> DEFINE T == {n - j : j \in S}
<1>1. T \subseteq Nat /\ T # {}
  OBVIOUS
<1> HIDE DEF T
<1>2. PICK x \in T : \A y \in T : ~ (<<y, x>> \in OpToRel(<, Nat))
  BY <1>1, NatLessThanWellFounded, WFMin
<1>3. x \in Nat /\ \A y \in T : ~ (y < x)
  BY <1>1, <1>2 DEF OpToRel
<1>4. PICK j \in S : x = n - j
  BY DEF T
<1>5. ASSUME NEW l \in S PROVE ~(l > j)
  <2>1. n - l \in T /\ l \in Int /\ j \in Int
    BY DEF T
  <2>2. ~(n - l < n - j)
    BY <1>3, <1>4, <2>1
  <2> QED  BY <2>1, <2>2
<1> QED  BY <1>5

LEMMA PairsAreKept ==
  ASSUME NEW pairs, Placed(pairs), NEW i \in DOMAIN pairs
  PROVE  \E j \in DOMAIN pairs :
            pairs[j][1] = pairs[i][1] /\ pairs[j] \in Listed(DecodePairs(pairs))
<1>1. PICK n \in Nat : DOMAIN pairs = 1 .. n
  BY DEF Placed
<1>2. CASE \A k \in DOMAIN pairs : pairs[k][1].json = "string"
  <2> DEFINE kept == {j \in DOMAIN pairs :
                        \A l \in DOMAIN pairs : l > j => pairs[l][1] # pairs[j][1]}
             all == {pairs[k] : k \in kept}
  <2>1. DecodePairs(pairs) = [json |-> "object", members |-> all]
    BY <1>2 DEF DecodePairs
  <2> HIDE DEF all
  <2>2. Listed(DecodePairs(pairs)) = all
    BY <2>1 DEF Listed
  <2> DEFINE S == {j \in DOMAIN pairs : pairs[j][1] = pairs[i][1]}
  <2>3. S \subseteq 1 .. n /\ S # {}
    BY <1>1
  <2> HIDE DEF S
  <2>4. PICK j \in S : \A l \in S : ~(l > j)
    BY <2>3, LastOfSome
  <2>5. j \in DOMAIN pairs /\ pairs[j][1] = pairs[i][1]
    BY DEF S
  <2>6. ASSUME NEW l \in DOMAIN pairs, l > j PROVE pairs[l][1] # pairs[j][1]
    <3>1. l \notin S
      BY <2>4, <2>6
    <3> QED  BY <2>5, <3>1 DEF S
  <2>7. j \in kept
    BY <2>5, <2>6
  <2> HIDE DEF kept
  <2>8. pairs[j] \in all
    BY <2>7 DEF all
  <2> QED  BY <2>2, <2>5, <2>8
<1>3. CASE ~\A k \in DOMAIN pairs : pairs[k][1].json = "string"
  <2>1. DecodePairs(pairs) = [json |-> "pairs", pairs |-> pairs]
    BY <1>3 DEF DecodePairs
  <2>2. Listed(DecodePairs(pairs)) = ToSet(pairs)
    BY <2>1 DEF Listed
  <2> QED  BY <2>2, ToSetIs
<1> QED  BY <1>2, <1>3

LEMMA DecodeKeepsEntries ==
  ASSUME NEW v, v.type = "map", Placed(v.pairs), Decode(v) # Unsupported
  PROVE  LET entry(i) == <<DecodeLeaf(v.pairs[i][1]), DecodeLeaf(v.pairs[i][2])>>
         IN  \A i \in DOMAIN v.pairs : \E j \in DOMAIN v.pairs :
                entry(j)[1] = entry(i)[1] /\ entry(j) \in Listed(Decode(v))
<1> DEFINE entry(i) == <<DecodeLeaf(v.pairs[i][1]), DecodeLeaf(v.pairs[i][2])>>
           pairs == [i \in DOMAIN v.pairs |-> entry(i)]
<1>1. Decode(v) = DecodePairs(pairs)
  BY DEF Decode
<1>2. DOMAIN pairs = DOMAIN v.pairs /\ \A i \in DOMAIN v.pairs : pairs[i] = entry(i)
  OBVIOUS
<1> HIDE DEF pairs, entry
<1>3. Placed(pairs)
  BY <1>2 DEF Placed
<1>4. ASSUME NEW i \in DOMAIN v.pairs
      PROVE  \E j \in DOMAIN v.pairs :
                entry(j)[1] = entry(i)[1] /\ entry(j) \in Listed(Decode(v))
  <2>1. i \in DOMAIN pairs
    BY <1>2
  <2>2. PICK j \in DOMAIN pairs : pairs[j][1] = pairs[i][1] /\ pairs[j] \in Listed(DecodePairs(pairs))
    BY <1>3, <2>1, PairsAreKept
  <2>3. j \in DOMAIN v.pairs /\ pairs[j] = entry(j) /\ pairs[i] = entry(i)
    BY <1>2, <2>2
  <2> QED  BY <1>1, <2>2, <2>3
<1> QED  BY <1>4 DEF entry

-----------------------------------------------------------------------------
(* What the probe was sent is what the argument says, and what is shown is *)
(* decoded from what came back.                                            *)
CodecIInv ==
    /\ \E s \in Scenarios : inv = s.inv
    /\ \/ sent = Refused /\ returned = Refused
       \/ /\ sent = Encode(inv.spec)
          /\ returned \in Values(inv) \cup {sent}
          /\ shown = Decode(returned) /\ shown # Unsupported

LEMMA CodecUntouched ==
  CodecIInv /\ UNCHANGED <<inv, sent, returned, shown>> => CodecIInv'
BY DEF CodecIInv

LEMMA InitCodec == Init => CodecIInv
BY DEF Init, CodecIInv

LEMMA NextCodec == CodecIInv /\ [Next]_vars => CodecIInv'
<1> SUFFICES ASSUME CodecIInv, [Next]_vars PROVE CodecIInv'
  OBVIOUS
<1>1. CASE RunProbe
  <2>1. PICK o \in Outcomes :
           IF o = "error" \/ inv.command = "serve"
           THEN UNCHANGED <<sent, returned, shown>>
           ELSE /\ sent' = Encode(inv.spec)
                /\ returned' \in Values(inv) \cup ({sent'} \ {Refused})
                /\ shown' = Decode(returned')
                /\ shown' # Unsupported
    BY <1>1 DEF RunProbe
  <2>2. inv' = inv
    BY <1>1 DEF RunProbe
  <2>3. CASE o = "error" \/ inv.command = "serve"
    BY <2>1, <2>2, <2>3, CodecUntouched
  <2>4. CASE ~(o = "error" \/ inv.command = "serve")
    <3>1. /\ sent' = Encode(inv'.spec) /\ returned' \in Values(inv') \cup {sent'}
          /\ shown' = Decode(returned') /\ shown' # Unsupported
      BY <2>1, <2>2, <2>4
    <3>2. \E s \in Scenarios : inv' = s.inv
      BY <2>2 DEF CodecIInv
    <3> QED  BY <3>1, <3>2 DEF CodecIInv
  <2> QED  BY <2>3, <2>4
<1>2. CASE Prepare
  <2>1. UNCHANGED <<inv, probe>>
    BY <1>2 DEF Prepare, Guarded, CheckArgs, Locate, Load, LoadEnv, SetFlags, SetServeFlags,
                CheckQuiet, SelectFormat, ParseDurability, ParseGates, OpenReport, ReadInput,
                BuildProber
  <2> QED  BY <2>1, CodecUntouched DEF probe
<1>3. CASE Finish
  <2>1. UNCHANGED <<inv, probe>>
    BY <1>3 DEF Finish, WriteReport, PrintResult, Judge, CloseClient, CloseReport, Exit
  <2> QED  BY <2>1, CodecUntouched DEF probe
<1>4. CASE AbandonClient \/ RemoveConfig \/ Interrupt \/ UNCHANGED vars
  <2>1. UNCHANGED <<inv, probe>>
    BY <1>4 DEF AbandonClient, RemoveConfig, Interrupt, vars
  <2> QED  BY <2>1, CodecUntouched DEF probe
<1> QED  BY <1>1, <1>2, <1>3, <1>4 DEF Next

LEMMA AmountsFollow ==
  ASSUME CodecIInv
  PROVE  AmountsAreExact
<1> SUFFICES ASSUME sent.type \in DOMAIN IntTypes PROVE AmountsAreExact
  BY DEF AmountsAreExact
<1> DEFINE lit == inv.spec.body.lit
           n == CASE DecodeLeaf(sent).json = "number" -> DecodeLeaf(sent).number
                  [] DecodeLeaf(sent).json = "string" -> DecodeLeaf(sent).text.decimal
<1>1. PICK s \in Scenarios : inv = s.inv
  BY DEF CodecIInv
<1>2. sent = Encode(inv.spec)
  <2>1. sent # Refused
    BY IntTypeNames DEF Refused
  <2> QED  BY <2>1 DEF CodecIInv
<1>3. /\ inv.spec.prefix \notin {"map", "vec"} /\ inv.spec.body.form = "number"
      /\ Numeric(sent, lit)
  BY <1>2, EncodeIs
<1>4. lit \in Literals
  BY <1>1, <1>3, ScenarioAssumption
<1>5. Reads(lit)
  BY <1>3 DEF Numeric
<1>6. PICK t \in DOMAIN IntTypes :
         InRange(Signed(lit), t) /\ sent = [type |-> t, words |-> WordsOf(Signed(lit), t)]
  BY <1>3 DEF Numeric
<1> HIDE DEF lit
<1>7. /\ Signed(lit) \in Int
      /\ Signed(lit) * Pow(Base, Len(lit.frac)) = (IF lit.neg THEN -Exact(lit) ELSE Exact(lit))
  BY <1>4, <1>5, LiteralsExact
<1>8. NumberOf(WordsOf(Signed(lit), t), IntTypes[t].signed) = Signed(lit)
  BY <1>6, <1>7, WordsKeepNumbers
<1>9. \/ DecodeLeaf(sent).json = "number" /\ DecodeLeaf(sent).number = Signed(lit)
      \/ DecodeLeaf(sent).json = "string" /\ DecodeLeaf(sent).text.decimal = Signed(lit)
  BY <1>6, <1>8, DecodeIs
<1>10. n = Signed(lit)
  BY <1>9
<1> HIDE DEF n
<1>11. n * Pow(Base, Len(lit.frac)) = (IF lit.neg THEN -Exact(lit) ELSE Exact(lit))
  BY <1>7, <1>10
<1> QED  BY <1>11 DEF AmountsAreExact, Exact, lit, n

LEMMA EntriesFollow ==
  ASSUME CodecIInv
  PROVE  EntriesAreKept
<1> SUFFICES ASSUME returned.type = "map" PROVE EntriesAreKept
  BY DEF EntriesAreKept
<1>1. PICK s \in Scenarios : inv = s.inv
  BY DEF CodecIInv
<1>2. /\ returned \in Values(inv) \cup {sent} /\ sent = Encode(inv.spec)
      /\ shown = Decode(returned) /\ shown # Unsupported
  BY DEF CodecIInv, Refused
<1>3. Placed(returned.pairs)
  <2>1. CASE returned \in Values(inv)
    <3>1. IsList(returned.pairs)
      BY <1>1, <2>1, ScenarioAssumption
    <3> QED  BY <3>1, ListsArePlaced
  <2>2. CASE returned = Encode(inv.spec)
    <3>1. inv.spec.prefix = "map" => IsList(inv.spec.pairs)
      BY <1>1, ScenarioAssumption
    <3> QED  BY <2>2, <3>1, EncodedMap
  <2> QED  BY <1>2, <2>1, <2>2
<1>4. LET entry(i) == <<DecodeLeaf(returned.pairs[i][1]), DecodeLeaf(returned.pairs[i][2])>>
      IN  \A i \in DOMAIN returned.pairs : \E j \in DOMAIN returned.pairs :
             entry(j)[1] = entry(i)[1] /\ entry(j) \in Listed(Decode(returned))
  BY <1>2, <1>3, DecodeKeepsEntries
<1> QED  BY <1>2, <1>4 DEF EntriesAreKept

(* No amount changes its value and no map its entries on the way to the    *)
(* contract and back, for words of any even width, literals of any base,   *)
(* length, sign and scale, and any maps, entries whose keys decode to the  *)
(* same text excepted (encode.go:247-256, 362-379, decode.go:156-158,      *)
(* 190-195, 234-246).                                                      *)
THEOREM CommandManglesNothing == Spec => []NothingIsMangled
<1>1. CodecIInv => NothingIsMangled
  BY AmountsFollow, EntriesFollow DEF NothingIsMangled
<1> QED  BY <1>1, InitCodec, NextCodec, PTL DEF Spec
=============================================================================
