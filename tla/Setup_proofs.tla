------------------------------ MODULE Setup_proofs ------------------------------
(***************************************************************************)
(* Proofs about Setup, for any directory, any answers and any number of    *)
(* sessions of the wizard: what a process that dies leaves behind, what a  *)
(* server that loads the directory meanwhile gets, that no client of the   *)
(* draft refers to a menu entry that is not there, that drafts and files   *)
(* have their types, and that what was saved comes back.                   *)
(***************************************************************************)
EXTENDS Setup, SequenceTheorems, FiniteSetTheorems, WellFoundedInduction, TLAPS

\* Before the wizard writes, nothing of the directory has changed.
Asking == pc \notin {"off", "write"}
-----------------------------------------------------------------------------
(* Steps.                                                                  *)

\* A question after a question.
Asks == /\ Asking /\ Asking' /\ pc' # "truncate"
        /\ pc' \in Prompts \cup {"save"} /\ (pc' = "summary" => init)
        /\ answers' \in {answers, answers + 1}
        /\ UNCHANGED <<disk, init, history>>

\* What Run and RunEdit go on with.
LEMMA AfterAsks ==
  ASSUME NEW q \in {"server", "bootloader", "services", "netboot", "menus", "default", "clients"}
  PROVE  /\ After(q) \in Prompts
         /\ After(q) = "summary" => init
BY DEF After, Prompts

LEMMA AnswerAsks ==
  ASSUME NEW q \in {"server", "bootloader", "services", "netboot", "menus", "default", "clients"},
         NEW next \in {q, After(q)}, NEW s, Answer(q, next, s)
  PROVE  Asks
<1>1. next \in Prompts /\ (next = "summary" => init)
  BY AfterAsks DEF Prompts
<1> QED
  BY <1>1 DEF Answer, Asks, Asking, Prompts

Questions ==
  \/ stepServer \/ stepBootloader \/ stepServices \/ stepNetboot \/ MenuAdd \/ MenuEdit
  \/ MenuRemove \/ stepDefaultClient \/ ClientAdd \/ ClientEdit \/ ClientRemove

LEMMA QuestionAsks == ASSUME Questions PROVE Asks
<1>1. ASSUME stepServer PROVE Asks
  BY <1>1, AnswerAsks DEF stepServer
<1>2. ASSUME stepBootloader PROVE Asks
  BY <1>2, AnswerAsks DEF stepBootloader
<1>3. ASSUME stepServices PROVE Asks
  BY <1>3, AnswerAsks DEF stepServices
<1>4. ASSUME stepNetboot PROVE Asks
  BY <1>4, AnswerAsks DEF stepNetboot
<1>5. ASSUME MenuAdd \/ MenuEdit PROVE Asks
  BY <1>5, AnswerAsks DEF MenuAdd, MenuEdit
<1>6. ASSUME MenuRemove PROVE Asks
  BY <1>6, AnswerAsks DEF MenuRemove
<1>7. ASSUME stepDefaultClient PROVE Asks
  BY <1>7, AnswerAsks DEF stepDefaultClient
<1>8. ASSUME ClientAdd \/ ClientEdit PROVE Asks
  BY <1>8, AnswerAsks DEF ClientAdd, ClientEdit
<1>9. ASSUME ClientRemove PROVE Asks
  BY <1>9, AnswerAsks DEF ClientRemove
<1> QED
  BY <1>1, <1>2, <1>3, <1>4, <1>5, <1>6, <1>7, <1>8, <1>9 DEF Questions

-----------------------------------------------------------------------------
(* Induction, for the loops that are recursive functions.                  *)

\* The order of the naturals, as a set of pairs, has no infinite descent.
Less == {pair \in Nat \X Nat : pair[1] < pair[2]}
LEMMA LessWF == IsWellFoundedOn(Less, Nat)
<1>1. OpToRel(<, Nat) = Less
  BY DEF OpToRel, Less
<1> QED
  BY <1>1, NatLessThanWellFounded, Zenon

\* Induction over a set: the predicate of an induction is the set of the
\* naturals that have it, and a least natural outside cannot exist.
LEMMA Induction ==
  ASSUME NEW T, 0 \in T, \A n \in Nat : n \in T => n + 1 \in T
  PROVE  Nat \subseteq T
<1> DEFINE rest == Nat \ T
<1>1. SUFFICES ASSUME rest # {} PROVE FALSE
  OBVIOUS
<1>2. PICK x \in rest : \A y \in rest : <<y, x>> \notin Less
  <2>1. rest \subseteq Nat
    OBVIOUS
  <2> HIDE DEF rest
  <2> QED
    BY <1>1, <2>1, LessWF, WFMin
<1>3. x \in Nat /\ x # 0
  BY <1>2
<1>4. x - 1 \in Nat /\ <<x - 1, x>> \in Less
  BY <1>3 DEF Less
<1> QED
  BY <1>2, <1>3, <1>4

\* g is a run of a loop of n rounds that starts with c; step[i] is round i.
LoopRun(g, n, S, c, step) ==
  /\ g \in [0..n -> S]
  /\ g[0] = c
  /\ \A i \in 1..n : g[i] = step[i][g[i-1]]

\* Every loop has a run.
LEMMA LoopRuns ==
  ASSUME NEW n \in Nat, NEW S, NEW c \in S, NEW step \in [1..n -> [S -> S]]
  PROVE  \E g : LoopRun(g, n, S, c, step)
<1> DEFINE T == {m \in Nat : m <= n => \E g : LoopRun(g, m, S, c, step)}
<1>1. 0 \in T
  <2>1. LoopRun([i \in 0..0 |-> c], 0, S, c, step)
    BY DEF LoopRun
  <2> QED
    BY <2>1
<1>2. ASSUME NEW m \in Nat, m \in T PROVE m + 1 \in T
  <2> SUFFICES ASSUME m + 1 <= n PROVE \E h : LoopRun(h, m + 1, S, c, step)
    OBVIOUS
  <2>1. PICK g : LoopRun(g, m, S, c, step)
    BY <1>2
  <2> DEFINE h == [i \in 0..m+1 |-> IF i <= m THEN g[i] ELSE step[m + 1][g[m]]]
  <2>2. g[m] \in S /\ step[m + 1] \in [S -> S]
    BY <2>1 DEF LoopRun
  <2>3. h \in [0..m+1 -> S] /\ h[0] = c
    BY <2>1, <2>2 DEF LoopRun
  <2>4. ASSUME NEW i \in 1..m+1 PROVE h[i] = step[i][h[i-1]]
    <3>1. h[i-1] = g[i-1]
      OBVIOUS
    <3>2. CASE i <= m
      BY <2>1, <3>1, <3>2 DEF LoopRun
    <3>3. CASE i = m + 1
      BY <3>1, <3>3
    <3> QED
      BY <3>2, <3>3
  <2>5. LoopRun(h, m + 1, S, c, step)
    BY <2>3, <2>4 DEF LoopRun
  <2> QED
    BY <2>5
<1>3. n \in T
  <2> HIDE DEF T
  <2> QED
    BY <1>1, <1>2, Induction
<1> QED
  BY <1>3


-----------------------------------------------------------------------------
(* Slices.                                                                 *)

Slice(s) == s \in Seq(Range(s))

LEMMA SliceOf == ASSUME NEW X, NEW s \in Seq(X) PROVE Slice(s) /\ Range(s) \subseteq X
<1>1. DOMAIN s = 1..Len(s) /\ Len(s) \in Nat /\ \A i \in 1..Len(s) : s[i] \in X
  OBVIOUS
<1>2. Range(s) \subseteq X
  BY <1>1 DEF Range
<1>3. \A i \in 1..Len(s) : s[i] \in Range(s)
  BY <1>1 DEF Range
<1>4. s = [i \in 1..Len(s) |-> s[i]]
  BY <1>1
<1>5. s \in Seq(Range(s))
  <2> DEFINE R == Range(s)
  <2>1. \A i \in 1..Len(s) : s[i] \in R
    BY <1>3
  <2> HIDE DEF R
  <2>2. [i \in 1..Len(s) |-> s[i]] \in Seq(R)
    BY <1>1, <2>1
  <2> QED
    BY <1>4, <2>2 DEF R
<1> QED
  BY <1>2, <1>5 DEF Slice

LEMMA SliceIn ==
  ASSUME NEW X, NEW s, Slice(s), Range(s) \subseteq X
  PROVE  s \in Seq(X)
BY SeqMonotonic DEF Slice

LEMMA SlicePlaces ==
  ASSUME NEW s, Slice(s)
  PROVE  /\ DOMAIN s = 1..Len(s) /\ Len(s) \in Nat
         /\ \A i \in 1..Len(s) : s[i] \in Range(s)
         /\ \A x \in Range(s) : \E i \in 1..Len(s) : s[i] = x
<1>1. s \in Seq(Range(s))
  BY DEF Slice
<1>2. DOMAIN s = 1..Len(s) /\ Len(s) \in Nat
  BY <1>1, LenProperties
<1> QED
  BY <1>2 DEF Range

LEMMA SliceEmpty == Slice(<<>>) /\ Range(<<>>) = {}
<1>1. \A X : <<>> \in Seq(X)
  OBVIOUS
<1>2. DOMAIN <<>> = {}
  OBVIOUS
<1> QED
  BY <1>1, <1>2 DEF Slice, Range

LEMMA SliceOne == ASSUME NEW x PROVE Slice(<<x>>) /\ Range(<<x>>) = {x}
<1>1. <<x>> \in Seq({x}) /\ DOMAIN <<x>> = 1..1 /\ <<x>>[1] = x
  OBVIOUS
<1>2. Range(<<x>>) = {x}
  BY <1>1 DEF Range
<1> QED
  BY <1>1, <1>2 DEF Slice

LEMMA SliceJoin ==
  ASSUME NEW a, NEW b, Slice(a), Slice(b)
  PROVE  Slice(a \o b) /\ Range(a \o b) = Range(a) \cup Range(b)
<1> DEFINE X == Range(a) \cup Range(b)
<1>1. a \in Seq(X) /\ b \in Seq(X)
  BY SliceIn
<1>2. a \o b \in Seq(X)
  BY <1>1, ConcatProperties
<1>3. Slice(a \o b) /\ Range(a \o b) \subseteq X
  BY <1>2, SliceOf
<1>4. ASSUME NEW x \in X PROVE x \in Range(a \o b)
  <2>1. /\ Len(a) \in Nat /\ Len(b) \in Nat /\ Len(a \o b) = Len(a) + Len(b)
        /\ \A i \in 1..Len(a)+Len(b) : (a \o b)[i] = IF i <= Len(a) THEN a[i] ELSE b[i - Len(a)]
    BY <1>1, ConcatProperties, LenProperties
  <2>2. \A i \in 1..Len(a)+Len(b) : (a \o b)[i] \in Range(a \o b)
    BY <1>3, <2>1, SlicePlaces
  <2>3. CASE x \in Range(a)
    <3>1. PICK i \in 1..Len(a) : a[i] = x
      BY <2>3, SlicePlaces
    <3>2. i \in 1..Len(a)+Len(b) /\ i <= Len(a)
      BY <2>1
    <3>3. (a \o b)[i] = a[i]
      BY <2>1, <3>2
    <3> QED
      BY <2>2, <3>1, <3>2, <3>3
  <2>4. CASE x \in Range(b)
    <3>1. PICK i \in 1..Len(b) : b[i] = x
      BY <2>4, SlicePlaces
    <3>2. Len(a) + i \in 1..Len(a)+Len(b) /\ ~(Len(a) + i <= Len(a)) /\ (Len(a) + i) - Len(a) = i
      BY <2>1
    <3>3. (a \o b)[Len(a) + i] = b[i]
      BY <2>1, <3>2
    <3> QED
      BY <2>2, <3>1, <3>2, <3>3
  <2> QED
    BY <1>4, <2>3, <2>4
<1> QED
  BY <1>3, <1>4

LEMMA SliceAppend ==
  ASSUME NEW s, NEW x, Slice(s)
  PROVE  Slice(Append(s, x)) /\ Range(Append(s, x)) = Range(s) \cup {x}
<1>1. s \in Seq(Range(s) \cup {x})
  BY SliceIn
<1>2. Append(s, x) = s \o <<x>>
  <2> DEFINE X == Range(s) \cup {x}
  <2>1. x \in X /\ s \in Seq(X)
    BY <1>1
  <2> HIDE DEF X
  <2> QED
    BY <2>1, AppendIsConcat
<1> QED
  BY <1>2, SliceOne, SliceJoin

\* A loop over a slice that changes every element.
LEMMA SliceMap ==
  ASSUME NEW s, Slice(s), NEW g, g = [i \in DOMAIN s |-> g[i]]
  PROVE  Slice(g) /\ \A x \in Range(g) : \E i \in DOMAIN s : x = g[i]
<1>1. DOMAIN s = 1..Len(s) /\ Len(s) \in Nat
  BY SlicePlaces
<1>2. DOMAIN g = DOMAIN s
  OBVIOUS
<1>3. \A i \in 1..Len(s) : g[i] \in Range(g)
  BY <1>1, <1>2 DEF Range
<1>4. g \in Seq(Range(g))
  <2> DEFINE R == Range(g)
             n == Len(s)
  <2>1. n \in Nat /\ (\A i \in 1..n : g[i] \in R) /\ g = [i \in 1..n |-> g[i]]
    BY <1>1, <1>3
  <2> HIDE DEF R, n
  <2>2. [i \in 1..n |-> g[i]] \in Seq(R)
    BY <2>1
  <2>3. g \in Seq(R)
    BY <2>1, <2>2
  <2> QED
    BY <2>3 DEF R
<1> QED
  BY <1>2, <1>4 DEF Slice, Range

\* append(s[:i], s[i+1:]...)
LEMMA SliceRemove ==
  ASSUME NEW s, Slice(s), NEW i \in DOMAIN s
  PROVE  /\ Slice(RemoveAt(s, i)) /\ Range(RemoveAt(s, i)) \subseteq Range(s)
         /\ \A j \in DOMAIN s : j # i => s[j] \in Range(RemoveAt(s, i))
<1> DEFINE a == SubSeq(s, 1, i - 1)
           b == SubSeq(s, i + 1, Len(s))
           R == Range(s)
<1>1. DOMAIN s = 1..Len(s) /\ Len(s) \in Nat /\ i \in 1..Len(s) /\ s \in Seq(R)
  BY SlicePlaces DEF Slice
<1> HIDE DEF R
<1>2. RemoveAt(s, i) = a \o b
  BY DEF RemoveAt
<1>3. a \in Seq(R) /\ Len(a) = i - 1 /\ \A j \in 1..i-1 : a[j] = s[j]
  BY <1>1
<1>4. b \in Seq(R) /\ Len(b) = Len(s) - i /\ \A j \in 1..Len(s)-i : b[j] = s[i + j]
  BY <1>1
<1> HIDE DEF a, b
<1>5. Slice(a) /\ Slice(b) /\ Range(a) \subseteq R /\ Range(b) \subseteq R
  BY <1>3, <1>4, SliceOf
<1>6. Slice(a \o b) /\ Range(a \o b) = Range(a) \cup Range(b)
  BY <1>5, SliceJoin
<1>7. ASSUME NEW j \in DOMAIN s, j # i PROVE s[j] \in Range(a) \cup Range(b)
  <2>1. CASE j < i
    <3>1. j \in 1..i-1
      BY <1>1, <2>1
    <3>2. a[j] \in Range(a)
      BY <1>3, <1>5, <3>1, SlicePlaces
    <3> QED
      BY <1>3, <3>1, <3>2
  <2>2. CASE j > i
    <3>1. j - i \in 1..Len(s)-i /\ i + (j - i) = j
      BY <1>1, <2>2
    <3>2. b[j - i] \in Range(b)
      BY <1>4, <1>5, <3>1, SlicePlaces
    <3>3. b[j - i] = s[i + (j - i)]
      BY <1>4, <3>1
    <3> QED
      BY <3>1, <3>2, <3>3
  <2> QED
    BY <1>1, <1>7, <2>1, <2>2
<1> QED
  BY <1>2, <1>5, <1>6, <1>7 DEF R

\* h holds what Keep has after each round.
Keeps(h, s, S) ==
  /\ h[0] = <<>> /\ Keep(s, S) = h[Len(s)]
  /\ \A i \in 1..Len(s) : h[i] = IF s[i] \in S THEN Append(h[i-1], s[i]) ELSE h[i-1]

LEMMA KeepLoop == ASSUME NEW s, NEW S, Slice(s) PROVE \E h : Keeps(h, s, S)
<1> DEFINE n == Len(s)
           Q == Seq(Range(s))
           step == [i \in 1..n |-> [q \in Q |-> IF s[i] \in S THEN Append(q, s[i]) ELSE q]]
<1>1. n \in Nat /\ DOMAIN s = 1..n /\ \A i \in 1..n : s[i] \in Range(s)
  BY SlicePlaces
<1>2. <<>> \in Q
  OBVIOUS
<1>3. step \in [1..n -> [Q -> Q]]
  <2>1. \A i \in 1..n : \A q \in Q : Append(q, s[i]) \in Q
    BY <1>1, AppendProperties
  <2> HIDE DEF Q
  <2> QED
    BY <2>1
<1>4. PICK g : LoopRun(g, n, Q, <<>>, step)
  <2> HIDE DEF n, step, Q
  <2> QED
    BY <1>1, <1>2, <1>3, LoopRuns
<1> HIDE DEF n
<1> DEFINE Round(h, i) == IF i = 0 THEN <<>>
                          ELSE IF s[i] \in S THEN Append(h[i-1], s[i]) ELSE h[i-1]
           Eq(h) == h = [i \in 0..n |-> Round(h, i)]
<1>5. Eq(g)
  <2>1. ASSUME NEW i \in 0..n PROVE g[i] = Round(g, i)
    <3>1. CASE i = 0
      BY <1>4, <3>1 DEF LoopRun
    <3>2. CASE i # 0
      <4>1. i \in 1..n /\ i - 1 \in 0..n
        BY <1>1, <3>2
      <4>2. g[i - 1] \in Q /\ g[i] = step[i][g[i - 1]]
        BY <1>4, <4>1 DEF LoopRun
      <4> HIDE DEF Q
      <4> QED
        BY <3>2, <4>1, <4>2
    <3> QED
      BY <3>1, <3>2
  <2>2. g = [i \in 0..n |-> g[i]]
    BY <1>4 DEF LoopRun
  <2> HIDE DEF Round
  <2> QED
    BY <2>1, <2>2
<1>6. PICK h : Eq(h) /\ Keep(s, S) = h[n]
  <2>1. Eq(CHOOSE h : Eq(h))
    BY <1>5
  <2>2. Keep(s, S) = (CHOOSE h : Eq(h))[n]
    BY DEF Keep, n
  <2> QED
    BY <2>1, <2>2
<1>7. /\ h[0] = <<>>
      /\ \A i \in 1..n : h[i] = IF s[i] \in S THEN Append(h[i-1], s[i]) ELSE h[i-1]
  <2>1. h = [i \in 0..n |-> Round(h, i)]
    BY <1>6
  <2>2. \A i \in 0..n : h[i] = Round(h, i)
    <3> HIDE DEF Eq, Round
    <3> QED
      BY <2>1
  <2>3. 0 \in 0..n /\ \A i \in 1..n : i \in 0..n /\ i # 0
    BY <1>1
  <2> QED
    BY <2>2, <2>3
<1> HIDE DEF Eq, Round
<1> QED
  BY <1>6, <1>7 DEF n, Keeps

LEMMA SliceKeep ==
  ASSUME NEW s, NEW S, Slice(s)
  PROVE  Slice(Keep(s, S)) /\ Range(Keep(s, S)) = Range(s) \cap S
<1> DEFINE n == Len(s)
<1>1. n \in Nat /\ DOMAIN s = 1..n /\ \A i \in 1..n : s[i] \in Range(s)
  BY SlicePlaces
<1>5. PICK h : Keeps(h, s, S)
  BY KeepLoop
<1>6. Keep(s, S) = h[n]
  BY <1>5 DEF Keeps
<1>7. /\ h[0] = <<>>
      /\ \A i \in 1..n : h[i] = IF s[i] \in S THEN Append(h[i-1], s[i]) ELSE h[i-1]
  BY <1>5 DEF Keeps
<1> HIDE DEF n
<1> DEFINE SoFar(i) == Slice(h[i]) /\ Range(h[i]) = {s[j] : j \in 1..i} \cap S
           T == {i \in Nat : i <= n => SoFar(i)}
<1>8. 0 \in T
  BY <1>7, SliceEmpty
<1>9. ASSUME NEW i \in Nat, i \in T PROVE i + 1 \in T
  <2> SUFFICES ASSUME i + 1 <= n PROVE SoFar(i + 1)
    OBVIOUS
  <2>1. SoFar(i) /\ i + 1 \in 1..n /\ (i + 1) - 1 = i
    BY <1>1, <1>9
  <2>2. h[i + 1] = IF s[i + 1] \in S THEN Append(h[i], s[i + 1]) ELSE h[i]
    BY <1>7, <2>1
  <2>3. {s[j] : j \in 1..i+1} = {s[j] : j \in 1..i} \cup {s[i + 1]}
    <3>1. 1..i+1 = (1..i) \cup {i + 1}
      OBVIOUS
    <3> QED
      BY <3>1
  <2>4. CASE s[i + 1] \in S
    BY <2>1, <2>2, <2>3, <2>4, SliceAppend
  <2>5. CASE s[i + 1] \notin S
    BY <2>1, <2>2, <2>3, <2>5
  <2> QED
    BY <2>4, <2>5
<1>10. n \in T
  <2> HIDE DEF T
  <2> QED
    BY <1>1, <1>8, <1>9, Induction
<1>11. Range(s) = {s[j] : j \in 1..n}
  BY <1>1 DEF Range
<1> QED
  BY <1>1, <1>6, <1>10, <1>11

\* The elements of slices, one slice after the other.
LEMMA SliceFlatten ==
  ASSUME NEW X, NEW parts \in Seq(Seq(X))
  PROVE  FlattenSeq(parts) \in Seq(X)
<1> DEFINE n == Len(parts)
           Q == Seq(X)
           step == [i \in 1..n-1 |-> [q \in Q |-> q \o parts[i + 1]]]
<1>0. n \in Nat /\ \A i \in 1..n : parts[i] \in Q
  BY LenProperties, ElementOfSeq
<1>1. ASSUME NEW a \in Q, NEW b \in Q PROVE a \o b \in Q
  BY ConcatProperties
<1>e. <<>> \in Q
  OBVIOUS
<1> HIDE DEF Q
<1>2. CASE n = 0
  <2>1. parts = <<>>
    BY <1>2, EmptySeq
  <2>2. FlattenSeq(parts) = <<>>
    BY <1>2, <2>1 DEF FlattenSeq
  <2> QED
    BY <1>e, <2>2 DEF Q
<1>3. CASE n > 0
  <2>1. n - 1 \in Nat /\ parts[1] \in Q
    BY <1>0, <1>3
  <2>2. step \in [1..n-1 -> [Q -> Q]]
    BY <1>0, <1>1
  <2>3. PICK g : LoopRun(g, n - 1, Q, parts[1], step)
    <3> HIDE DEF n, step
    <3> QED
      BY <2>1, <2>2, LoopRuns
  <2> DEFINE f == [i \in 1..n |-> g[i - 1]]
  <2> HIDE DEF n
  <2>4. \A i \in 1..n : f[i] = IF i = 1 THEN parts[i] ELSE f[i-1] \o parts[i]
    <3> SUFFICES ASSUME NEW i \in 1..n
                 PROVE  f[i] = IF i = 1 THEN parts[i] ELSE f[i-1] \o parts[i]
      OBVIOUS
    <3>1. CASE i = 1
      BY <2>3, <3>1 DEF LoopRun
    <3>2. CASE i # 1
      <4>1. i - 1 \in 1..n-1 /\ (i - 1) - 1 \in 0..n-1 /\ (i - 1) + 1 = i /\ i - 1 \in 1..n
        BY <1>0, <3>2
      <4>2. g[(i - 1) - 1] \in Q
        BY <2>3, <4>1 DEF LoopRun
      <4>3. g[i - 1] = step[i - 1][g[(i - 1) - 1]]
        BY <2>3, <4>1 DEF LoopRun
      <4>4. g[i - 1] = g[(i - 1) - 1] \o parts[i]
        BY <4>1, <4>2, <4>3
      <4>5. f[i] = g[i - 1] /\ f[i - 1] = g[(i - 1) - 1]
        BY <4>1
      <4> QED
        BY <3>2, <4>4, <4>5
    <3> QED
      BY <3>1, <3>2
  <2>5. f = [i \in 1..n |-> IF i = 1 THEN parts[i] ELSE f[i-1] \o parts[i]]
    <3>1. f = [i \in 1..n |-> f[i]]
      OBVIOUS
    <3> HIDE DEF f
    <3> QED
      BY <2>4, <3>1
  <2> DEFINE Eq(h) == h = [i \in 1..n |-> IF i = 1 THEN parts[i] ELSE h[i-1] \o parts[i]]
  <2>6. PICK h : Eq(h) /\ FlattenSeq(parts) = h[n]
    <3>1. Eq(CHOOSE h : Eq(h))
      BY <2>5
    <3>2. FlattenSeq(parts) = (CHOOSE h : Eq(h))[n]
      BY <1>3 DEF FlattenSeq, n
    <3> QED
      BY <3>1, <3>2
  <2>7. /\ h[1] = parts[1]
        /\ \A i \in 1..n : i # 1 => h[i] = h[i-1] \o parts[i]
    <3>1. h = [i \in 1..n |-> IF i = 1 THEN parts[i] ELSE h[i-1] \o parts[i]]
      BY <2>6
    <3>2. 1 \in 1..n
      BY <1>0, <1>3
    <3> HIDE DEF Eq
    <3> QED
      BY <3>1, <3>2
  <2> HIDE DEF Eq
  <2> DEFINE T == {i \in Nat : i + 1 <= n => h[i + 1] \in Q}
  <2>8. 0 \in T
    BY <2>1, <2>7
  <2>9. ASSUME NEW i \in Nat, i \in T PROVE i + 1 \in T
    <3> SUFFICES ASSUME (i + 1) + 1 <= n PROVE h[(i + 1) + 1] \in Q
      OBVIOUS
    <3>1. (i + 1) + 1 \in 1..n /\ (i + 1) + 1 # 1 /\ ((i + 1) + 1) - 1 = i + 1 /\ i + 1 <= n
      BY <1>0
    <3>2. h[i + 1] \in Q
      BY <2>9, <3>1
    <3>3. h[(i + 1) + 1] = h[i + 1] \o parts[(i + 1) + 1]
      BY <2>7, <3>1
    <3> QED
      BY <1>0, <1>1, <3>1, <3>2, <3>3
  <2>10. Nat \subseteq T
    <3> HIDE DEF T
    <3> QED
      BY <2>8, <2>9, Induction
  <2>11. n - 1 \in T
    <3> HIDE DEF T
    <3> QED
      BY <2>1, <2>10
  <2>12. h[n] \in Q
    <3>1. (n - 1) + 1 = n /\ n <= n
      BY <1>0
    <3> QED
      BY <2>11, <3>1
  <2> QED
    BY <2>6, <2>12 DEF Q
<1> QED
  BY <1>0, <1>2, <1>3

-----------------------------------------------------------------------------
(* The draft.                                                              *)

\* Menus have names; clients have entries, and those are names of menus.
NamesOf(menus) == {m.name : m \in Range(menus)}
MenusOK(menus) == Slice(menus) /\ \A m \in Range(menus) : "name" \in DOMAIN m
ClientOK(c, names) ==
  "entries" \in DOMAIN c /\ Slice(c.entries) /\ Range(c.entries) \subseteq names
ClientsOK(clients, names) == Slice(clients) /\ \A c \in Range(clients) : ClientOK(c, names)
DraftOK(s) == /\ {"menus", "clients"} \subseteq DOMAIN s
              /\ MenusOK(s.menus) /\ ClientsOK(s.clients, NamesOf(s.menus))

LEMMA MenuNamesOf ==
  ASSUME DraftOK(st)
  PROVE  Slice(MenuNames(st)) /\ Range(MenuNames(st)) = NamesOf(st.menus)
<1> DEFINE g == Field(st.menus, "name")
           menus == st.menus
<1>1. Slice(menus) /\ DOMAIN menus = 1..Len(menus) /\ MenuNames(st) = g
  BY SlicePlaces DEF DraftOK, MenusOK, MenuNames
<1>2. g = [i \in DOMAIN menus |-> menus[i].name]
  BY DEF Field
<1>3. g = [i \in DOMAIN menus |-> g[i]] /\ \A i \in DOMAIN menus : g[i] = menus[i].name
  BY <1>2
<1> HIDE DEF g
<1>4. Slice(g) /\ \A x \in Range(g) : \E i \in DOMAIN menus : x = g[i]
  <2> HIDE DEF menus
  <2>1. g = [i \in DOMAIN menus |-> g[i]]
    BY <1>3
  <2> QED
    BY <1>1, <2>1, SliceMap
<1>5. Range(g) \subseteq NamesOf(menus)
  BY <1>3, <1>4 DEF NamesOf, Range
<1>6. NamesOf(menus) \subseteq Range(g)
  <2>1. DOMAIN g = DOMAIN menus
    BY <1>3
  <2> QED
    BY <1>3, <2>1 DEF NamesOf, Range
<1> QED
  BY <1>1, <1>4, <1>5, <1>6

\* Menus that are added take no name away.
LEMMA ClientsKeep ==
  ASSUME NEW clients, NEW names, NEW more, ClientsOK(clients, names), names \subseteq more
  PROVE  ClientsOK(clients, more)
BY DEF ClientsOK, ClientOK

LEMMA MenusAppend ==
  ASSUME NEW menus, MenusOK(menus), NEW m, "name" \in DOMAIN m
  PROVE  /\ MenusOK(Append(menus, m))
         /\ NamesOf(Append(menus, m)) = NamesOf(menus) \cup {m.name}
<1>1. Slice(Append(menus, m)) /\ Range(Append(menus, m)) = Range(menus) \cup {m}
  BY SliceAppend DEF MenusOK
<1> QED
  BY <1>1 DEF MenusOK, NamesOf

\* A loop over the clients that changes each.
LEMMA ClientsMap ==
  ASSUME NEW clients, NEW old, ClientsOK(clients, old), NEW names, NEW g,
         g = [i \in DOMAIN clients |-> g[i]],
         \A i \in DOMAIN clients : ClientOK(clients[i], old) => ClientOK(g[i], names)
  PROVE  ClientsOK(g, names)
<1>1. \A i \in DOMAIN clients : ClientOK(clients[i], old)
  BY DEF ClientsOK, Range
<1>2. Slice(g) /\ \A x \in Range(g) : \E i \in DOMAIN clients : x = g[i]
  BY SliceMap DEF ClientsOK
<1> QED
  BY <1>1, <1>2 DEF ClientsOK

\* One client is changed.
LEMMA ClientsChange ==
  ASSUME NEW clients, NEW names, ClientsOK(clients, names), NEW i \in DOMAIN clients,
         NEW c, ClientOK(c, names)
  PROVE  ClientsOK([clients EXCEPT ![i] = c], names)
<1> DEFINE g == [clients EXCEPT ![i] = c]
<1>1. g = [j \in DOMAIN clients |-> g[j]]
  OBVIOUS
<1>2. \A j \in DOMAIN clients : ClientOK(clients[j], names) => ClientOK(g[j], names)
  OBVIOUS
<1> HIDE DEF g
<1>3. ClientsOK(g, names)
  BY <1>1, <1>2, ClientsMap
<1> QED
  BY <1>3 DEF g

LEMMA EntriesWithout ==
  ASSUME NEW entries, NEW name, Slice(entries)
  PROVE  Slice(Without(entries, name)) /\ Range(Without(entries, name)) = Range(entries) \ {name}
BY SliceKeep DEF Without

LEMMA SelectionOK ==
  ASSUME DraftOK(st), NEW entries \in Selections
  PROVE  Slice(entries) /\ Range(entries) \subseteq NamesOf(st.menus)
<1>1. PICK S \in SUBSET Range(MenuNames(st)) : entries = Keep(MenuNames(st), S)
  BY DEF Selections
<1> QED
  BY <1>1, MenuNamesOf, SliceKeep

\* A client goes in anywhere.
LEMMA InsertedOK ==
  ASSUME NEW clients, NEW names, ClientsOK(clients, names), NEW c, ClientOK(c, names)
  PROVE  ClientsOK(Inserted(clients, c), names)
<1> DEFINE X == Range(clients) \cup {c}
           n == Len(clients)
<1>1. Slice(clients) /\ n \in Nat /\ DOMAIN clients = 1..n /\ \A x \in X : ClientOK(x, names)
  BY SlicePlaces DEF ClientsOK
<1>2. clients \in Seq(X) /\ c \in X
  BY <1>1, SliceIn
<1>3. \A s \in Seq(X) : ClientsOK(s, names)
  BY <1>1, SliceOf DEF ClientsOK
<1> HIDE DEF X
<1>4. Append(clients, c) \in Seq(X)
  BY <1>2
<1>5. ASSUME clients # <<>> PROVE Append(Front(clients), c) \o <<Last(clients)>> \in Seq(X)
  <2>1. Front(clients) \in Seq(X) /\ Last(clients) \in X
    BY <1>2, <1>5 DEF Front, Last
  <2> QED
    BY <1>2, <2>1
<1>6. Inserted(clients, c) \in Seq(X)
  BY <1>4, <1>5 DEF Inserted
<1> QED
  BY <1>3, <1>6

LEMMA ClientsRemove ==
  ASSUME NEW clients, NEW names, ClientsOK(clients, names), NEW i \in DOMAIN clients
  PROVE  ClientsOK(RemoveAt(clients, i), names)
BY SliceRemove DEF ClientsOK

-----------------------------------------------------------------------------
(* The draft and the files.                                                *)

\* The slices of a file that was parsed.
Shape(file) ==
  /\ {"menu", "client"} \subseteq DOMAIN file /\ Slice(file.menu) /\ Slice(file.client)
  /\ \A m \in Range(file.menu) : "name" \in DOMAIN m
  /\ \A c \in Range(file.client) : "entries" \in DOMAIN c /\ Slice(c.entries)

LEMMA RawShape == ASSUME NEW f \in rawFile PROVE Shape(f)
<1> DEFINE menus == MenuEntry(MenuType \cup {"", Garbage})
           clients == Client(DOMAIN ParseMAC, Optional(BOOLEAN))
<1>1. f.menu \in Seq(menus) /\ f.client \in Seq(clients) /\ {"menu", "client"} \subseteq DOMAIN f
  BY DEF rawFile, File
<1>2. \A m \in menus : "name" \in DOMAIN m
  BY DEF MenuEntry
<1>3. \A c \in clients : "entries" \in DOMAIN c /\ c.entries \in Seq(Word)
  BY DEF Client
<1> HIDE DEF menus, clients
<1> QED
  BY <1>1, <1>2, <1>3, SliceOf DEF Shape

LEMMA Parsed ==
  ASSUME NEW f, Shape(f)
  PROVE  /\ Slice(parseFile(f).menu) /\ \A m \in Range(parseFile(f).menu) : "name" \in DOMAIN m
         /\ Slice(parseFile(f).client)
         /\ \A c \in Range(parseFile(f).client) : "entries" \in DOMAIN c /\ Slice(c.entries)
<1> DEFINE menu == [i \in DOMAIN f.menu |-> convertMenu(f.menu[i])]
           client == [i \in DOMAIN f.client |-> convertClient(f.client[i])]
           fm == f.menu
           fc == f.client
<1>1. parseFile(f).menu = menu /\ parseFile(f).client = client
  BY DEF parseFile, Shape
<1>2. /\ Slice(fm) /\ Slice(fc) /\ \A m \in Range(fm) : "name" \in DOMAIN m
      /\ \A c \in Range(fc) : "entries" \in DOMAIN c /\ Slice(c.entries)
  BY DEF Shape
<1>3. /\ menu = [i \in DOMAIN fm |-> menu[i]] /\ \A i \in DOMAIN fm : menu[i] = convertMenu(fm[i])
      /\ client = [i \in DOMAIN fc |-> client[i]]
      /\ \A i \in DOMAIN fc : client[i] = convertClient(fc[i])
  OBVIOUS
<1> HIDE DEF menu, client, fm, fc
<1>4. /\ Slice(menu) /\ \A x \in Range(menu) : \E i \in DOMAIN fm : x = menu[i]
      /\ Slice(client) /\ \A x \in Range(client) : \E i \in DOMAIN fc : x = client[i]
  <2>1. menu = [i \in DOMAIN fm |-> menu[i]] /\ client = [i \in DOMAIN fc |-> client[i]]
    BY <1>3
  <2> QED
    BY <1>2, <2>1, SliceMap
<1>5. \A m \in Range(menu) : "name" \in DOMAIN m
  <2>1. \A i \in DOMAIN fm : "name" \in DOMAIN convertMenu(fm[i])
    BY <1>2 DEF convertMenu, Range
  <2> QED
    BY <1>3, <1>4, <2>1
<1>6. \A c \in Range(client) : "entries" \in DOMAIN c /\ Slice(c.entries)
  <2>1. ASSUME NEW i \in DOMAIN fc
        PROVE  /\ "entries" \in DOMAIN convertClient(fc[i])
               /\ Slice(convertClient(fc[i]).entries)
    <3>1. "entries" \in DOMAIN fc[i] /\ Slice(fc[i].entries)
      BY <1>2 DEF Range
    <3>2. convertClient(fc[i]).entries = fc[i].entries /\ "entries" \in DOMAIN convertClient(fc[i])
      BY <3>1 DEF convertClient
    <3> QED
      BY <3>1, <3>2
  <2> QED
    BY <1>3, <1>4, <2>1
<1> QED
  BY <1>1, <1>4, <1>5, <1>6

\* The slices that the files have in one field, joined.
LEMMA MergedField ==
  ASSUME NEW results, Slice(results), NEW f,
         \A r \in Range(results) : Slice(r[f])
  PROVE  /\ Slice(FlattenSeq(Field(results, f)))
         /\ \A x \in Range(FlattenSeq(Field(results, f))) : \E r \in Range(results) : x \in Range(r[f])
<1> DEFINE parts == Field(results, f)
           X == UNION {Range(r[f]) : r \in Range(results)}
<1>1. \A r \in Range(results) : Range(r[f]) \subseteq X
  OBVIOUS
<1>2. \A r \in Range(results) : r[f] \in Seq(X)
  <2> HIDE DEF X
  <2> QED
    BY <1>1, SliceIn
<1>3. /\ parts = [i \in DOMAIN results |-> parts[i]]
      /\ \A i \in DOMAIN results : parts[i] = results[i][f]
  BY DEF Field
<1> HIDE DEF parts
<1>4. Slice(parts) /\ \A x \in Range(parts) : \E i \in DOMAIN results : x = parts[i]
  <2>1. parts = [i \in DOMAIN results |-> parts[i]]
    BY <1>3
  <2> QED
    BY <2>1, SliceMap
<1>5. Range(parts) \subseteq Seq(X)
  <2> HIDE DEF X
  <2> QED
    BY <1>2, <1>3, <1>4 DEF Range
<1>6. parts \in Seq(Seq(X))
  <2> HIDE DEF X
  <2> QED
    BY <1>4, <1>5, SliceIn
<1>7. FlattenSeq(parts) \in Seq(X)
  <2> HIDE DEF X
  <2> QED
    BY <1>6, SliceFlatten
<1>8. Slice(FlattenSeq(parts)) /\ Range(FlattenSeq(parts)) \subseteq X
  <2> HIDE DEF X
  <2> QED
    BY <1>7, SliceOf
<1> QED
  BY <1>8 DEF parts

DirOK == /\ Slice(FileOrder) /\ Range(FileOrder) \subseteq DOMAIN dir
         /\ \A f \in DOMAIN dir : dir[f] \in {Absent, Garbage} \/ Shape(dir[f])

\* What merge lets through.
LEMMA Merged ==
  ASSUME NEW results, Slice(results), merge(results) # Rejected,
         \A r \in Range(results) :
           /\ Slice(r.menu) /\ \A m \in Range(r.menu) : "name" \in DOMAIN m
           /\ Slice(r.client)
           /\ \A c \in Range(r.client) : "entries" \in DOMAIN c /\ Slice(c.entries)
  PROVE  /\ MenusOK(merge(results).menus)
         /\ ClientsOK(merge(results).clients, NamesOf(merge(results).menus))
         /\ {"menus", "clients", "server"} \subseteq DOMAIN merge(results)
<1> DEFINE menus == FlattenSeq(Field(results, "menu"))
           clients == FlattenSeq(Field(results, "client"))
           names == Field(menus, "name")
<1>1. /\ merge(results).menus = menus /\ merge(results).clients = clients
      /\ {"menus", "clients", "server"} \subseteq DOMAIN merge(results)
      /\ \A i \in DOMAIN clients : Range(clients[i].entries) \subseteq Range(names)
  BY DEF merge
<1> HIDE DEF menus, clients
<1>2. MenusOK(menus)
  <2>1. Slice(menus) /\ \A x \in Range(menus) : \E r \in Range(results) : x \in Range(r["menu"])
    BY MergedField DEF menus
  <2> QED
    BY <2>1 DEF MenusOK
<1>3. Slice(clients) /\ \A x \in Range(clients) : \E r \in Range(results) : x \in Range(r["client"])
  BY MergedField DEF clients
<1>4. Range(names) \subseteq NamesOf(menus)
  BY DEF Field, NamesOf, Range
<1>5. ClientsOK(clients, NamesOf(menus))
  <2> SUFFICES ASSUME NEW c \in Range(clients) PROVE ClientOK(c, NamesOf(menus))
    BY <1>3 DEF ClientsOK
  <2>1. "entries" \in DOMAIN c /\ Slice(c.entries)
    BY <1>3
  <2>2. Range(c.entries) \subseteq NamesOf(menus)
    BY <1>1, <1>4 DEF Range
  <2> QED
    BY <2>1, <2>2 DEF ClientOK
<1> QED
  BY <1>1, <1>2, <1>5

LEMMA Loaded ==
  ASSUME DirOK, LoadDir(dir) # Rejected
  PROVE  /\ MenusOK(LoadDir(dir).menus)
         /\ ClientsOK(LoadDir(dir).clients, NamesOf(LoadDir(dir).menus))
<1> DEFINE found == [i \in DOMAIN FileOrder |-> dir[FileOrder[i]]]
           files == Keep(found, Range(found) \ {Absent})
           results == [i \in DOMAIN files |-> parseFile(files[i])]
           cfg == merge(results)
<1>1. /\ \A i \in DOMAIN files : ~Malformed(files[i])
      /\ cfg # Rejected /\ LoadDir(dir) = [cfg EXCEPT !.server.dir = resolvePaths(@)]
  BY DEF LoadDir
<1>2. Slice(found) /\ \A x \in Range(found) : x \in {Absent, Garbage} \/ Shape(x)
  <2>1. found = [i \in DOMAIN FileOrder |-> found[i]] /\ \A i \in DOMAIN FileOrder : found[i] = dir[FileOrder[i]]
    OBVIOUS
  <2> HIDE DEF found
  <2>2. Slice(found) /\ \A x \in Range(found) : \E i \in DOMAIN FileOrder : x = found[i]
    <3>1. found = [i \in DOMAIN FileOrder |-> found[i]]
      BY <2>1
    <3> QED
      BY <3>1, SliceMap DEF DirOK
  <2> QED
    BY <2>1, <2>2 DEF DirOK, Range
<1> HIDE DEF found
<1>3. Slice(files) /\ Range(files) = Range(found) \ {Absent}
  BY <1>2, SliceKeep
<1> HIDE DEF files
<1>4. \A i \in DOMAIN files : Shape(files[i])
  BY <1>1, <1>2, <1>3 DEF Malformed, Range
<1>5. /\ results = [i \in DOMAIN files |-> results[i]]
      /\ \A i \in DOMAIN files : results[i] = parseFile(files[i])
  OBVIOUS
<1> HIDE DEF results
<1>6. Slice(results) /\ \A x \in Range(results) : \E i \in DOMAIN files : x = results[i]
  <2>1. results = [i \in DOMAIN files |-> results[i]]
    BY <1>5
  <2> QED
    BY <1>3, <2>1, SliceMap
<1>7. \A r \in Range(results) :
        /\ Slice(r.menu) /\ \A m \in Range(r.menu) : "name" \in DOMAIN m
        /\ Slice(r.client)
        /\ \A c \in Range(r.client) : "entries" \in DOMAIN c /\ Slice(c.entries)
  <2> SUFFICES ASSUME NEW i \in DOMAIN files
               PROVE  LET r == parseFile(files[i]) IN
                        /\ Slice(r.menu) /\ \A m \in Range(r.menu) : "name" \in DOMAIN m
                        /\ Slice(r.client)
                        /\ \A c \in Range(r.client) : "entries" \in DOMAIN c /\ Slice(c.entries)
    BY <1>5, <1>6
  <2> QED
    BY <1>4, Parsed
<1>8. /\ MenusOK(cfg.menus) /\ ClientsOK(cfg.clients, NamesOf(cfg.menus))
      /\ {"menus", "clients", "server"} \subseteq DOMAIN cfg
  BY <1>1, <1>6, <1>7, Merged
<1> HIDE DEF cfg
<1>9. LoadDir(dir).menus = cfg.menus /\ LoadDir(dir).clients = cfg.clients
  BY <1>1, <1>8
<1> QED
  BY <1>8, <1>9

\* What ConfigToState makes of a configuration.
LEMMA DraftOfConfig ==
  ASSUME NEW cfg, MenusOK(cfg.menus), ClientsOK(cfg.clients, NamesOf(cfg.menus))
  PROVE  DraftOK(ConfigToState(cfg))
<1> DEFINE s == ConfigToState(cfg)
           menus == cfg.menus
           clients == cfg.clients
           gm == s.menus
           gc == s.clients
<1>1. /\ {"menus", "clients"} \subseteq DOMAIN s
      /\ gm = [i \in DOMAIN menus |-> gm[i]]
      /\ \A i \in DOMAIN menus : "name" \in DOMAIN gm[i] /\ gm[i].name = menus[i].name
      /\ gc = [i \in DOMAIN clients |-> gc[i]]
      /\ \A i \in DOMAIN clients :
           "entries" \in DOMAIN gc[i] /\ gc[i].entries = clients[i].entries
  BY DEF ConfigToState, Menu
<1>2. Slice(menus) /\ ClientsOK(clients, NamesOf(menus))
  BY DEF MenusOK
<1> HIDE DEF s, menus, clients
<1> HIDE DEF gm, gc
<1>3. Slice(gm) /\ \A x \in Range(gm) : \E i \in DOMAIN menus : x = gm[i]
  <2>1. gm = [i \in DOMAIN menus |-> gm[i]]
    BY <1>1
  <2> QED
    BY <1>2, <2>1, SliceMap
<1>4. MenusOK(gm)
  BY <1>1, <1>3 DEF MenusOK
<1>5. NamesOf(menus) \subseteq NamesOf(gm)
  <2>1. DOMAIN gm = DOMAIN menus
    BY <1>1
  <2>2. \A i \in DOMAIN menus : gm[i] \in Range(gm) /\ gm[i].name = menus[i].name
    BY <1>1, <2>1 DEF Range
  <2>3. \A m \in Range(menus) : \E x \in Range(gm) : x.name = m.name
    BY <2>2 DEF Range
  <2> QED
    BY <2>3 DEF NamesOf
<1>6. ClientsOK(gc, NamesOf(menus))
  <2>1. gc = [i \in DOMAIN clients |-> gc[i]]
    BY <1>1
  <2>2. \A i \in DOMAIN clients :
          ClientOK(clients[i], NamesOf(menus)) => ClientOK(gc[i], NamesOf(menus))
    BY <1>1 DEF ClientOK
  <2> QED
    BY <1>2, <2>1, <2>2, ClientsMap
<1>7. ClientsOK(gc, NamesOf(gm))
  BY <1>5, <1>6, ClientsKeep
<1>8. DraftOK(s)
  BY <1>1, <1>4, <1>7 DEF DraftOK, gm, gc
<1> QED
  BY <1>8 DEF s

\* What WriteConfig puts in the file.
LEMMA RawOfDraft ==
  ASSUME NEW s, DraftOK(s)
  PROVE  Shape(configToRaw(StateToConfig(s)))
<1> DEFINE cfg == StateToConfig(s)
           raw == configToRaw(cfg)
           menus == s.menus
           clients == s.clients
           cm == cfg.menus
           cc == cfg.clients
           rm == raw.menu
           rc == raw.client
<1>1. Slice(menus) /\ Slice(clients) /\ \A c \in Range(clients) : Slice(c.entries)
  BY DEF DraftOK, MenusOK, ClientsOK, ClientOK
<1>2. /\ cm = [i \in DOMAIN menus |-> cm[i]] /\ \A i \in DOMAIN menus : "name" \in DOMAIN cm[i]
      /\ cc = [i \in DOMAIN clients |-> cc[i]]
      /\ \A i \in DOMAIN clients :
           "entries" \in DOMAIN cc[i] /\ cc[i].entries = clients[i].entries
  BY DEF StateToConfig, Entry
<1> HIDE DEF cfg
<1>3. /\ rm = [i \in DOMAIN cm |-> rawMenu(cm[i])]
      /\ rc = [i \in DOMAIN cc |-> rawClient(cc[i])]
      /\ {"menu", "client"} \subseteq DOMAIN raw
  BY DEF configToRaw
<1> HIDE DEF raw, menus, clients
<1> HIDE DEF cm, cc, rm, rc
<1>4. DOMAIN cm = DOMAIN menus /\ DOMAIN cc = DOMAIN clients
  BY <1>2
<1>5. /\ rm = [i \in DOMAIN menus |-> rm[i]] /\ \A i \in DOMAIN menus : rm[i] = rawMenu(cm[i])
      /\ rc = [i \in DOMAIN clients |-> rc[i]] /\ \A i \in DOMAIN clients : rc[i] = rawClient(cc[i])
  BY <1>3, <1>4
<1>6. /\ Slice(rm) /\ \A x \in Range(rm) : \E i \in DOMAIN menus : x = rm[i]
      /\ Slice(rc) /\ \A x \in Range(rc) : \E i \in DOMAIN clients : x = rc[i]
  <2>1. rm = [i \in DOMAIN menus |-> rm[i]] /\ rc = [i \in DOMAIN clients |-> rc[i]]
    BY <1>5
  <2> QED
    BY <1>1, <2>1, SliceMap
<1>7. \A m \in Range(rm) : "name" \in DOMAIN m
  <2>1. \A i \in DOMAIN menus : "name" \in DOMAIN rawMenu(cm[i])
    BY <1>2 DEF rawMenu
  <2> QED
    BY <1>5, <1>6, <2>1
<1>8. \A c \in Range(rc) : "entries" \in DOMAIN c /\ Slice(c.entries)
  <2>1. ASSUME NEW i \in DOMAIN clients
        PROVE  "entries" \in DOMAIN rawClient(cc[i]) /\ Slice(rawClient(cc[i]).entries)
    <3>1. "entries" \in DOMAIN cc[i] /\ cc[i].entries = clients[i].entries
      BY <1>2
    <3>2. Slice(clients[i].entries)
      BY <1>1 DEF Range
    <3>3. "entries" \in DOMAIN rawClient(cc[i]) /\ rawClient(cc[i]).entries = cc[i].entries
      BY <3>1 DEF rawClient
    <3> QED
      BY <3>1, <3>2, <3>3
  <2> QED
    BY <1>5, <1>6, <2>1
<1>9. Shape(raw)
  BY <1>3, <1>6, <1>7, <1>8 DEF Shape, rm, rc
<1> QED
  BY <1>9 DEF raw, cfg

\* A file without menus and clients, which a failed write can leave.
LEMMA RawBare ==
  ASSUME NEW f, {"menu", "client"} \subseteq DOMAIN f, f.menu = <<>>, f.client = <<>>
  PROVE  Shape(f)
BY SliceEmpty DEF Shape

DraftInv == DirOK /\ DraftOK(st)

LEMMA DefaultDraft == DraftOK(DefaultState)
<1> DEFINE m == DefaultMenu
           c == DefaultClient
<1>1. /\ DefaultState.menus = <<m>> /\ DefaultState.clients = <<c>>
      /\ {"menus", "clients"} \subseteq DOMAIN DefaultState
  BY SMT DEF DefaultState
<1>2. "name" \in DOMAIN m /\ m.name = LocalDisk
  BY DEF DefaultMenu, Menu
<1>3. "entries" \in DOMAIN c /\ c.entries = <<LocalDisk>>
  BY DEF DefaultClient
<1> HIDE DEF m, c
<1>4. Slice(<<m>>) /\ Range(<<m>>) = {m} /\ Slice(<<c>>) /\ Range(<<c>>) = {c}
      /\ Slice(<<LocalDisk>>) /\ Range(<<LocalDisk>>) = {LocalDisk}
  BY SliceOne
<1>5. MenusOK(<<m>>) /\ NamesOf(<<m>>) = {LocalDisk}
  BY <1>2, <1>4 DEF MenusOK, NamesOf
<1>6. ClientsOK(<<c>>, {LocalDisk})
  BY <1>3, <1>4 DEF ClientsOK, ClientOK
<1> QED
  BY <1>1, <1>5, <1>6 DEF DraftOK

LEMMA InitDraft == Init => DraftInv
<1> SUFFICES ASSUME Init PROVE DraftInv
  OBVIOUS
<1>1. dir \in Directories
  BY DEF Init
<1>2. FileOrder \in Seq(DOMAIN dir) /\ \A f \in DOMAIN dir : dir[f] \in Content
  BY <1>1, DirAssumption
<1>3. DirOK
  BY <1>2, SliceOf, RawShape DEF Content, DirOK
<1>4. st = DefaultState
  BY DEF Init
<1> QED
  BY <1>3, <1>4, DefaultDraft DEF DraftInv

-----------------------------------------------------------------------------
(* The draft and the questions.                                            *)

\* Nothing that a client refers to is touched.
LEMMA DraftElsewhere ==
  ASSUME DraftOK(st), NEW s, {"menus", "clients"} \subseteq DOMAIN s,
         s.menus = st.menus, s.clients = st.clients
  PROVE  DraftOK(s)
BY DEF DraftOK

LEMMA ServerDraft ==
  ASSUME DraftOK(st), NEW i, NEW d
  PROVE  DraftOK([st EXCEPT !.iface = i, !.dir = d])
<1> DEFINE s == [st EXCEPT !.iface = i, !.dir = d]
<1>1. {"menus", "clients"} \subseteq DOMAIN s /\ s.menus = st.menus /\ s.clients = st.clients
  BY DEF DraftOK
<1> QED
  BY <1>1, DraftElsewhere

LEMMA ArchsDraft ==
  ASSUME DraftOK(st), NEW a
  PROVE  DraftOK([st EXCEPT !.archs = a])
<1> DEFINE s == [st EXCEPT !.archs = a]
<1>1. {"menus", "clients"} \subseteq DOMAIN s /\ s.menus = st.menus /\ s.clients = st.clients
  BY DEF DraftOK
<1> QED
  BY <1>1, DraftElsewhere

LEMMA ServicesDraft ==
  ASSUME DraftOK(st), NEW on, NEW p
  PROVE  DraftOK(Services(on, p))
<1>1. /\ {"menus", "clients"} \subseteq DOMAIN Services(on, p)
      /\ Services(on, p).menus = st.menus /\ Services(on, p).clients = st.clients
  BY DEF DraftOK, Services
<1> QED
  BY <1>1, DraftElsewhere

\* Other clients, or other menus and clients.
LEMMA ClientsDraft ==
  ASSUME DraftOK(st), NEW clients, ClientsOK(clients, NamesOf(st.menus))
  PROVE  DraftOK([st EXCEPT !.clients = clients])
<1> DEFINE s == [st EXCEPT !.clients = clients]
<1>1. {"menus", "clients"} \subseteq DOMAIN s /\ s.menus = st.menus /\ s.clients = clients
  BY DEF DraftOK
<1> HIDE DEF s
<1>2. DraftOK(s)
  BY <1>1 DEF DraftOK
<1> QED
  BY <1>2 DEF s

LEMMA MenusDraft ==
  ASSUME DraftOK(st), NEW menus, NEW clients, MenusOK(menus), ClientsOK(clients, NamesOf(menus))
  PROVE  DraftOK([st EXCEPT !.menus = menus, !.clients = clients])
<1> DEFINE s == [st EXCEPT !.menus = menus, !.clients = clients]
<1>1. {"menus", "clients"} \subseteq DOMAIN s /\ s.menus = menus /\ s.clients = clients
  BY DEF DraftOK
<1> HIDE DEF s
<1>2. DraftOK(s)
  BY <1>1 DEF DraftOK
<1> QED
  BY <1>2 DEF s

\* The entry of netboot.xyz goes, and comes back unless it is skipped.
LEMMA NetbootDraft ==
  ASSUME DraftOK(st), stepNetboot
  PROVE  DraftOK(st')
<1>1. PICK mode \in {"skip", "remote", "self-hosted"} :
        st' = [st EXCEPT
          !.menus = IF mode = "skip" THEN Keep(st.menus, {m \in Range(st.menus) : m.name # Netboot})
                    ELSE Append(Keep(st.menus, {m \in Range(st.menus) : m.name # Netboot}),
                                NetbootEntry(mode)),
          !.clients = Relinked(IF mode = "skip" THEN <<>> ELSE <<Netboot>>)]
  BY DEF stepNetboot, Answer
<1> DEFINE rest == Keep(st.menus, {m \in Range(st.menus) : m.name # Netboot})
           menus == IF mode = "skip" THEN rest ELSE Append(rest, NetbootEntry(mode))
           added == IF mode = "skip" THEN <<>> ELSE <<Netboot>>
           old == st.clients
           clients == Relinked(added)
           new == IF mode = "skip" THEN {} ELSE {Netboot}
<1>2. st' = [st EXCEPT !.menus = menus, !.clients = clients]
  BY <1>1 DEF DraftOK
<1>3. Slice(added) /\ Range(added) = new
  BY SliceEmpty, SliceOne
<1>4. MenusOK(rest) /\ NamesOf(rest) = NamesOf(st.menus) \ {Netboot}
  <2>1. Slice(rest) /\ Range(rest) = Range(st.menus) \cap {m \in Range(st.menus) : m.name # Netboot}
    BY SliceKeep DEF DraftOK, MenusOK
  <2> HIDE DEF rest
  <2> QED
    BY <2>1 DEF MenusOK, NamesOf, DraftOK
<1> HIDE DEF rest
<1>5. MenusOK(menus) /\ NamesOf(menus) = (NamesOf(st.menus) \ {Netboot}) \cup new
  <2>1. "name" \in DOMAIN NetbootEntry(mode) /\ NetbootEntry(mode).name = Netboot
    BY DEF NetbootEntry, Menu
  <2> QED
    BY <1>4, <2>1, MenusAppend
<1>6. ClientsOK(clients, NamesOf(menus))
  <2>0. clients = [i \in DOMAIN old |-> [old[i] EXCEPT !.entries = Without(@, Netboot) \o added]]
    BY DEF Relinked
  <2> HIDE DEF clients
  <2>1. clients = [i \in DOMAIN old |-> clients[i]]
    BY <2>0
  <2>2. ASSUME NEW i \in DOMAIN old, ClientOK(old[i], NamesOf(st.menus))
        PROVE  ClientOK(clients[i], NamesOf(menus))
    <3> DEFINE entries == Without(old[i].entries, Netboot) \o added
    <3>1. "entries" \in DOMAIN clients[i] /\ clients[i].entries = entries
      BY <2>0, <2>2 DEF ClientOK
    <3>2. /\ Slice(Without(old[i].entries, Netboot))
          /\ Range(Without(old[i].entries, Netboot)) = Range(old[i].entries) \ {Netboot}
      BY <2>2, EntriesWithout DEF ClientOK
    <3> HIDE DEF added, new
    <3>3. Slice(entries) /\ Range(entries) = (Range(old[i].entries) \ {Netboot}) \cup new
      BY <1>3, <3>2, SliceJoin
    <3> HIDE DEF entries, clients, menus
    <3> QED
      BY <1>5, <2>2, <3>1, <3>3 DEF ClientOK
  <2>3. ClientsOK(old, NamesOf(st.menus))
    BY DEF DraftOK
  <2> HIDE DEF clients, old, menus
  <2>4. \A i \in DOMAIN old :
          ClientOK(old[i], NamesOf(st.menus)) => ClientOK(clients[i], NamesOf(menus))
    BY <2>2
  <2> QED
    BY <2>1, <2>3, <2>4, ClientsMap
<1> QED
  BY <1>2, <1>5, <1>6, MenusDraft

\* A menu entry of any kind has a name.
LEMMA NewMenuName == \A m \in NewMenu : "name" \in DOMAIN m
<1>1. \A n, t, k, c, h : "name" \in DOMAIN Menu(n, t, k, c, h)
  BY DEF Menu
<1> QED
  BY <1>1, Zenon DEF NewMenu

LEMMA MenuAddDraft == ASSUME DraftOK(st), MenuAdd PROVE DraftOK(st')
<1>1. PICK m \in NewMenu : st' = [st EXCEPT !.menus = Append(@, m)]
  BY DEF MenuAdd, Answer
<1> DEFINE menus == Append(st.menus, m)
           s == [st EXCEPT !.menus = menus]
<1>2. MenusOK(menus) /\ NamesOf(menus) = NamesOf(st.menus) \cup {m.name}
  BY MenusAppend, NewMenuName DEF DraftOK
<1>3. ClientsOK(st.clients, NamesOf(menus))
  BY <1>2, ClientsKeep DEF DraftOK
<1> HIDE DEF menus
<1>4. {"menus", "clients"} \subseteq DOMAIN s /\ s.menus = menus /\ s.clients = st.clients
  BY DEF DraftOK
<1>5. st' = s
  BY <1>1 DEF DraftOK, menus
<1> QED
  BY <1>2, <1>3, <1>4, <1>5 DEF DraftOK

\* "Cascade name change to client references"
LEMMA MenuEditDraft == ASSUME DraftOK(st), MenuEdit PROVE DraftOK(st')
<1>1. PICK i \in DOMAIN st.menus : \E m \in EditedMenus(st.menus[i]) :
        st' = [st EXCEPT !.menus[i] = m, !.clients = Renamed(st.menus[i].name, m.name)]
  BY DEF MenuEdit, Answer
<1>2. PICK m \in EditedMenus(st.menus[i]) :
        st' = [st EXCEPT !.menus[i] = m, !.clients = Renamed(st.menus[i].name, m.name)]
  BY <1>1
<1> DEFINE before == st.menus
           menus == [before EXCEPT ![i] = m]
           was == before[i].name
           is == m.name
           old == st.clients
           clients == Renamed(was, is)
<1>3. st' = [st EXCEPT !.menus = menus, !.clients = clients]
  BY <1>2 DEF DraftOK
<1>4. /\ MenusOK(before) /\ DOMAIN before = 1..Len(before)
      /\ ClientsOK(old, NamesOf(before)) /\ i \in DOMAIN before
  BY SlicePlaces DEF DraftOK, MenusOK
<1>5. "name" \in DOMAIN m
  <2>1. "name" \in DOMAIN before[i]
    BY <1>4 DEF MenusOK, Range
  <2>2. PICK n \in NewMenu \cup {before[i]}, name \in MenuName \cup {before[i].name} :
          m = Cleared([n EXCEPT !.name = name], before[i].http)
    BY DEF EditedMenus
  <2>3. "name" \in DOMAIN [n EXCEPT !.name = name]
    BY <2>1, NewMenuName
  <2> QED
    BY <2>2, <2>3 DEF Cleared
<1> HIDE DEF before
<1>6. MenusOK(menus)
  <2>1. menus = [j \in DOMAIN before |-> menus[j]]
    OBVIOUS
  <2>2. \A j \in DOMAIN before : "name" \in DOMAIN menus[j]
    BY <1>4, <1>5 DEF MenusOK, Range
  <2> HIDE DEF menus
  <2>3. Slice(menus) /\ \A x \in Range(menus) : \E j \in DOMAIN before : x = menus[j]
    BY <1>4, <2>1, SliceMap DEF MenusOK
  <2> QED
    BY <2>2, <2>3 DEF MenusOK
<1>7. \A n \in NamesOf(before) : n # was => n \in NamesOf(menus)
  <2> SUFFICES ASSUME NEW j \in DOMAIN before, before[j].name # was
               PROVE  before[j].name \in NamesOf(menus)
    BY DEF NamesOf, Range
  <2>1. j # i /\ menus[j] = before[j] /\ j \in DOMAIN menus
    OBVIOUS
  <2> QED
    BY <2>1 DEF NamesOf, Range
<1>8. is \in NamesOf(menus)
  <2>1. menus[i] = m /\ i \in DOMAIN menus
    BY <1>4
  <2> QED
    BY <2>1 DEF NamesOf, Range
<1> HIDE DEF menus, was, is
<1>9. ClientsOK(clients, NamesOf(menus))
  <2> DEFINE new(c) == [c EXCEPT !.entries = [j \in DOMAIN @ |-> IF @[j] = was THEN is ELSE @[j]],
                                 !.default = IF @ = was THEN is ELSE @]
  <2>0. clients = [j \in DOMAIN old |-> new(old[j])]
    BY DEF Renamed
  <2> HIDE DEF clients, old
  <2>1. clients = [j \in DOMAIN old |-> clients[j]]
    BY <2>0
  <2>2. ASSUME NEW k \in DOMAIN old, ClientOK(old[k], NamesOf(before))
        PROVE  ClientOK(clients[k], NamesOf(menus))
    <3> DEFINE e == old[k].entries
               entries == [j \in DOMAIN e |-> IF e[j] = was THEN is ELSE e[j]]
    <3>0. clients[k] = new(old[k])
      BY <2>0
    <3>1. "entries" \in DOMAIN clients[k] /\ clients[k].entries = entries
      BY <2>2, <3>0 DEF ClientOK
    <3> HIDE DEF new
    <3>2. Slice(e) /\ Range(e) \subseteq NamesOf(before)
      BY <2>2 DEF ClientOK
    <3> HIDE DEF e
    <3>3. \A j \in DOMAIN e : entries[j] \in NamesOf(menus)
      BY <1>7, <1>8, <3>2 DEF Range
    <3>4. entries = [j \in DOMAIN e |-> entries[j]]
      OBVIOUS
    <3> HIDE DEF entries
    <3>5. Slice(entries) /\ \A x \in Range(entries) : \E j \in DOMAIN e : x = entries[j]
      BY <3>2, <3>4, SliceMap
    <3> QED
      BY <3>1, <3>3, <3>5 DEF ClientOK
  <2>3. ClientsOK(old, NamesOf(before))
    BY <1>4 DEF old
  <2>4. \A j \in DOMAIN old :
          ClientOK(old[j], NamesOf(before)) => ClientOK(clients[j], NamesOf(menus))
    BY <2>2
  <2> QED
    BY <2>1, <2>3, <2>4, ClientsMap
<1> QED
  BY <1>3, <1>6, <1>9, MenusDraft

LEMMA MenuRemoveDraft == ASSUME DraftOK(st), MenuRemove PROVE DraftOK(st')
<1>1. PICK i \in DOMAIN st.menus :
        st' = [st EXCEPT !.menus = RemoveAt(@, i),
                         !.clients = Unlinked(st.menus[i].name)]
  BY DEF MenuRemove, Answer
<1> DEFINE before == st.menus
           menus == RemoveAt(before, i)
           gone == before[i].name
           old == st.clients
           clients == Unlinked(gone)
<1>2. st' = [st EXCEPT !.menus = menus, !.clients = clients]
  BY <1>1 DEF DraftOK
<1>3. MenusOK(before) /\ ClientsOK(old, NamesOf(before)) /\ i \in DOMAIN before
  BY DEF DraftOK
<1> HIDE DEF before
<1>4. /\ Slice(menus) /\ Range(menus) \subseteq Range(before)
      /\ \A j \in DOMAIN before : j # i => before[j] \in Range(menus)
  BY <1>3, SliceRemove DEF MenusOK
<1> HIDE DEF menus
<1>5. MenusOK(menus)
  BY <1>3, <1>4 DEF MenusOK
<1>6. \A n \in NamesOf(before) : n # gone => n \in NamesOf(menus)
  <2> SUFFICES ASSUME NEW j \in DOMAIN before, before[j].name # gone
               PROVE  before[j].name \in NamesOf(menus)
    BY DEF NamesOf, Range
  <2>1. j # i
    OBVIOUS
  <2> QED
    BY <1>4, <2>1 DEF NamesOf
<1> HIDE DEF gone
<1>7. ClientsOK(clients, NamesOf(menus))
  <2>0. clients = [j \in DOMAIN old |->
                    [old[j] EXCEPT !.entries = Without(@, gone),
                                   !.default = IF @ = gone THEN "" ELSE @]]
    BY DEF Unlinked
  <2> HIDE DEF clients
  <2>1. clients = [j \in DOMAIN old |-> clients[j]]
    BY <2>0
  <2>2. ASSUME NEW k \in DOMAIN old, ClientOK(old[k], NamesOf(before))
        PROVE  ClientOK(clients[k], NamesOf(menus))
    <3>1. "entries" \in DOMAIN clients[k] /\ clients[k].entries = Without(old[k].entries, gone)
      BY <2>0, <2>2 DEF ClientOK
    <3>2. /\ Slice(Without(old[k].entries, gone))
          /\ Range(Without(old[k].entries, gone)) = Range(old[k].entries) \ {gone}
      BY <2>2, EntriesWithout DEF ClientOK
    <3> HIDE DEF clients, old
    <3> QED
      BY <1>6, <2>2, <3>1, <3>2 DEF ClientOK
  <2> HIDE DEF clients, old
  <2>3. \A j \in DOMAIN old :
          ClientOK(old[j], NamesOf(before)) => ClientOK(clients[j], NamesOf(menus))
    BY <2>2
  <2> QED
    BY <1>3, <2>1, <2>3, ClientsMap
<1> QED
  BY <1>2, <1>5, <1>7, MenusDraft

LEMMA ClientStepsDraft ==
  ASSUME DraftOK(st), stepDefaultClient \/ ClientAdd \/ ClientEdit \/ ClientRemove
  PROVE  DraftOK(st')
<1> DEFINE old == st.clients
           names == NamesOf(st.menus)
<1>1. ClientsOK(old, names) /\ "clients" \in DOMAIN st
  BY DEF DraftOK
<1>2. \A entries \in Selections : Slice(entries) /\ Range(entries) \subseteq names
  BY SelectionOK
<1>d. \A clients : ClientsOK(clients, names) => DraftOK([st EXCEPT !.clients = clients])
  BY ClientsDraft
<1> HIDE DEF names
<1>3. CASE stepDefaultClient
  <2>1. PICK entries \in Selections : st' = [st EXCEPT !.clients[Len(st.clients)].entries = entries]
    BY <1>3 DEF stepDefaultClient, Answer
  <2> DEFINE n == Len(old)
             c == [old[n] EXCEPT !.entries = entries]
             clients == [old EXCEPT ![n] = c]
  <2>2. st' = [st EXCEPT !.clients = clients]
    BY <1>1, <2>1
  <2>3. CASE n \in DOMAIN old
    <3>1. ClientOK(old[n], names)
      BY <1>1, <2>3 DEF ClientsOK, Range
    <3>2. ClientOK(c, names)
      BY <1>2, <3>1 DEF ClientOK
    <3> HIDE DEF c, old, n
    <3>3. ClientsOK(clients, names)
      BY <1>1, <2>3, <3>2, ClientsChange
    <3> QED
      BY <1>d, <2>2, <3>3
  <2>4. CASE n \notin DOMAIN old
    <3>1. Slice(old)
      BY <1>1 DEF ClientsOK
    <3>2. old = [j \in DOMAIN old |-> old[j]]
      BY <3>1 DEF Slice
    <3> HIDE DEF c, n, old
    <3>3. clients = old
      BY <2>4, <3>2
    <3> QED
      BY <1>1, <1>d, <2>2, <3>3
  <2> QED
    BY <2>3, <2>4
<1>4. CASE ClientAdd
  <2>1. PICK mac \in MACText, entries \in Selections : \E default \in Defaults(entries) :
          st' = [st EXCEPT !.clients = Inserted(@, [mac |-> mac, entries |-> entries,
                                                    default |-> default])]
    BY <1>4 DEF ClientAdd, Answer
  <2>2. PICK default :
          st' = [st EXCEPT !.clients = Inserted(@, [mac |-> mac, entries |-> entries,
                                                    default |-> default])]
    BY <2>1
  <2> DEFINE c == [mac |-> mac, entries |-> entries, default |-> default]
  <2>3. st' = [st EXCEPT !.clients = Inserted(old, c)]
    BY <1>1, <2>2
  <2>4. ClientOK(c, names)
    BY <1>2 DEF ClientOK
  <2> HIDE DEF c
  <2>5. ClientsOK(Inserted(old, c), names)
    BY <1>1, <2>4, InsertedOK
  <2> QED
    BY <1>d, <2>3, <2>5
<1>5. CASE ClientEdit
  <2>1. PICK i \in DOMAIN st.clients, entries \in Selections : \E default \in Defaults(entries) :
          st' = [st EXCEPT !.clients[i].entries = entries, !.clients[i].default = default]
    BY <1>5 DEF ClientEdit, Answer
  <2>2. PICK default :
          st' = [st EXCEPT !.clients[i].entries = entries, !.clients[i].default = default]
    BY <2>1
  <2> DEFINE c == [old[i] EXCEPT !.entries = entries, !.default = default]
             clients == [old EXCEPT ![i] = c]
  <2>3. st' = [st EXCEPT !.clients = clients]
    BY <1>1, <2>2
  <2>4. ClientOK(old[i], names)
    BY <1>1 DEF ClientsOK, Range
  <2>5. ClientOK(c, names)
    BY <1>2, <2>4 DEF ClientOK
  <2>6. i \in DOMAIN old
    OBVIOUS
  <2> HIDE DEF c, old
  <2>7. ClientsOK(clients, names)
    BY <1>1, <2>5, <2>6, ClientsChange
  <2> QED
    BY <1>d, <2>3, <2>7
<1>6. CASE ClientRemove
  <2>1. PICK i \in DOMAIN st.clients : st' = [st EXCEPT !.clients = RemoveAt(@, i)]
    BY <1>6 DEF ClientRemove, Answer
  <2>2. st' = [st EXCEPT !.clients = RemoveAt(old, i)]
    BY <1>1, <2>1
  <2>3. ClientsOK(RemoveAt(old, i), names)
    BY <1>1, ClientsRemove
  <2> QED
    BY <1>d, <2>2, <2>3
<1> QED
  BY <1>3, <1>4, <1>5, <1>6

LEMMA QuestionDraft == ASSUME DraftOK(st), Questions PROVE DraftOK(st')
<1>1. CASE stepServer
  <2>1. \E i, d : st' = [st EXCEPT !.iface = i, !.dir = d]
    BY <1>1, Zenon DEF stepServer, Answer
  <2>2. \A i, d : DraftOK([st EXCEPT !.iface = i, !.dir = d])
    BY ServerDraft
  <2>3. PICK i, d : st' = [st EXCEPT !.iface = i, !.dir = d]
    BY <2>1, Zenon
  <2>4. DraftOK([st EXCEPT !.iface = i, !.dir = d])
    BY <2>2, Zenon
  <2> QED
    BY <2>3, <2>4, Zenon
<1>2. CASE stepBootloader
  BY <1>2, ArchsDraft DEF stepBootloader, Answer
<1>3. CASE stepServices
  BY <1>3, ServicesDraft DEF stepServices, Answer
<1> QED
  BY <1>1, <1>2, <1>3, NetbootDraft, MenuAddDraft, MenuEditDraft, MenuRemoveDraft,
     ClientStepsDraft DEF Questions

LEMMA DraftStep == ASSUME DraftInv, [Next]_vars PROVE DraftInv'
<1> DEFINE Same == dir' = dir
<1>0. Same => DirOK'
  BY DEF DraftInv, DirOK
<1>w. ASSUME NEW f, Shape(f), dir' = [dir EXCEPT ![Main] = f] PROVE DirOK'
  BY <1>w DEF DraftInv, DirOK
<1>1. CASE runInit \/ Quit
  BY <1>0, <1>1, DefaultDraft DEF runInit, Quit, DraftInv, disk
<1>2. CASE runEdit
  BY <1>0, <1>2, Loaded, DraftOfConfig DEF runEdit, DraftInv, disk
<1>3. CASE ChooseSection \/ Done \/ stepSummary \/ Save \/ BackupTruncate \/ BackupWrite
  BY <1>0, <1>3 DEF ChooseSection, Done, stepSummary, Save, BackupTruncate, BackupWrite,
                    DraftInv, disk
<1>4. CASE Questions
  <2>1. Same
    BY <1>4, QuestionAsks DEF Asks, disk
  <2> QED
    BY <1>0, <1>4, <2>1, QuestionDraft DEF DraftInv
<1>5. CASE WriteTruncate
  <2>1. Shape(EmptyFile)
    BY RawBare DEF EmptyFile
  <2> QED
    BY <1>5, <1>w, <2>1 DEF WriteTruncate, DraftInv
<1>6. CASE WriteConfig
  <2> DEFINE raw == configToRaw(StateToConfig(st))
  <2>1. Shape(raw)
    BY RawOfDraft DEF DraftInv
  <2>2. Shape(EmptyFile)
    BY RawBare DEF EmptyFile
  <2>3. Shape([raw EXCEPT !.menu = <<>>, !.client = <<>>])
    <3>1. {"menu", "client"} \subseteq DOMAIN raw
      BY <2>1 DEF Shape
    <3> HIDE DEF raw
    <3> QED
      BY <3>1, RawBare
  <2>4. \E f : Shape(f) /\ dir' = [dir EXCEPT ![Main] = f]
    BY <1>6, <2>1, <2>2, <2>3 DEF WriteConfig
  <2>5. st' = DefaultState
    BY <1>6 DEF WriteConfig
  <2> QED
    BY <1>w, <2>4, <2>5, DefaultDraft DEF DraftInv
<1>7. CASE UNCHANGED vars
  BY <1>0, <1>7 DEF vars, disk, DraftInv
<1> QED
  BY <1>1, <1>2, <1>3, <1>4, <1>5, <1>6, <1>7 DEF Next, Questions

-----------------------------------------------------------------------------
(* Entries and clients: into the file and back.                            *)

\* A loop over a slice that makes elements of X.
LEMMA MapSeq ==
  ASSUME NEW X, NEW Y, NEW s \in Seq(X), NEW g, g = [i \in DOMAIN s |-> g[i]],
         \A i \in DOMAIN s : s[i] \in X => g[i] \in Y
  PROVE  /\ g \in Seq(Y) /\ DOMAIN g = DOMAIN s /\ DOMAIN s = 1..Len(s) /\ Len(s) \in Nat
         /\ \A i \in DOMAIN s : s[i] \in X
<1>1. DOMAIN s = 1..Len(s) /\ Len(s) \in Nat /\ \A i \in 1..Len(s) : s[i] \in X
  OBVIOUS
<1>2. \A i \in 1..Len(s) : g[i] \in Y
  BY <1>1
<1> DEFINE n == Len(s)
<1>3. n \in Nat /\ (\A i \in 1..n : g[i] \in Y) /\ g = [i \in 1..n |-> g[i]]
  BY <1>1, <1>2
<1> HIDE DEF n
<1>4. [i \in 1..n |-> g[i]] \in Seq(Y)
  BY <1>3
<1>5. g \in Seq(Y)
  BY <1>3, <1>4
<1> QED
  BY <1>1, <1>5

\* Records with the same fields.
LEMMA EntrySame ==
  ASSUME NEW T, NEW x \in MenuEntry(T), NEW y \in MenuEntry(T),
         x.name = y.name, x.type = y.type, x.kernel = y.kernel, x.extra = y.extra,
         x.chain = y.chain, x.http = y.http
  PROVE  x = y
BY DEF MenuEntry

LEMMA ClientSame ==
  ASSUME NEW T, NEW B, NEW x \in Client(T, B), NEW y \in Client(T, B),
         x.mac = y.mac, x.enabled = y.enabled, x.entries = y.entries,
         x.default = y.default, x.vars = y.vars, x.loader = y.loader
  PROVE  x = y
BY DEF Client

\* What WriteConfig keeps of an entry.
LEMMA RawMenuFields ==
  ASSUME NEW x \in MenuEntry(MenuType)
  PROVE  LET raw == rawMenu(x)
         IN  /\ raw \in MenuEntry(MenuType)
             /\ raw.name = x.name /\ raw.type = x.type /\ raw.http = x.http
             /\ raw.kernel = IF x.type \in {"exit", "chain"} THEN "" ELSE x.kernel
             /\ raw.extra = IF x.type \in {"exit", "chain"} THEN "" ELSE x.extra
             /\ raw.chain = IF x.type = "chain" THEN x.chain ELSE ""
<1>1. "" \in Word
  BY AnswerAssumption
<1>2. CASE x.type = "exit"
  <2>1. rawMenu(x) = [x EXCEPT !.kernel = "", !.extra = "", !.chain = ""]
    BY <1>2, SMT DEF rawMenu
  <2> QED
    BY <1>1, <1>2, <2>1 DEF MenuEntry
<1>3. CASE x.type = "chain"
  <2>1. rawMenu(x) = [x EXCEPT !.kernel = "", !.extra = ""]
    BY <1>3, SMT DEF rawMenu
  <2> QED
    BY <1>1, <1>3, <2>1 DEF MenuEntry
<1>4. CASE x.type # "exit" /\ x.type # "chain"
  <2>1. rawMenu(x) = [x EXCEPT !.chain = ""]
    BY <1>4, Zenon DEF rawMenu
  <2> QED
    BY <1>1, <1>4, <2>1 DEF MenuEntry
<1> QED
  BY <1>2, <1>3, <1>4

\* A menu of the draft as a domain.MenuEntry.
LEMMA EntryFields ==
  ASSUME NEW m \in MenuState
  PROVE  /\ Entry(m) \in MenuEntry(MenuType)
         /\ Entry(m).name = m.name /\ Entry(m).type = m.type /\ Entry(m).kernel = m.kernel
         /\ Entry(m).chain = m.chain /\ Entry(m).http = m.http /\ Entry(m).extra = ""
BY AnswerAssumption DEF Entry, MenuState, MenuEntry

\* The draft of an entry, which ConfigToState makes.
DraftMenu(e) == Menu(e.name, e.type, e.kernel, e.chain, e.http)
LEMMA DraftMenuFields ==
  ASSUME NEW e \in MenuEntry(MenuType)
  PROVE  /\ DraftMenu(e) \in MenuState
         /\ DraftMenu(e).name = e.name /\ DraftMenu(e).type = e.type
         /\ DraftMenu(e).kernel = e.kernel /\ DraftMenu(e).chain = e.chain
         /\ DraftMenu(e).http = e.http
BY DEF DraftMenu, Menu, MenuState, MenuEntry

\* The entry that comes back boots the same.
LEMMA MenuBack ==
  ASSUME NEW m \in MenuState
  PROVE  LET raw == rawMenu(Entry(m))
         IN  /\ raw \in MenuEntry(MenuType) /\ raw.name = m.name
             /\ convertMenu(raw) = raw
             /\ DraftMenu(raw) \in MenuState
             /\ rawMenu(Entry(DraftMenu(raw))) = raw
<1> DEFINE x == Entry(m)
           raw == rawMenu(x)
           d == DraftMenu(raw)
           y == Entry(d)
           again == rawMenu(y)
<1>1. /\ x \in MenuEntry(MenuType) /\ x.name = m.name /\ x.type = m.type
      /\ x.extra = ""
  BY EntryFields
<1> HIDE DEF x
<1>2. /\ raw \in MenuEntry(MenuType)
      /\ raw.name = x.name /\ raw.type = x.type /\ raw.http = x.http
      /\ raw.kernel = IF x.type \in {"exit", "chain"} THEN "" ELSE x.kernel
      /\ raw.extra = IF x.type \in {"exit", "chain"} THEN "" ELSE x.extra
      /\ raw.chain = IF x.type = "chain" THEN x.chain ELSE ""
  BY <1>1, RawMenuFields
<1> HIDE DEF raw
<1>3. /\ d \in MenuState /\ d.name = raw.name /\ d.type = raw.type
      /\ d.kernel = raw.kernel /\ d.chain = raw.chain /\ d.http = raw.http
  BY <1>2, DraftMenuFields
<1> HIDE DEF d
<1>4. /\ y \in MenuEntry(MenuType) /\ y.name = d.name /\ y.type = d.type
      /\ y.kernel = d.kernel /\ y.chain = d.chain /\ y.http = d.http /\ y.extra = ""
  BY <1>3, EntryFields
<1> HIDE DEF y
<1>5. /\ again \in MenuEntry(MenuType)
      /\ again.name = y.name /\ again.type = y.type /\ again.http = y.http
      /\ again.kernel = IF y.type \in {"exit", "chain"} THEN "" ELSE y.kernel
      /\ again.extra = IF y.type \in {"exit", "chain"} THEN "" ELSE y.extra
      /\ again.chain = IF y.type = "chain" THEN y.chain ELSE ""
  BY <1>4, RawMenuFields
<1> HIDE DEF again
<1>6. again = raw
  <2>1. again.name = raw.name /\ again.type = raw.type /\ again.http = raw.http
    BY <1>3, <1>4, <1>5
  <2>2. y.type = x.type /\ y.kernel = raw.kernel /\ y.chain = raw.chain /\ y.extra = ""
    BY <1>2, <1>3, <1>4
  <2>3. again.kernel = raw.kernel /\ again.extra = raw.extra /\ again.chain = raw.chain
    BY <1>1, <1>2, <1>5, <2>2
  <2> QED
    BY <1>2, <1>5, <2>1, <2>3, EntrySame
<1>7. convertMenu(raw) = raw
  BY <1>2 DEF convertMenu, MenuEntry, MenuType
<1> QED
  BY <1>1, <1>2, <1>3, <1>6, <1>7 DEF x, raw, d, y, again

\* A MAC comes back, in the spelling of the writer.
LEMMA MACBack ==
  ASSUME NEW t \in DOMAIN ParseMAC, ParseMAC[t] # Garbage
  PROVE  /\ ParseMAC[t] \in MAC /\ Text(ParseMAC[t]) \in DOMAIN ParseMAC
         /\ ParseMAC[Text(ParseMAC[t])] = ParseMAC[t]
BY MACAssumption DEF MAC

\* A client of the draft as a domain.Client, which StateToConfig makes.
DraftClient(c) == [mac |-> ParseMAC[c.mac], enabled |-> TRUE, entries |-> c.entries,
                   default |-> c.default, vars |-> "", loader |-> ""]

\* A client that is written and parsed is the same again.
LEMMA ClientBack ==
  ASSUME NEW c \in ClientState
  PROVE  LET d == DraftClient(c)
             raw == rawClient(d)
         IN  /\ d \in Client(MAC, BOOLEAN) /\ d.entries = c.entries /\ d.default = c.default
             /\ raw \in Client(DOMAIN ParseMAC, BOOLEAN) /\ ParseMAC[raw.mac] # Garbage
             /\ convertClient(raw) = d
<1> DEFINE mac == ParseMAC[c.mac]
           d == DraftClient(c)
           raw == rawClient(d)
           e == convertClient(raw)
<1>1. /\ c.mac \in DOMAIN ParseMAC /\ mac # Garbage
      /\ c.entries \in Seq(Word) /\ c.default \in Word /\ "" \in Word
  BY AnswerAssumption DEF ClientState
<1>2. /\ mac \in MAC /\ Text(mac) \in DOMAIN ParseMAC /\ ParseMAC[Text(mac)] = mac
  BY <1>1, MACBack
<1>3. /\ d \in Client(MAC, BOOLEAN) /\ d.mac = mac /\ d.enabled = TRUE
      /\ d.entries = c.entries /\ d.default = c.default /\ d.vars = "" /\ d.loader = ""
  <2> HIDE DEF mac
  <2> QED
    BY <1>1, <1>2 DEF DraftClient, Client, mac
<1> HIDE DEF d, mac
<1>4. /\ raw \in Client(DOMAIN ParseMAC, BOOLEAN) /\ raw.mac = Text(mac) /\ raw.enabled = TRUE
      /\ raw.entries = d.entries /\ raw.default = d.default /\ raw.vars = d.vars /\ raw.loader = ""
  BY <1>1, <1>2, <1>3 DEF rawClient, Client
<1> HIDE DEF raw
<1>5. TRUE # Absent
  BY ValueAssumption
<1>6. /\ e \in Client(MAC, BOOLEAN) /\ e.mac = mac /\ e.enabled = TRUE
      /\ e.entries = raw.entries /\ e.default = raw.default /\ e.vars = raw.vars
      /\ e.loader = raw.loader
  BY <1>2, <1>4, <1>5 DEF convertClient, boolDefault, Client
<1> HIDE DEF e
<1>7. e = d
  BY <1>3, <1>4, <1>6, ClientSame
<1> QED
  BY <1>1, <1>2, <1>3, <1>4, <1>7 DEF d, raw, e

-----------------------------------------------------------------------------
(* The type of what LoadDir makes of typed files.                          *)

\* Options that a file leaves out are on.
LEMMA EnabledTypes ==
  /\ \A x \in Optional(DHCP(Optional(BOOLEAN))) : Enabled(x) \in Optional(DHCP(BOOLEAN))
  /\ \A x \in Optional(TFTP(Optional(BOOLEAN), Word \cup {Garbage})) :
       (x # Absent => x.opts # Garbage) => Enabled(x) \in Optional(TFTP(BOOLEAN, Word))
  /\ \A x \in Optional(HTTP(Optional(BOOLEAN), Word \cup {Garbage})) :
       (x # Absent => x.opts # Garbage) => Enabled(x) \in Optional(HTTP(BOOLEAN, Word))
  /\ \A x \in Optional(Health(Optional(BOOLEAN), Word \cup {Garbage})) :
       (x # Absent => x.interval # Garbage) => convertHealth(x) \in Optional(Health(BOOLEAN, Word))
<1>1. \A b \in Optional(BOOLEAN) : boolDefault(b, TRUE) \in BOOLEAN
  BY DEF boolDefault, Optional
<1>2. ASSUME NEW x \in Optional(DHCP(Optional(BOOLEAN)))
      PROVE  Enabled(x) \in Optional(DHCP(BOOLEAN))
  BY <1>1 DEF Enabled, DHCP, Optional
<1>3. ASSUME NEW x \in Optional(TFTP(Optional(BOOLEAN), Word \cup {Garbage})),
             x # Absent => x.opts # Garbage
      PROVE  Enabled(x) \in Optional(TFTP(BOOLEAN, Word))
  BY <1>1, <1>3 DEF Enabled, TFTP, Optional
<1>4. ASSUME NEW x \in Optional(HTTP(Optional(BOOLEAN), Word \cup {Garbage})),
             x # Absent => x.opts # Garbage
      PROVE  Enabled(x) \in Optional(HTTP(BOOLEAN, Word))
  BY <1>1, <1>4 DEF Enabled, HTTP, Optional
<1>5. ASSUME NEW x \in Optional(Health(Optional(BOOLEAN), Word \cup {Garbage})),
             x # Absent => x.interval # Garbage
      PROVE  convertHealth(x) \in Optional(Health(BOOLEAN, Word))
  BY <1>1, <1>5 DEF convertHealth, Health, Optional
<1> QED
  BY <1>2, <1>3, <1>4, <1>5

\* The same for menus and clients.
LEMMA ConvertedTypes ==
  /\ \A m \in MenuEntry(MenuType \cup {"", Garbage}) :
       m.type # Garbage => convertMenu(m) \in MenuEntry(MenuType)
  /\ \A c \in Client(DOMAIN ParseMAC, Optional(BOOLEAN)) :
       ParseMAC[c.mac] # Garbage => convertClient(c) \in Client(MAC, BOOLEAN)
<1>1. \A b \in Optional(BOOLEAN) : boolDefault(b, TRUE) \in BOOLEAN
  BY DEF boolDefault, Optional
<1>2. ASSUME NEW m \in MenuEntry(MenuType \cup {"", Garbage}), m.type # Garbage
      PROVE  convertMenu(m) \in MenuEntry(MenuType)
  <2>1. "install" \in MenuType
    BY DEF MenuType
  <2> QED
    BY <1>2, <2>1 DEF convertMenu, MenuEntry
<1>3. ASSUME NEW c \in Client(DOMAIN ParseMAC, Optional(BOOLEAN)), ParseMAC[c.mac] # Garbage
      PROVE  convertClient(c) \in Client(MAC, BOOLEAN)
  <2>1. c.mac \in DOMAIN ParseMAC
    BY DEF Client
  <2>2. ParseMAC[c.mac] \in MAC
    BY <1>3, <2>1 DEF MAC
  <2> QED
    BY <1>1, <2>2 DEF convertClient, Client
<1> QED
  BY <1>2, <1>3

\* parseFile, field by field.
LEMMA ParsedFields ==
  ASSUME NEW f \in rawFile
  PROVE  LET p == parseFile(f) IN
         /\ p.server = f.server /\ p.dhcp = Enabled(f.dhcp) /\ p.tftp = Enabled(f.tftp)
         /\ p.http = Enabled(f.http) /\ p.health = convertHealth(f.health)
         /\ p.bootloader = f.bootloader
         /\ p.menu = [i \in DOMAIN f.menu |-> convertMenu(f.menu[i])]
         /\ p.client = [i \in DOMAIN f.client |-> convertClient(f.client[i])]
         /\ p = [server |-> p.server, dhcp |-> p.dhcp, tftp |-> p.tftp, http |-> p.http,
                 health |-> p.health, bootloader |-> p.bootloader, menu |-> p.menu,
                 client |-> p.client]
<1> DEFINE F == {"server", "dhcp", "tftp", "http", "health", "bootloader", "menu", "client"}
<1>1. f = [x \in F |-> f[x]]
  BY DEF rawFile, File
<1> HIDE DEF F
<1> DEFINE menu == [i \in DOMAIN f.menu |-> convertMenu(f.menu[i])]
           client == [i \in DOMAIN f.client |-> convertClient(f.client[i])]
           p == parseFile(f)
<1>2. /\ p.server = f.server /\ p.dhcp = Enabled(f.dhcp) /\ p.tftp = Enabled(f.tftp)
         /\ p.http = Enabled(f.http) /\ p.health = convertHealth(f.health)
         /\ p.bootloader = f.bootloader
         /\ p.menu = menu /\ p.client = client
         /\ p = [x \in F |-> p[x]]
  BY <1>1 DEF parseFile, F
<1> HIDE DEF menu, client, p
<1>3. p = [server |-> p.server, dhcp |-> p.dhcp, tftp |-> p.tftp, http |-> p.http,
                 health |-> p.health, bootloader |-> p.bootloader, menu |-> p.menu,
                 client |-> p.client]
  BY <1>2 DEF F
<1> QED
  BY <1>2, <1>3 DEF menu, client, p

\* The types of a file's fields.
LEMMA FileFields ==
  ASSUME NEW on, NEW text, NEW types, NEW macs, NEW f \in File(on, text, types, macs)
  PROVE  /\ f.server \in Optional(Server) /\ f.dhcp \in Optional(DHCP(on))
         /\ f.tftp \in Optional(TFTP(on, text)) /\ f.http \in Optional(HTTP(on, text))
         /\ f.health \in Optional(Health(on, text)) /\ f.bootloader \in Optional(Bootloader)
         /\ f.menu \in Seq(MenuEntry(types)) /\ f.client \in Seq(Client(macs, on))
BY DEF File

\* A file is what has these fields.
LEMMA FileMake ==
  ASSUME NEW on, NEW text, NEW types, NEW macs,
         NEW a \in Optional(Server), NEW b \in Optional(DHCP(on)),
         NEW c \in Optional(TFTP(on, text)), NEW d \in Optional(HTTP(on, text)),
         NEW e \in Optional(Health(on, text)), NEW f \in Optional(Bootloader),
         NEW g \in Seq(MenuEntry(types)), NEW h \in Seq(Client(macs, on))
  PROVE  [server |-> a, dhcp |-> b, tftp |-> c, http |-> d, health |-> e, bootloader |-> f,
          menu |-> g, client |-> h] \in File(on, text, types, macs)
BY DEF File

\* What is not malformed parses to a fileResult.
LEMMA ParsedType ==
  ASSUME NEW f \in rawFile, ~Malformed(f)
  PROVE  parseFile(f) \in fileResult
<1> DEFINE raw == MenuEntry(MenuType \cup {"", Garbage})
           entry == MenuEntry(MenuType)
           written == Client(DOMAIN ParseMAC, Optional(BOOLEAN))
           client == Client(MAC, BOOLEAN)
           p == parseFile(f)
           fm == f.menu
           fc == f.client
           pm == p.menu
           pc0 == p.client
<1>1. /\ f.server \in Optional(Server) /\ f.dhcp \in Optional(DHCP(Optional(BOOLEAN)))
      /\ f.tftp \in Optional(TFTP(Optional(BOOLEAN), Word \cup {Garbage}))
      /\ f.http \in Optional(HTTP(Optional(BOOLEAN), Word \cup {Garbage}))
      /\ f.health \in Optional(Health(Optional(BOOLEAN), Word \cup {Garbage}))
      /\ f.bootloader \in Optional(Bootloader)
      /\ f.menu \in Seq(raw) /\ f.client \in Seq(written)
  BY FileFields DEF rawFile
<1>2. /\ f.tftp # Absent => f.tftp.opts # Garbage
      /\ f.http # Absent => f.http.opts # Garbage
      /\ f.health # Absent => f.health.interval # Garbage
      /\ \A i \in DOMAIN fm : fm[i].type # Garbage
      /\ \A i \in DOMAIN fc : ParseMAC[fc[i].mac] # Garbage
  BY DEF Malformed
<1>3. /\ p.server = f.server /\ p.dhcp = Enabled(f.dhcp) /\ p.tftp = Enabled(f.tftp)
      /\ p.http = Enabled(f.http) /\ p.health = convertHealth(f.health)
      /\ p.bootloader = f.bootloader
      /\ p.menu = [i \in DOMAIN fm |-> convertMenu(fm[i])]
      /\ p.client = [i \in DOMAIN fc |-> convertClient(fc[i])]
      /\ p = [server |-> p.server, dhcp |-> p.dhcp, tftp |-> p.tftp, http |-> p.http,
              health |-> p.health, bootloader |-> p.bootloader, menu |-> p.menu,
              client |-> p.client]
  BY ParsedFields
<1>4. /\ \A m \in raw : m.type # Garbage => convertMenu(m) \in entry
      /\ \A c \in written : ParseMAC[c.mac] # Garbage => convertClient(c) \in client
  BY ConvertedTypes
<1> HIDE DEF p
<1>5. p.menu \in Seq(entry)
  <2>1. /\ pm = [i \in DOMAIN fm |-> pm[i]] /\ fm \in Seq(raw)
        /\ \A i \in DOMAIN fm : fm[i] \in raw => pm[i] \in entry
    BY <1>1, <1>2, <1>3, <1>4
  <2> HIDE DEF raw, entry, fm, pm
  <2>2. pm \in Seq(entry)
    BY <2>1, MapSeq
  <2> QED
    BY <2>2 DEF pm
<1>6. p.client \in Seq(client)
  <2>1. /\ pc0 = [i \in DOMAIN fc |-> pc0[i]] /\ fc \in Seq(written)
        /\ \A i \in DOMAIN fc : fc[i] \in written => pc0[i] \in client
    BY <1>1, <1>2, <1>3, <1>4
  <2> HIDE DEF written, client, fc, pc0
  <2>2. pc0 \in Seq(client)
    BY <2>1, MapSeq
  <2> QED
    BY <2>2 DEF pc0
<1>7. /\ p.dhcp \in Optional(DHCP(BOOLEAN)) /\ p.tftp \in Optional(TFTP(BOOLEAN, Word))
      /\ p.http \in Optional(HTTP(BOOLEAN, Word)) /\ p.health \in Optional(Health(BOOLEAN, Word))
  BY <1>1, <1>2, <1>3, EnabledTypes
<1>8. p.server \in Optional(Server) /\ p.bootloader \in Optional(Bootloader)
  BY <1>1, <1>3
<1> HIDE DEF entry, client
<1>9. [server |-> p.server, dhcp |-> p.dhcp, tftp |-> p.tftp, http |-> p.http,
       health |-> p.health, bootloader |-> p.bootloader, menu |-> p.menu,
       client |-> p.client] \in File(BOOLEAN, Word, MenuType, MAC)
  BY <1>5, <1>6, <1>7, <1>8, FileMake DEF entry, client
<1>10. p \in fileResult
  BY <1>3, <1>9, Zenon DEF fileResult
<1> QED
  BY <1>10 DEF p

-----------------------------------------------------------------------------
\* A set of places has a last one.
LEMMA LastPlace ==
  ASSUME NEW n \in Nat, NEW S \in SUBSET (1..n), S # {}
  PROVE  Max(S) \in S
<1> DEFINE T == {k \in Nat : \A P \in SUBSET (1..k) : P # {} => \E x \in P : \A y \in P : x >= y}
<1>1. 0 \in T
  <2>1. 1..0 = {}
    OBVIOUS
  <2> QED
    BY <2>1
<1>2. ASSUME NEW k \in Nat, k \in T PROVE k + 1 \in T
  <2>0. \A P \in SUBSET (1..k) : P # {} => \E x \in P : \A y \in P : x >= y
    BY <1>2
  <2> HIDE DEF T
  <2>g. SUFFICES \A P \in SUBSET (1..k+1) : P # {} => \E x \in P : \A y \in P : x >= y
    BY DEF T
  <2> SUFFICES ASSUME NEW P \in SUBSET (1..k+1), P # {}
               PROVE  \E x \in P : \A y \in P : x >= y
    OBVIOUS
  <2>1. CASE k + 1 \in P
    <3>1. \A y \in P : k + 1 >= y
      OBVIOUS
    <3> QED
      BY <2>1, <3>1
  <2>2. CASE k + 1 \notin P
    <3>1. P \in SUBSET (1..k)
      BY <2>2
    <3> QED
      BY <2>0, <3>1
  <2> QED
    BY <2>1, <2>2
<1>3. Nat \subseteq T
  <2> HIDE DEF T
  <2> QED
    BY <1>1, <1>2, Induction
<1>4. \E x \in S : \A y \in S : x >= y
  <2>1. n \in T
    BY <1>3
  <2> QED
    BY <2>1
<1> QED
  BY <1>4 DEF Max

\* The last section of its kind, or the zero value.
LEMMA LastOfType ==
  ASSUME NEW results, Slice(results), NEW section, NEW S, NEW zero \in S, Absent \notin S,
         \A r \in Range(results) : r[section] \in Optional(S)
  PROVE  LastOf(results, section, zero) \in S
<1> DEFINE having == {i \in DOMAIN results : results[i][section] # Absent}
<1>1. DOMAIN results = 1..Len(results) /\ Len(results) \in Nat
      /\ \A i \in DOMAIN results : results[i] \in Range(results)
  BY SlicePlaces
<1>2. CASE having = {}
  BY <1>2 DEF LastOf
<1>3. CASE having # {}
  <2>1. having \in SUBSET (1..Len(results))
    BY <1>1
  <2>2. \A i \in having : results[i][section] \in S
    BY <1>1 DEF Optional
  <2>3. LastOf(results, section, zero) = results[Max(having)][section]
    BY <1>3 DEF LastOf
  <2> HIDE DEF having
  <2>4. Max(having) \in having
    BY <1>1, <1>3, <2>1, LastPlace
  <2> QED
    BY <2>2, <2>3, <2>4
<1> QED
  BY <1>2, <1>3

\* The zero values are sections.
LEMMA ZeroTypes ==
  /\ NoServer \in Server /\ NoDHCP \in DHCP(BOOLEAN) /\ NoTFTP \in TFTP(BOOLEAN, Word)
  /\ NoHTTP \in HTTP(BOOLEAN, Word) /\ NoHealth \in Health(BOOLEAN, Word)
  /\ NoLoader \in Bootloader
<1>1. "" \in Word
  BY AnswerAssumption
<1>2. NoDir \in DirName
  BY <1>1 DEF NoDir, DirName
<1>3. NoServer \in Server
  BY <1>1, <1>2 DEF NoServer, Server
<1>4. NoLoader \in Bootloader
  <2>1. [a \in Arch |-> ""] \in [Arch -> Word]
    BY <1>1
  <2> QED
    BY <1>1, <2>1 DEF NoLoader, Bootloader
<1>5. NoDHCP \in DHCP(BOOLEAN)
  <2>1. ASSUME NEW on, NEW off \in on, NEW none \in Word
        PROVE  [enabled |-> off, port |-> 0, proxyPort |-> 0, opts |-> none] \in DHCP(on)
    BY DEF DHCP
  <2> QED
    BY <1>1, <2>1 DEF NoDHCP
<1>6. ASSUME NEW on, NEW text, NEW off \in on, NEW none \in text
      PROVE  /\ [enabled |-> off, port |-> 0, opts |-> none] \in TFTP(on, text)
             /\ [enabled |-> off, interval |-> none, startup |-> off] \in Health(on, text)
  <2>1. [enabled |-> off, port |-> 0, opts |-> none] \in TFTP(on, text)
    BY DEF TFTP
  <2>2. [enabled |-> off, interval |-> none, startup |-> off] \in Health(on, text)
    BY DEF Health
  <2> QED
    BY <2>1, <2>2
<1>7. ASSUME NEW on, NEW text, NEW off \in on, NEW none \in text, none \in Word
      PROVE  [enabled |-> off, port |-> 0, opts |-> none, tls |-> none] \in HTTP(on, text)
  BY <1>7 DEF HTTP
<1>8. NoTFTP \in TFTP(BOOLEAN, Word) /\ NoHealth \in Health(BOOLEAN, Word)
  BY <1>1, <1>6 DEF NoTFTP, NoHealth
<1>9. NoHTTP \in HTTP(BOOLEAN, Word)
  BY <1>1, <1>7 DEF NoHTTP
<1> QED
  BY <1>3, <1>4, <1>5, <1>8, <1>9

\* A configuration is what has these fields.
LEMMA ConfigMake ==
  ASSUME NEW a \in Server, NEW b \in DHCP(BOOLEAN),
         NEW c \in TFTP(BOOLEAN, Word), NEW d \in HTTP(BOOLEAN, Word),
         NEW e \in Health(BOOLEAN, Word), NEW f \in Bootloader,
         NEW g \in Seq(MenuEntry(MenuType)), NEW h \in Seq(Client(MAC, BOOLEAN))
  PROVE  [server |-> a, dhcp |-> b, tftp |-> c, http |-> d, health |-> e, bootloader |-> f,
          menus |-> g, clients |-> h] \in FullConfig
BY DEF FullConfig

LEMMA ConfigFields ==
  ASSUME NEW cfg \in FullConfig
  PROVE  /\ cfg.server \in Server /\ cfg.dhcp \in DHCP(BOOLEAN)
         /\ cfg.tftp \in TFTP(BOOLEAN, Word) /\ cfg.http \in HTTP(BOOLEAN, Word)
         /\ cfg.health \in Health(BOOLEAN, Word) /\ cfg.bootloader \in Bootloader
         /\ cfg.menus \in Seq(MenuEntry(MenuType)) /\ cfg.clients \in Seq(Client(MAC, BOOLEAN))
BY DEF FullConfig

\* A section is not nil.
LEMMA NotAbsent ==
  /\ Absent \notin Server /\ Absent \notin DHCP(BOOLEAN) /\ Absent \notin TFTP(BOOLEAN, Word)
  /\ Absent \notin HTTP(BOOLEAN, Word) /\ Absent \notin Health(BOOLEAN, Word)
  /\ Absent \notin Bootloader
BY ValueAssumption

\* The slices of several files, joined.
LEMMA JoinedType ==
  ASSUME NEW results, Slice(results), NEW f, NEW X, \A r \in Range(results) : r[f] \in Seq(X)
  PROVE  FlattenSeq(Field(results, f)) \in Seq(X)
<1> DEFINE parts == Field(results, f)
<1>1. parts = [i \in DOMAIN results |-> parts[i]] /\ \A i \in DOMAIN results : parts[i] = results[i][f]
  BY DEF Field
<1> HIDE DEF parts
<1>2. results \in Seq(Range(results)) /\ \A i \in DOMAIN results : parts[i] \in Seq(X)
  BY <1>1 DEF Slice, Range
<1>3. parts \in Seq(Seq(X))
  BY <1>1, <1>2, MapSeq
<1>4. FlattenSeq(parts) \in Seq(X)
  BY <1>3, SliceFlatten
<1> QED
  BY <1>4 DEF parts

\* merge makes a configuration, if it makes anything.
LEMMA MergedType ==
  ASSUME NEW results, Slice(results), Range(results) \subseteq fileResult,
         merge(results) # Rejected
  PROVE  merge(results) \in FullConfig
<1> DEFINE menus == FlattenSeq(Field(results, "menu"))
           clients == FlattenSeq(Field(results, "client"))
           server == LastOf(results, "server", NoServer)
           dhcp == LastOf(results, "dhcp", NoDHCP)
           tftp == LastOf(results, "tftp", NoTFTP)
           http == LastOf(results, "http", NoHTTP)
           health == LastOf(results, "health", NoHealth)
           loader == LastOf(results, "bootloader", NoLoader)
           cfg == [server |-> server, dhcp |-> dhcp, tftp |-> tftp, http |-> http,
                   health |-> health, bootloader |-> loader, menus |-> menus,
                   clients |-> clients]
<1>1. merge(results) = cfg
  BY Zenon DEF merge
<1>2. \A r \in Range(results) :
         /\ r.server \in Optional(Server) /\ r.dhcp \in Optional(DHCP(BOOLEAN))
         /\ r.tftp \in Optional(TFTP(BOOLEAN, Word)) /\ r.http \in Optional(HTTP(BOOLEAN, Word))
         /\ r.health \in Optional(Health(BOOLEAN, Word)) /\ r.bootloader \in Optional(Bootloader)
         /\ r.menu \in Seq(MenuEntry(MenuType)) /\ r.client \in Seq(Client(MAC, BOOLEAN))
  BY FileFields DEF fileResult
<1>3. menus \in Seq(MenuEntry(MenuType)) /\ clients \in Seq(Client(MAC, BOOLEAN))
  BY <1>2, JoinedType
<1>4. server \in Server
  BY <1>2, LastOfType, ZeroTypes, NotAbsent
<1>5. dhcp \in DHCP(BOOLEAN)
  BY <1>2, LastOfType, ZeroTypes, NotAbsent
<1>6. tftp \in TFTP(BOOLEAN, Word)
  BY <1>2, LastOfType, ZeroTypes, NotAbsent
<1>7. http \in HTTP(BOOLEAN, Word)
  BY <1>2, LastOfType, ZeroTypes, NotAbsent
<1>8. health \in Health(BOOLEAN, Word)
  BY <1>2, LastOfType, ZeroTypes, NotAbsent
<1>9. loader \in Bootloader
  BY <1>2, LastOfType, ZeroTypes, NotAbsent
<1> HIDE DEF menus, clients, server, dhcp, tftp, http, health, loader
<1>10. cfg \in FullConfig
  BY <1>3, <1>4, <1>5, <1>6, <1>7, <1>8, <1>9, ConfigMake
<1> QED
  BY <1>1, <1>10, Zenon

\* Paths stay paths.
LEMMA DirTypes ==
  ASSUME NEW d \in DirName
  PROVE  resolvePaths(d) \in DirName /\ makeRelative(d) \in DirName
BY DEF resolvePaths, makeRelative, DirName

LEMMA ResolvedType ==
  ASSUME NEW cfg \in FullConfig
  PROVE  [cfg EXCEPT !.server.dir = resolvePaths(@)] \in FullConfig
<1>1. cfg.server \in Server /\ cfg.server.dir \in DirName
  BY DEF FullConfig, Server
<1>2. [cfg.server EXCEPT !.dir = resolvePaths(@)] \in Server
  BY <1>1, DirTypes DEF Server
<1> DEFINE server == [cfg.server EXCEPT !.dir = resolvePaths(@)]
<1>3. [cfg EXCEPT !.server.dir = resolvePaths(@)] = [cfg EXCEPT !.server = server]
  OBVIOUS
<1> HIDE DEF server
<1>4. [cfg EXCEPT !.server = server] \in FullConfig
  BY <1>2 DEF FullConfig, server
<1> QED
  BY <1>3, <1>4

\* The part of TypeOK that is about the directory.
DirTyped == FileOrder \in Seq(DOMAIN dir) /\ \A f \in DOMAIN dir : dir[f] \in Content

\* LoadDir makes a configuration, if it makes anything.
LEMMA LoadedType ==
  ASSUME DirTyped, LoadDir(dir) # Rejected
  PROVE  LoadDir(dir) \in FullConfig
<1> DEFINE found == [i \in DOMAIN FileOrder |-> dir[FileOrder[i]]]
           files == Keep(found, Range(found) \ {Absent})
           results == [i \in DOMAIN files |-> parseFile(files[i])]
           cfg == merge(results)
<1>1. /\ \A i \in DOMAIN files : ~Malformed(files[i])
      /\ cfg # Rejected /\ LoadDir(dir) = [cfg EXCEPT !.server.dir = resolvePaths(@)]
  BY DEF LoadDir
<1>2. found \in Seq(Content)
  <2> DEFINE names == DOMAIN dir
  <2>1. FileOrder \in Seq(names) /\ found = [i \in DOMAIN FileOrder |-> found[i]]
        /\ \A i \in DOMAIN FileOrder : FileOrder[i] \in names => found[i] \in Content
    BY DEF DirTyped
  <2> HIDE DEF found, names
  <2> QED
    BY <2>1, MapSeq
<1> HIDE DEF found
<1>3. Slice(files) /\ Range(files) \subseteq Content \ {Absent}
  <2>1. Slice(found) /\ Range(found) \subseteq Content
    BY <1>2, SliceOf
  <2> QED
    BY <2>1, SliceKeep
<1> HIDE DEF files
<1>4. \A i \in DOMAIN files : files[i] \in rawFile /\ parseFile(files[i]) \in fileResult
  <2> SUFFICES ASSUME NEW i \in DOMAIN files
               PROVE  files[i] \in rawFile /\ parseFile(files[i]) \in fileResult
    OBVIOUS
  <2>1. files[i] \in rawFile
    BY <1>1, <1>3 DEF Content, Malformed, Range
  <2> QED
    BY <1>1, <2>1, ParsedType
<1>5. Slice(results) /\ Range(results) \subseteq fileResult
  <2>1. files \in Seq(Range(files)) /\ results = [i \in DOMAIN files |-> results[i]]
        /\ \A i \in DOMAIN files : results[i] \in fileResult
    BY <1>3, <1>4 DEF Slice
  <2> HIDE DEF results
  <2>2. results \in Seq(fileResult)
    BY <2>1, MapSeq
  <2> QED
    BY <2>2, SliceOf
<1> HIDE DEF results
<1>6. cfg \in FullConfig
  BY <1>1, <1>5, MergedType
<1> HIDE DEF cfg
<1> QED
  BY <1>1, <1>6, ResolvedType

-----------------------------------------------------------------------------
(* The types of the draft, and of the file that is made of it.             *)

\* A draft is what has these fields.
LEMMA DraftMake ==
  ASSUME NEW a \in Word, NEW b \in DirName,
         NEW c \in [enabled : BOOLEAN, port : Int, proxyPort : Int],
         NEW d \in Service, NEW e \in Service, NEW f \in SUBSET Arch, NEW g \in Word,
         NEW h \in Seq(MenuState), NEW i \in Seq(ClientState)
  PROVE  [iface |-> a, dir |-> b, dhcp |-> c, tftp |-> d, http |-> e, archs |-> f,
          loaderDir |-> g, menus |-> h, clients |-> i] \in WizardState
BY DEF WizardState

LEMMA DraftFields ==
  ASSUME NEW s \in WizardState
  PROVE  /\ s.iface \in Word /\ s.dir \in DirName
         /\ s.dhcp \in [enabled : BOOLEAN, port : Int, proxyPort : Int]
         /\ s.tftp \in Service /\ s.http \in Service /\ s.archs \in SUBSET Arch
         /\ s.loaderDir \in Word /\ s.menus \in Seq(MenuState) /\ s.clients \in Seq(ClientState)
BY DEF WizardState

\* What a client of a configuration is in the draft.
DraftOfClient(c) == [mac |-> Text(c.mac), entries |-> c.entries, default |-> c.default]
LEMMA DraftOfClientType ==
  ASSUME NEW c \in Client(MAC, BOOLEAN)
  PROVE  DraftOfClient(c) \in ClientState
<1>1. c.mac \in MAC /\ c.entries \in Seq(Word) /\ c.default \in Word
  BY DEF Client
<1>2. Text(c.mac) \in DOMAIN ParseMAC /\ ParseMAC[Text(c.mac)] # Garbage
  BY <1>1, MACAssumption DEF MAC
<1> DEFINE t == Text(c.mac)
<1>3. t \in {x \in DOMAIN ParseMAC : ParseMAC[x] # Garbage}
  BY <1>2
<1> HIDE DEF t
<1>4. [mac |-> t, entries |-> c.entries, default |-> c.default] \in ClientState
  BY <1>1, <1>3 DEF ClientState
<1> QED
  BY <1>4, Zenon DEF DraftOfClient, t

\* The draft of a configuration.
LEMMA DraftType ==
  ASSUME NEW cfg \in FullConfig
  PROVE  ConfigToState(cfg) \in WizardState
<1> DEFINE cm == cfg.menus
           cc == cfg.clients
           dhcp == [enabled |-> cfg.dhcp.enabled, port |-> cfg.dhcp.port,
                    proxyPort |-> cfg.dhcp.proxyPort]
           tftp == [enabled |-> cfg.tftp.enabled, port |-> cfg.tftp.port]
           http == [enabled |-> cfg.http.enabled, port |-> cfg.http.port]
           archs == {a \in Arch : cfg.bootloader.files[a] # ""}
           menus == [i \in DOMAIN cm |-> DraftMenu(cm[i])]
           clients == [i \in DOMAIN cc |-> DraftOfClient(cc[i])]
           Entries == MenuEntry(MenuType)
           Clients == Client(MAC, BOOLEAN)
<1>1. ConfigToState(cfg) = [iface |-> cfg.server.iface, dir |-> cfg.server.dir,
        dhcp |-> dhcp, tftp |-> tftp, http |-> http, archs |-> archs,
        loaderDir |-> cfg.bootloader.dir, menus |-> menus, clients |-> clients]
  BY Zenon DEF ConfigToState, DraftMenu, DraftOfClient
<1>2. /\ cfg.server \in Server /\ cfg.dhcp \in DHCP(BOOLEAN)
      /\ cfg.tftp \in TFTP(BOOLEAN, Word) /\ cfg.http \in HTTP(BOOLEAN, Word)
      /\ cfg.bootloader \in Bootloader
      /\ cm \in Seq(Entries) /\ cc \in Seq(Clients)
  BY ConfigFields
<1>3. cfg.server.iface \in Word /\ cfg.server.dir \in DirName
  BY <1>2 DEF Server
<1>4. dhcp \in [enabled : BOOLEAN, port : Int, proxyPort : Int]
  BY <1>2 DEF DHCP
<1>5. tftp \in Service
  BY <1>2 DEF TFTP, Service
<1>6. http \in Service
  BY <1>2 DEF HTTP, Service
<1>7. cfg.bootloader.dir \in Word /\ archs \in SUBSET Arch
  BY <1>2 DEF Bootloader
<1>8. (\A e \in Entries : DraftMenu(e) \in MenuState) /\ \A c \in Clients : DraftOfClient(c) \in ClientState
  BY DraftMenuFields, DraftOfClientType
<1> HIDE DEF Entries, Clients
<1>9. menus \in Seq(MenuState)
  <2>1. menus = [i \in DOMAIN cm |-> menus[i]] /\ \A i \in DOMAIN cm : cm[i] \in Entries => menus[i] \in MenuState
    BY <1>8
  <2> HIDE DEF menus, cm
  <2> QED
    BY <1>2, <2>1, MapSeq
<1>10. clients \in Seq(ClientState)
  <2>1. clients = [i \in DOMAIN cc |-> clients[i]] /\ \A i \in DOMAIN cc : cc[i] \in Clients => clients[i] \in ClientState
    BY <1>8
  <2> HIDE DEF clients, cc
  <2> QED
    BY <1>2, <2>1, MapSeq
<1> HIDE DEF dhcp, tftp, http, archs, menus, clients
<1>11. [iface |-> cfg.server.iface, dir |-> cfg.server.dir,
        dhcp |-> dhcp, tftp |-> tftp, http |-> http, archs |-> archs,
        loaderDir |-> cfg.bootloader.dir, menus |-> menus, clients |-> clients] \in WizardState
  BY <1>3, <1>4, <1>5, <1>6, <1>7, <1>9, <1>10, DraftMake
<1> QED
  BY <1>1, <1>11, Zenon

\* The sections that StateToConfig makes.
ServerOf(s) == [iface |-> s.iface, dir |-> s.dir, logging |-> "std"]
DHCPOf(d) == [enabled |-> d.enabled, port |-> d.port, proxyPort |-> d.proxyPort, opts |-> ""]
TFTPOf(d) == [enabled |-> d.enabled, port |-> d.port, opts |-> "std"]
HTTPOf(d) == [enabled |-> d.enabled, port |-> d.port, opts |-> "std", tls |-> ""]
HealthOf == [enabled |-> TRUE, interval |-> "std", startup |-> TRUE]
FilesOf(archs) == [a \in Arch |-> IF a \in archs THEN "std" ELSE ""]
LoaderOf(s) == [dir |-> s.loaderDir, chainURL |-> "std", files |-> FilesOf(s.archs)]
EntriesOf(s) == [i \in DOMAIN s.menus |-> Entry(s.menus[i])]
ClientsOf(s) == [i \in DOMAIN s.clients |-> DraftClient(s.clients[i])]

\* StateToConfig in these terms.
LEMMA ConfigOf ==
  ASSUME NEW s
  PROVE  StateToConfig(s) =
    [server |-> ServerOf(s), dhcp |-> DHCPOf(s.dhcp), tftp |-> TFTPOf(s.tftp),
     http |-> HTTPOf(s.http), health |-> HealthOf, bootloader |-> LoaderOf(s),
     menus |-> EntriesOf(s), clients |-> ClientsOf(s)]
BY Zenon DEF StateToConfig, ServerOf, DHCPOf, TFTPOf, HTTPOf, HealthOf, FilesOf, LoaderOf,
   EntriesOf, ClientsOf, DraftClient

\* They have their types.
LEMMA SectionTypes ==
  ASSUME NEW s \in WizardState
  PROVE  /\ ServerOf(s) \in Server /\ DHCPOf(s.dhcp) \in DHCP(BOOLEAN)
         /\ TFTPOf(s.tftp) \in TFTP(BOOLEAN, Word) /\ HTTPOf(s.http) \in HTTP(BOOLEAN, Word)
         /\ HealthOf \in Health(BOOLEAN, Word) /\ LoaderOf(s) \in Bootloader
         /\ EntriesOf(s) \in Seq(MenuEntry(MenuType)) /\ ClientsOf(s) \in Seq(Client(MAC, BOOLEAN))
<1> DEFINE sm == s.menus
           sc == s.clients
           gm == EntriesOf(s)
           gc == ClientsOf(s)
           Entries == MenuEntry(MenuType)
           Clients == Client(MAC, BOOLEAN)
<1>1. /\ s.iface \in Word /\ s.dir \in DirName
      /\ s.dhcp \in [enabled : BOOLEAN, port : Int, proxyPort : Int]
      /\ s.tftp \in Service /\ s.http \in Service /\ s.archs \in SUBSET Arch
      /\ s.loaderDir \in Word /\ sm \in Seq(MenuState) /\ sc \in Seq(ClientState)
  BY DraftFields
<1>2. "" \in Word /\ "std" \in Word
  BY AnswerAssumption
<1>3. ServerOf(s) \in Server
  BY <1>1, <1>2 DEF ServerOf, Server
<1>4. DHCPOf(s.dhcp) \in DHCP(BOOLEAN)
  BY <1>1, <1>2 DEF DHCPOf, DHCP
<1>5. TFTPOf(s.tftp) \in TFTP(BOOLEAN, Word)
  BY <1>1, <1>2 DEF TFTPOf, TFTP, Service
<1>6. HTTPOf(s.http) \in HTTP(BOOLEAN, Word)
  BY <1>1, <1>2 DEF HTTPOf, HTTP, Service
<1>7. HealthOf \in Health(BOOLEAN, Word)
  <2>1. ASSUME NEW on, NEW text, NEW b \in on, NEW t \in text
        PROVE  [enabled |-> b, interval |-> t, startup |-> b] \in Health(on, text)
    BY DEF Health
  <2> QED
    BY <1>2, <2>1 DEF HealthOf
<1>8. LoaderOf(s) \in Bootloader
  <2>1. FilesOf(s.archs) \in [Arch -> Word]
    BY <1>2 DEF FilesOf
  <2> QED
    BY <1>1, <1>2, <2>1 DEF LoaderOf, Bootloader
<1>9. (\A m \in MenuState : Entry(m) \in Entries) /\ \A c \in ClientState : DraftClient(c) \in Clients
  BY EntryFields, ClientBack
<1> HIDE DEF Entries, Clients
<1>10. gm \in Seq(Entries)
  <2>1. gm = [i \in DOMAIN sm |-> gm[i]] /\ \A i \in DOMAIN sm : sm[i] \in MenuState => gm[i] \in Entries
    BY <1>9 DEF EntriesOf
  <2> HIDE DEF gm, sm
  <2> QED
    BY <1>1, <2>1, MapSeq
<1>11. gc \in Seq(Clients)
  <2>1. gc = [i \in DOMAIN sc |-> gc[i]] /\ \A i \in DOMAIN sc : sc[i] \in ClientState => gc[i] \in Clients
    BY <1>9 DEF ClientsOf
  <2> HIDE DEF gc, sc
  <2> QED
    BY <1>1, <2>1, MapSeq
<1> QED
  BY <1>3, <1>4, <1>5, <1>6, <1>7, <1>8, <1>10, <1>11 DEF Entries, Clients

\* What WriteConfig writes of a draft.
FileServer(s) == [iface |-> s.iface, dir |-> makeRelative(s.dir), logging |-> "std"]
WrittenMenus(s) == [i \in DOMAIN s.menus |-> rawMenu(Entry(s.menus[i]))]
WrittenClients(s) == [i \in DOMAIN s.clients |-> rawClient(DraftClient(s.clients[i]))]
FileOf(s) ==
  [server |-> FileServer(s), dhcp |-> IfUsed(DHCPOf(s.dhcp)), tftp |-> IfUsed(TFTPOf(s.tftp)),
   http |-> IfUsed(HTTPOf(s.http)), health |-> HealthOf, bootloader |-> LoaderOf(s),
   menu |-> WrittenMenus(s), client |-> WrittenClients(s)]

\* Certificates are never written: the wizard has none.
LEMMA HTTPWritten ==
  ASSUME NEW d \in Service
  PROVE  [HTTPOf(d) EXCEPT !.tls = IF @ = "on" THEN @ ELSE ""] = HTTPOf(d)
<1> DEFINE h == HTTPOf(d)
           k == [h EXCEPT !.tls = IF @ = "on" THEN @ ELSE ""]
           F == {"enabled", "port", "opts", "tls"}
<1>1. h = [x \in F |-> h[x]] /\ h.tls = ""
  BY DEF HTTPOf
<1> HIDE DEF h
<1>2. k = [x \in F |-> k[x]] /\ \A x \in F : k[x] = h[x]
  BY <1>1
<1> HIDE DEF k, F
<1>3. k = h
  BY <1>1, <1>2
<1> QED
  BY <1>3 DEF h, k

LEMMA ServerWritten ==
  ASSUME NEW s
  PROVE  [ServerOf(s) EXCEPT !.dir = makeRelative(@)] = FileServer(s)
<1> DEFINE h == ServerOf(s)
           k == [h EXCEPT !.dir = makeRelative(@)]
           g == FileServer(s)
           F == {"iface", "dir", "logging"}
<1>1. h = [x \in F |-> h[x]] /\ h.iface = s.iface /\ h.dir = s.dir /\ h.logging = "std"
  BY DEF ServerOf
<1>2. g = [x \in F |-> g[x]] /\ g.iface = s.iface /\ g.dir = makeRelative(s.dir) /\ g.logging = "std"
  BY DEF FileServer
<1> HIDE DEF h, g
<1>3. k = [x \in F |-> k[x]] /\ \A x \in F : k[x] = g[x]
  BY <1>1, <1>2
<1> HIDE DEF k, F
<1>4. k = g
  BY <1>2, <1>3
<1> QED
  BY <1>4 DEF h, k, g

LEMMA HealthWritten ==
  (IF HealthOf.enabled \/ HealthOf.interval # "" THEN HealthOf ELSE Absent) = HealthOf
BY DEF HealthOf

\* WriteConfig in these terms.
LEMMA RawOf ==
  ASSUME NEW s \in WizardState
  PROVE  configToRaw(StateToConfig(s)) = FileOf(s)
<1> DEFINE cfg == StateToConfig(s)
           raw == configToRaw(cfg)
<1>1. s.http \in Service
  BY DraftFields
<1>2. /\ cfg.server = ServerOf(s) /\ cfg.dhcp = DHCPOf(s.dhcp) /\ cfg.tftp = TFTPOf(s.tftp)
      /\ cfg.http = HTTPOf(s.http) /\ cfg.health = HealthOf /\ cfg.bootloader = LoaderOf(s)
      /\ cfg.menus = EntriesOf(s) /\ cfg.clients = ClientsOf(s)
  BY ConfigOf
<1> HIDE DEF cfg
<1>3. [i \in DOMAIN cfg.menus |-> rawMenu(cfg.menus[i])] = WrittenMenus(s)
  <2>1. DOMAIN EntriesOf(s) = DOMAIN s.menus /\ \A i \in DOMAIN s.menus : EntriesOf(s)[i] = Entry(s.menus[i])
    BY DEF EntriesOf
  <2>2. [i \in DOMAIN EntriesOf(s) |-> rawMenu(EntriesOf(s)[i])] = WrittenMenus(s)
    BY <2>1 DEF WrittenMenus
  <2> QED
    BY <1>2, <2>2, Zenon
<1>4. [i \in DOMAIN cfg.clients |-> rawClient(cfg.clients[i])] = WrittenClients(s)
  <2>1. DOMAIN ClientsOf(s) = DOMAIN s.clients
        /\ \A i \in DOMAIN s.clients : ClientsOf(s)[i] = DraftClient(s.clients[i])
    BY DEF ClientsOf
  <2>2. [i \in DOMAIN ClientsOf(s) |-> rawClient(ClientsOf(s)[i])] = WrittenClients(s)
    BY <2>1 DEF WrittenClients
  <2> QED
    BY <1>2, <2>2, Zenon
<1>5. [cfg.http EXCEPT !.tls = IF @ = "on" THEN @ ELSE ""] = HTTPOf(s.http)
  BY <1>1, <1>2, HTTPWritten
<1>6. [cfg.server EXCEPT !.dir = makeRelative(@)] = FileServer(s)
  BY <1>2, ServerWritten
<1>7. raw = [server |-> FileServer(s), dhcp |-> IfUsed(cfg.dhcp), tftp |-> IfUsed(cfg.tftp),
   http |-> IfUsed(HTTPOf(s.http)),
   health |-> IF cfg.health.enabled \/ cfg.health.interval # "" THEN cfg.health ELSE Absent,
   bootloader |-> cfg.bootloader, menu |-> WrittenMenus(s), client |-> WrittenClients(s)]
  BY <1>3, <1>4, <1>5, <1>6, Zenon DEF configToRaw
<1>8. raw = FileOf(s)
  BY <1>2, <1>7, HealthWritten, Zenon DEF FileOf
<1> QED
  BY <1>8 DEF raw, cfg

\* A section that is off and has no port is not written.
LEMMA IfUsedOr == ASSUME NEW S, NEW x \in S PROVE IfUsed(x) \in Optional(S)
BY DEF IfUsed, Optional

\* What is written has its types.
LEMMA WrittenTypes ==
  ASSUME NEW s \in WizardState
  PROVE  LET w == FileOf(s) IN
         /\ w.server \in Server /\ w.dhcp \in Optional(DHCP(BOOLEAN))
         /\ w.tftp \in Optional(TFTP(BOOLEAN, Word)) /\ w.http \in Optional(HTTP(BOOLEAN, Word))
         /\ w.health \in Health(BOOLEAN, Word) /\ w.bootloader \in Bootloader
         /\ w.menu \in Seq(MenuEntry(MenuType))
         /\ w.client \in Seq(Client(DOMAIN ParseMAC, BOOLEAN))
         /\ \A i \in DOMAIN w.client : ParseMAC[w.client[i].mac] # Garbage
<1> DEFINE sm == s.menus
           sc == s.clients
           gm == WrittenMenus(s)
           gc == WrittenClients(s)
           Entries == MenuEntry(MenuType)
           Clients == Client(DOMAIN ParseMAC, BOOLEAN)
<1>1. s.dir \in DirName /\ s.iface \in Word /\ sm \in Seq(MenuState) /\ sc \in Seq(ClientState)
  BY DraftFields
<1>2. FileServer(s) \in Server
  <2>1. makeRelative(s.dir) \in DirName /\ "std" \in Word
    BY <1>1, DirTypes, AnswerAssumption
  <2> QED
    BY <1>1, <2>1 DEF FileServer, Server
<1>3. (\A m \in MenuState : rawMenu(Entry(m)) \in Entries)
      /\ \A c \in ClientState : rawClient(DraftClient(c)) \in Clients
                             /\ ParseMAC[rawClient(DraftClient(c)).mac] # Garbage
  BY MenuBack, ClientBack
<1> HIDE DEF Entries, Clients
<1>4. gm \in Seq(Entries)
  <2>1. gm = [i \in DOMAIN sm |-> gm[i]] /\ \A i \in DOMAIN sm : sm[i] \in MenuState => gm[i] \in Entries
    BY <1>3 DEF WrittenMenus
  <2> HIDE DEF gm, sm
  <2> QED
    BY <1>1, <2>1, MapSeq
<1>5. gc \in Seq(Clients) /\ \A i \in DOMAIN gc : ParseMAC[gc[i].mac] # Garbage
  <2>1. gc = [i \in DOMAIN sc |-> gc[i]]
        /\ \A i \in DOMAIN sc : sc[i] \in ClientState => gc[i] \in Clients /\ ParseMAC[gc[i].mac] # Garbage
    BY <1>3 DEF WrittenClients
  <2> HIDE DEF gc, sc
  <2>2. gc \in Seq(Clients) /\ DOMAIN gc = DOMAIN sc /\ \A i \in DOMAIN sc : sc[i] \in ClientState
    BY <1>1, <2>1, MapSeq
  <2> QED
    BY <2>1, <2>2
<1>6. /\ IfUsed(DHCPOf(s.dhcp)) \in Optional(DHCP(BOOLEAN))
      /\ IfUsed(TFTPOf(s.tftp)) \in Optional(TFTP(BOOLEAN, Word))
      /\ IfUsed(HTTPOf(s.http)) \in Optional(HTTP(BOOLEAN, Word))
      /\ HealthOf \in Health(BOOLEAN, Word) /\ LoaderOf(s) \in Bootloader
  BY SectionTypes, IfUsedOr
<1> HIDE DEF gm, gc
<1>7. /\ FileOf(s).server = FileServer(s) /\ FileOf(s).dhcp = IfUsed(DHCPOf(s.dhcp))
      /\ FileOf(s).tftp = IfUsed(TFTPOf(s.tftp)) /\ FileOf(s).http = IfUsed(HTTPOf(s.http))
      /\ FileOf(s).health = HealthOf /\ FileOf(s).bootloader = LoaderOf(s)
      /\ FileOf(s).menu = gm /\ FileOf(s).client = gc
  BY DEF FileOf, gm, gc
<1> QED
  BY <1>2, <1>4, <1>5, <1>6, <1>7 DEF Entries, Clients

\* A file that says more than it must.
LEMMA Wider ==
  /\ DHCP(BOOLEAN) \subseteq DHCP(Optional(BOOLEAN))
  /\ TFTP(BOOLEAN, Word) \subseteq TFTP(Optional(BOOLEAN), Word \cup {Garbage})
  /\ HTTP(BOOLEAN, Word) \subseteq HTTP(Optional(BOOLEAN), Word \cup {Garbage})
  /\ Health(BOOLEAN, Word) \subseteq Health(Optional(BOOLEAN), Word \cup {Garbage})
  /\ MenuEntry(MenuType) \subseteq MenuEntry(MenuType \cup {"", Garbage})
  /\ Client(DOMAIN ParseMAC, BOOLEAN) \subseteq Client(DOMAIN ParseMAC, Optional(BOOLEAN))
<1>1. BOOLEAN \subseteq Optional(BOOLEAN)
  BY DEF Optional
<1>2. \A on, more, text, texts : on \subseteq more /\ text \subseteq texts =>
        /\ DHCP(on) \subseteq DHCP(more) /\ TFTP(on, text) \subseteq TFTP(more, texts)
        /\ HTTP(on, text) \subseteq HTTP(more, texts) /\ Health(on, text) \subseteq Health(more, texts)
        /\ MenuEntry(text) \subseteq MenuEntry(texts)
        /\ Client(text, on) \subseteq Client(text, more)
  <2> SUFFICES ASSUME NEW on, NEW more, NEW text, NEW texts, on \subseteq more, text \subseteq texts
      PROVE  /\ DHCP(on) \subseteq DHCP(more) /\ TFTP(on, text) \subseteq TFTP(more, texts)
        /\ HTTP(on, text) \subseteq HTTP(more, texts) /\ Health(on, text) \subseteq Health(more, texts)
        /\ MenuEntry(text) \subseteq MenuEntry(texts)
        /\ Client(text, on) \subseteq Client(text, more)
    BY Zenon
  <2>1. DHCP(on) \subseteq DHCP(more)
    BY DEF DHCP
  <2>2. TFTP(on, text) \subseteq TFTP(more, texts)
    BY DEF TFTP
  <2>3. HTTP(on, text) \subseteq HTTP(more, texts)
    BY DEF HTTP
  <2>4. Health(on, text) \subseteq Health(more, texts)
    BY DEF Health
  <2>5. MenuEntry(text) \subseteq MenuEntry(texts)
    BY DEF MenuEntry
  <2>6. Client(text, on) \subseteq Client(text, more)
    BY DEF Client
  <2> QED
    BY <2>1, <2>2, <2>3, <2>4, <2>5, <2>6
<1> DEFINE B == Optional(BOOLEAN)
           W == Word \cup {Garbage}
           T == MenuType \cup {"", Garbage}
           M == DOMAIN ParseMAC
<1>3. Word \subseteq W /\ MenuType \subseteq T /\ BOOLEAN \subseteq B /\ M \subseteq M
  BY <1>1
<1> HIDE DEF B, W, T, M
<1>4. /\ DHCP(BOOLEAN) \subseteq DHCP(B) /\ TFTP(BOOLEAN, Word) \subseteq TFTP(B, W)
      /\ HTTP(BOOLEAN, Word) \subseteq HTTP(B, W) /\ Health(BOOLEAN, Word) \subseteq Health(B, W)
  BY <1>2, <1>3
<1>5. MenuEntry(MenuType) \subseteq MenuEntry(T)
  BY <1>2, <1>3
<1>6. Client(M, BOOLEAN) \subseteq Client(M, B)
  BY <1>2, <1>3
<1> QED
  BY <1>4, <1>5, <1>6 DEF B, W, T, M

\* A file the wizard wrote is a file.
LEMMA WrittenRaw ==
  ASSUME NEW s \in WizardState
  PROVE  FileOf(s) \in rawFile /\ [FileOf(s) EXCEPT !.menu = <<>>, !.client = <<>>] \in rawFile
<1> DEFINE w == FileOf(s)
           B == Optional(BOOLEAN)
           W == Word \cup {Garbage}
           T == MenuType \cup {"", Garbage}
           M == DOMAIN ParseMAC
           Entries == MenuEntry(T)
           Clients == Client(M, B)
           Simple == MenuEntry(MenuType)
           Plain == Client(M, BOOLEAN)
<1>1. /\ w.server \in Server /\ w.dhcp \in Optional(DHCP(BOOLEAN))
      /\ w.tftp \in Optional(TFTP(BOOLEAN, Word)) /\ w.http \in Optional(HTTP(BOOLEAN, Word))
      /\ w.health \in Health(BOOLEAN, Word) /\ w.bootloader \in Bootloader
      /\ w.menu \in Seq(Simple) /\ w.client \in Seq(Plain)
  BY WrittenTypes
<1>2. /\ DHCP(BOOLEAN) \subseteq DHCP(B) /\ TFTP(BOOLEAN, Word) \subseteq TFTP(B, W)
      /\ HTTP(BOOLEAN, Word) \subseteq HTTP(B, W) /\ Health(BOOLEAN, Word) \subseteq Health(B, W)
      /\ Simple \subseteq Entries /\ Plain \subseteq Clients
  BY Wider
<1>3. w = [server |-> w.server, dhcp |-> w.dhcp, tftp |-> w.tftp, http |-> w.http,
           health |-> w.health, bootloader |-> w.bootloader, menu |-> w.menu,
           client |-> w.client]
      /\ [w EXCEPT !.menu = <<>>, !.client = <<>>]
         = [server |-> w.server, dhcp |-> w.dhcp, tftp |-> w.tftp, http |-> w.http,
           health |-> w.health, bootloader |-> w.bootloader, menu |-> <<>>,
           client |-> <<>>]
  <2> DEFINE F == {"server", "dhcp", "tftp", "http", "health", "bootloader", "menu", "client"}
  <2>1. w = [x \in F |-> w[x]]
    BY DEF FileOf
  <2> HIDE DEF w
  <2> DEFINE v == [w EXCEPT !.menu = <<>>, !.client = <<>>]
  <2>2. /\ v.server = w.server /\ v.dhcp = w.dhcp /\ v.tftp = w.tftp /\ v.http = w.http
        /\ v.health = w.health /\ v.bootloader = w.bootloader /\ v.menu = <<>> /\ v.client = <<>>
        /\ v = [x \in F |-> v[x]]
    BY <2>1 DEF F
  <2> HIDE DEF v
  <2>3. w = [server |-> w.server, dhcp |-> w.dhcp, tftp |-> w.tftp, http |-> w.http,
             health |-> w.health, bootloader |-> w.bootloader, menu |-> w.menu,
             client |-> w.client]
    BY <2>1
  <2>4. v = [server |-> v.server, dhcp |-> v.dhcp, tftp |-> v.tftp, http |-> v.http,
             health |-> v.health, bootloader |-> v.bootloader, menu |-> v.menu,
             client |-> v.client]
    BY <2>2
  <2> QED
    BY <2>2, <2>3, <2>4, Zenon DEF v
<1> HIDE DEF w, Entries, Clients, Simple, Plain
<1>4. w.menu \in Seq(Entries) /\ w.client \in Seq(Clients) /\ <<>> \in Seq(Entries) /\ <<>> \in Seq(Clients)
  BY <1>1, <1>2, SeqMonotonic
<1>5. /\ w.server \in Optional(Server) /\ w.dhcp \in Optional(DHCP(B))
      /\ w.tftp \in Optional(TFTP(B, W)) /\ w.http \in Optional(HTTP(B, W))
      /\ w.health \in Optional(Health(B, W)) /\ w.bootloader \in Optional(Bootloader)
  BY <1>1, <1>2 DEF Optional
<1> HIDE DEF B, W, T, M
<1>6. [server |-> w.server, dhcp |-> w.dhcp, tftp |-> w.tftp, http |-> w.http,
       health |-> w.health, bootloader |-> w.bootloader, menu |-> w.menu,
       client |-> w.client] \in File(B, W, T, M)
  BY <1>4, <1>5, FileMake DEF Entries, Clients
<1>7. [server |-> w.server, dhcp |-> w.dhcp, tftp |-> w.tftp, http |-> w.http,
       health |-> w.health, bootloader |-> w.bootloader, menu |-> <<>>,
       client |-> <<>>] \in File(B, W, T, M)
  BY <1>4, <1>5, FileMake DEF Entries, Clients
<1> QED
  BY <1>3, <1>6, <1>7, Zenon DEF rawFile, B, W, T, M, w

\* So is an empty one.
LEMMA EmptyRaw == EmptyFile \in rawFile
<1> DEFINE B == Optional(BOOLEAN)
           W == Word \cup {Garbage}
           T == MenuType \cup {"", Garbage}
           M == DOMAIN ParseMAC
<1> HIDE DEF B, W, T, M
<1>1. \A S : Absent \in Optional(S) /\ <<>> \in Seq(S)
  BY DEF Optional
<1>2. EmptyFile \in File(B, W, T, M)
  BY <1>1, FileMake DEF EmptyFile
<1> QED
  BY <1>2 DEF rawFile, B, W, T, M

\* An entry of the wizard's.
LEMMA MenuTyped ==
  ASSUME NEW a \in Word, NEW b \in MenuType, NEW c \in Word, NEW d \in Word, NEW e \in Word
  PROVE  Menu(a, b, c, d, e) \in MenuState
BY DEF Menu, MenuState

\* The draft a session starts with has its type.
LEMMA DefaultType == DefaultState \in WizardState
<1> DEFINE m == DefaultMenu
           c == DefaultClient
           data == [place |-> "data", rel |-> TRUE]
           dhcp == [enabled |-> TRUE, port |-> 67, proxyPort |-> 4011]
           tftp == [enabled |-> TRUE, port |-> 69]
           http == [enabled |-> TRUE, port |-> 8080]
<1>1. "" \in Word /\ "std" \in Word /\ "data" \in Word /\ LocalDisk \in Word
  BY AnswerAssumption
<1>2. data \in DirName
  BY <1>1 DEF DirName
<1>3. dhcp \in [enabled : BOOLEAN, port : Int, proxyPort : Int]
  OBVIOUS
<1>4. tftp \in Service /\ http \in Service
  BY DEF Service
<1>5. m \in MenuState
  BY <1>1, MenuTyped DEF DefaultMenu, MenuType
<1>6. c \in ClientState
  <2>1. "*" \in DOMAIN ParseMAC /\ ParseMAC["*"] # Garbage
    BY MACAssumption
  <2>2. \A e : e \in Word => <<e>> \in Seq(Word)
    OBVIOUS
  <2>3. <<LocalDisk>> \in Seq(Word)
    BY <1>1, <2>2
  <2> DEFINE entries == <<LocalDisk>>
  <2> HIDE DEF entries
  <2>4. [mac |-> "*", entries |-> entries, default |-> ""] \in ClientState
    BY <1>1, <2>1, <2>3 DEF ClientState, entries
  <2> QED
    BY <2>4 DEF DefaultClient, entries
<1> HIDE DEF m, c
<1>7. <<m>> \in Seq(MenuState) /\ <<c>> \in Seq(ClientState) /\ {} \in SUBSET Arch
  BY <1>5, <1>6
<1> DEFINE ms == <<m>>
           cs == <<c>>
<1> HIDE DEF data, dhcp, tftp, http, ms, cs
<1>8. [iface |-> "", dir |-> data, dhcp |-> dhcp, tftp |-> tftp, http |-> http, archs |-> {},
       loaderDir |-> "std", menus |-> ms, clients |-> cs] \in WizardState
  BY <1>1, <1>2, <1>3, <1>4, <1>7, DraftMake DEF ms, cs
<1>9. DefaultState = [iface |-> "", dir |-> data, dhcp |-> dhcp, tftp |-> tftp, http |-> http,
       archs |-> {}, loaderDir |-> "std", menus |-> ms, clients |-> cs]
  BY SMT DEF DefaultState, data, dhcp, tftp, http, ms, cs, m, c
<1> QED
  BY <1>8, <1>9, Zenon

-----------------------------------------------------------------------------
(* Types of the questions' answers.                                        *)

LEMMA KeepType ==
  ASSUME NEW X, NEW s \in Seq(X), NEW S
  PROVE  Keep(s, S) \in Seq(X)
<1>1. Slice(s) /\ Range(s) \subseteq X
  BY SliceOf
<1>2. Slice(Keep(s, S)) /\ Range(Keep(s, S)) \subseteq X
  BY <1>1, SliceKeep
<1> QED
  BY <1>2, SliceIn

LEMMA RemoveType ==
  ASSUME NEW X, NEW s \in Seq(X), NEW i \in DOMAIN s
  PROVE  RemoveAt(s, i) \in Seq(X)
<1>1. Slice(s) /\ Range(s) \subseteq X
  BY SliceOf
<1>2. Slice(RemoveAt(s, i)) /\ Range(RemoveAt(s, i)) \subseteq X
  BY <1>1, SliceRemove
<1> QED
  BY <1>2, SliceIn

LEMMA ChangeType ==
  ASSUME NEW X, NEW s \in Seq(X), NEW i, NEW x, i \in DOMAIN s => x \in X
  PROVE  [s EXCEPT ![i] = x] \in Seq(X)
<1> DEFINE g == [s EXCEPT ![i] = x]
<1>1. g = [j \in DOMAIN s |-> g[j]] /\ \A j \in DOMAIN s : s[j] \in X => g[j] \in X
  OBVIOUS
<1> HIDE DEF g
<1>2. g \in Seq(X)
  BY <1>1, MapSeq
<1> QED
  BY <1>2 DEF g

LEMMA AppendType == ASSUME NEW X, NEW s \in Seq(X), NEW x \in X PROVE Append(s, x) \in Seq(X)
OBVIOUS

LEMMA JoinType == ASSUME NEW X, NEW s \in Seq(X), NEW t \in Seq(X) PROVE s \o t \in Seq(X)
OBVIOUS

\* A draft with other values of the right types is a draft.
LEMMA DraftChanges ==
  ASSUME NEW s \in WizardState
  PROVE  /\ \A a \in Word, d \in DirName : [s EXCEPT !.iface = a, !.dir = d] \in WizardState
         /\ \A a \in SUBSET Arch : [s EXCEPT !.archs = a] \in WizardState
         /\ \A m \in Seq(MenuState) : [s EXCEPT !.menus = m] \in WizardState
         /\ \A c \in Seq(ClientState) : [s EXCEPT !.clients = c] \in WizardState
         /\ \A m \in Seq(MenuState), c \in Seq(ClientState) :
              [s EXCEPT !.menus = m, !.clients = c] \in WizardState
<1>1. \A a \in Word, d \in DirName : [s EXCEPT !.iface = a, !.dir = d] \in WizardState
  BY DEF WizardState
<1>2. \A a \in SUBSET Arch : [s EXCEPT !.archs = a] \in WizardState
  BY DEF WizardState
<1>3. \A m \in Seq(MenuState) : [s EXCEPT !.menus = m] \in WizardState
  BY DEF WizardState
<1>4. \A c \in Seq(ClientState) : [s EXCEPT !.clients = c] \in WizardState
  BY DEF WizardState
<1>5. \A m \in Seq(MenuState), c \in Seq(ClientState) :
              [s EXCEPT !.menus = m, !.clients = c] \in WizardState
  BY DEF WizardState
<1> QED
  BY <1>1, <1>2, <1>3, <1>4, <1>5

\* Ports are integers.
LEMMA PortInt == ValidPorts \subseteq Int
<1> DEFINE n == 65535
<1>1. ValidPorts = Port \cap 1..n
  BY DEF ValidPorts
<1> HIDE DEF n
<1> QED
  BY <1>1

LEMMA ServicesType ==
  ASSUME st \in WizardState, NEW on, NEW p \in ValidPorts
  PROVE  Services(on, p) \in WizardState
<1> DEFINE PortPair == [enabled : BOOLEAN, port : Int, proxyPort : Int]
           dhcp == IF "dhcp" \in on THEN [enabled |-> TRUE, port |-> p, proxyPort |-> p]
                   ELSE [st.dhcp EXCEPT !.enabled = FALSE]
           tftp == IF "tftp" \in on THEN [enabled |-> TRUE, port |-> p]
                   ELSE [st.tftp EXCEPT !.enabled = FALSE]
           http == IF "http" \in on THEN [enabled |-> TRUE, port |-> p]
                   ELSE [st.http EXCEPT !.enabled = FALSE]
<1>1. p \in Int
  BY PortInt
<1>2. st.dhcp \in PortPair /\ st.tftp \in Service /\ st.http \in Service
  BY DraftFields
<1>3. dhcp \in PortPair
  <2>1. [st.dhcp EXCEPT !.enabled = FALSE] \in PortPair
    BY <1>2
  <2>2. [enabled |-> TRUE, port |-> p, proxyPort |-> p] \in PortPair
    BY <1>1
  <2> QED
    BY <2>1, <2>2
<1>4. tftp \in Service /\ http \in Service
  BY <1>1, <1>2 DEF Service
<1>5. Services(on, p) = [st EXCEPT !.dhcp = dhcp, !.tftp = tftp, !.http = http]
  BY DEF Services, WizardState
<1> HIDE DEF dhcp, tftp, http
<1>6. [st EXCEPT !.dhcp = dhcp, !.tftp = tftp, !.http = http] \in WizardState
  BY <1>3, <1>4 DEF WizardState
<1> QED
  BY <1>5, <1>6

\* What promptMenuEntry can return.
LEMMA NewMenuType == NewMenu \subseteq MenuState
<1>1. MenuName \subseteq Word /\ Kernel \subseteq Word /\ HTTPPath \subseteq Word
      /\ "" \in Word /\ "url" \in Word
  BY AnswerAssumption
<1>2. {"exit", "chain", "install", "tool"} \subseteq MenuType
  BY DEF MenuType
<1>3. \A n \in MenuName : Menu(n, "exit", "", "", "") \in MenuState /\ Menu(n, "chain", "", "url", "") \in MenuState
  BY <1>1, <1>2, MenuTyped
<1>4. \A a \in MenuName \X {"install", "tool"} \X Kernel \X HTTPPath :
        Menu(a[1], a[2], a[3], "", a[4]) \in MenuState
  BY <1>1, <1>2, MenuTyped
<1> QED
  BY <1>3, <1>4 DEF NewMenu

\* What promptMenuEntryEdit can return.
LEMMA EditedType ==
  ASSUME NEW old \in MenuState, NEW m \in EditedMenus(old)
  PROVE  m \in MenuState
<1>1. PICK x \in NewMenu \cup {old}, n \in MenuName \cup {old.name} :
         m = Cleared([x EXCEPT !.name = n], old.http)
  BY DEF EditedMenus
<1>2. n \in Word /\ old.http \in Word /\ "" \in Word
  BY AnswerAssumption DEF MenuState
<1>3. x \in MenuState
  BY NewMenuType
<1> DEFINE y == [x EXCEPT !.name = n]
<1>4. y \in MenuState
  BY <1>2, <1>3 DEF MenuState
<1> HIDE DEF y
<1>5. CASE y.type = "exit"
  <2>1. Cleared(y, old.http) = [y EXCEPT !.kernel = "", !.chain = "", !.http = old.http]
    BY <1>5, SMT DEF Cleared
  <2>2. \A h \in Word : [y EXCEPT !.kernel = "", !.chain = "", !.http = h] \in MenuState
    BY <1>2, <1>4 DEF MenuState
  <2> QED
    BY <1>1, <1>2, <2>1, <2>2 DEF y
<1>6. CASE y.type = "chain"
  <2>1. Cleared(y, old.http) = [y EXCEPT !.kernel = "", !.http = old.http]
    BY <1>6, SMT DEF Cleared
  <2>2. \A h \in Word : [y EXCEPT !.kernel = "", !.http = h] \in MenuState
    BY <1>2, <1>4 DEF MenuState
  <2> QED
    BY <1>1, <1>2, <2>1, <2>2 DEF y
<1>7. CASE y.type # "exit" /\ y.type # "chain"
  <2>1. Cleared(y, old.http) = [y EXCEPT !.chain = ""]
    BY <1>7, Zenon DEF Cleared
  <2>2. [y EXCEPT !.chain = ""] \in MenuState
    BY <1>2, <1>4 DEF MenuState
  <2> QED
    BY <1>1, <2>1, <2>2 DEF y
<1> QED
  BY <1>5, <1>6, <1>7

\* The three ways a step rewrites all clients.
LEMMA ClientsTypes ==
  ASSUME st \in WizardState
  PROVE  /\ \A added \in Seq(Word) : Relinked(added) \in Seq(ClientState)
         /\ \A old, new \in Word : Renamed(old, new) \in Seq(ClientState)
         /\ \A gone : Unlinked(gone) \in Seq(ClientState)
<1> DEFINE sc == st.clients
<1>1. sc \in Seq(ClientState)
  BY DraftFields
<1>2. \A c \in ClientState : c.entries \in Seq(Word) /\ c.default \in Word
  BY DEF ClientState
<1>3. \A e \in Seq(Word) : \A n : Without(e, n) \in Seq(Word)
  BY KeepType DEF Without
<1>4. \A c \in ClientState : \A e \in Seq(Word), d \in Word :
        /\ [c EXCEPT !.entries = e] \in ClientState
        /\ [c EXCEPT !.entries = e, !.default = d] \in ClientState
  BY DEF ClientState
<1>5. ASSUME NEW added \in Seq(Word) PROVE Relinked(added) \in Seq(ClientState)
  <2> DEFINE g == Relinked(added)
  <2>1. \A c \in ClientState : Without(c.entries, Netboot) \o added \in Seq(Word)
    BY <1>2, <1>3, JoinType
  <2>2. ASSUME NEW c \in ClientState
        PROVE  [c EXCEPT !.entries = Without(@, Netboot) \o added] \in ClientState
    <3> DEFINE e == Without(c.entries, Netboot) \o added
    <3>1. e \in Seq(Word) /\ c.default \in Word
      BY <1>2, <2>1
    <3> HIDE DEF e
    <3>2. [c EXCEPT !.entries = e] \in ClientState
      BY <1>4, <3>1
    <3> QED
      BY <3>2 DEF e
  <2>3. g = [i \in DOMAIN sc |-> g[i]] /\ \A i \in DOMAIN sc : sc[i] \in ClientState => g[i] \in ClientState
    BY <2>2 DEF Relinked
  <2> HIDE DEF g, sc
  <2>4. g \in Seq(ClientState)
    BY <1>1, <2>3, MapSeq
  <2> QED
    BY <2>4 DEF g
<1>6. ASSUME NEW old \in Word, NEW new \in Word PROVE Renamed(old, new) \in Seq(ClientState)
  <2> DEFINE g == Renamed(old, new)
             Entries(e) == [j \in DOMAIN e |-> IF e[j] = old THEN new ELSE e[j]]
             Change(c) == [c EXCEPT !.entries = Entries(@),
                                    !.default = IF @ = old THEN new ELSE @]
  <2>1. ASSUME NEW e \in Seq(Word) PROVE Entries(e) \in Seq(Word)
    <3> DEFINE h == Entries(e)
    <3>1. h = [j \in DOMAIN e |-> h[j]] /\ \A j \in DOMAIN e : e[j] \in Word => h[j] \in Word
      OBVIOUS
    <3> HIDE DEF h
    <3>2. h \in Seq(Word)
      BY <3>1, MapSeq
    <3> QED
      BY <3>2 DEF h
  <2>0. g = [i \in DOMAIN sc |-> Change(sc[i])]
    BY DEF Renamed
  <2> HIDE DEF Entries
  <2>2. \A c \in ClientState : Change(c) \in ClientState
    BY <1>2, <1>4, <2>1
  <2> HIDE DEF Change, g
  <2>3. g = [i \in DOMAIN sc |-> g[i]] /\ \A i \in DOMAIN sc : sc[i] \in ClientState => g[i] \in ClientState
    BY <2>0, <2>2
  <2> HIDE DEF sc
  <2>4. g \in Seq(ClientState)
    BY <1>1, <2>3, MapSeq
  <2> QED
    BY <2>4 DEF g
<1>7. ASSUME NEW gone PROVE Unlinked(gone) \in Seq(ClientState)
  <2> DEFINE g == Unlinked(gone)
             Change(c) == [c EXCEPT !.entries = Without(@, gone),
                                    !.default = IF @ = gone THEN "" ELSE @]
  <2>0. g = [i \in DOMAIN sc |-> Change(sc[i])]
    BY DEF Unlinked
  <2>2. \A c \in ClientState : Change(c) \in ClientState
    BY <1>2, <1>3, <1>4, AnswerAssumption
  <2> HIDE DEF Change, g
  <2>3. g = [i \in DOMAIN sc |-> g[i]] /\ \A i \in DOMAIN sc : sc[i] \in ClientState => g[i] \in ClientState
    BY <2>0, <2>2
  <2> HIDE DEF sc
  <2>4. g \in Seq(ClientState)
    BY <1>1, <2>3, MapSeq
  <2> QED
    BY <2>4 DEF g
<1> QED
  BY <1>5, <1>6, <1>7

\* A selection of menu names.
LEMMA SelectionType ==
  ASSUME st \in WizardState, NEW entries \in Selections
  PROVE  entries \in Seq(Word)
<1> DEFINE sm == st.menus
           names == MenuNames(st)
<1>1. sm \in Seq(MenuState)
  BY DraftFields
<1>2. names = [i \in DOMAIN sm |-> names[i]]
      /\ \A i \in DOMAIN sm : sm[i] \in MenuState => names[i] \in Word
  BY DEF MenuNames, Field, MenuState
<1> HIDE DEF sm, names
<1>3. names \in Seq(Word)
  BY <1>1, <1>2, MapSeq
<1>4. PICK S : entries = Keep(names, S)
  BY DEF Selections, names
<1> QED
  BY <1>3, <1>4, KeepType

\* The part of TypeOK that is about the draft.
Typed == st \in WizardState

\* Each question keeps the type.
LEMMA NetbootType == ASSUME Typed, stepNetboot PROVE Typed'
<1>1. PICK mode \in {"skip", "remote", "self-hosted"} :
        st' = [st EXCEPT
          !.menus = IF mode = "skip" THEN Keep(st.menus, {m \in Range(st.menus) : m.name # Netboot})
                    ELSE Append(Keep(st.menus, {m \in Range(st.menus) : m.name # Netboot}),
                                NetbootEntry(mode)),
          !.clients = Relinked(IF mode = "skip" THEN <<>> ELSE <<Netboot>>)]
  BY DEF stepNetboot, Answer
<1> DEFINE rest == Keep(st.menus, {m \in Range(st.menus) : m.name # Netboot})
           menus == IF mode = "skip" THEN rest ELSE Append(rest, NetbootEntry(mode))
           added == IF mode = "skip" THEN <<>> ELSE <<Netboot>>
           clients == Relinked(added)
<1>2. st' = [st EXCEPT !.menus = menus, !.clients = clients]
  BY <1>1, Zenon
<1>3. st.menus \in Seq(MenuState)
  BY DraftFields DEF Typed
<1>4. rest \in Seq(MenuState)
  BY <1>3, KeepType
<1>w. /\ {"", "boot.netboot.xyz", "netboot.xyz.lkrn", "/netboot/", Netboot} \subseteq Word
      /\ "chain" \in MenuType
  BY AnswerAssumption DEF MenuType
<1>5. NetbootEntry(mode) \in MenuState
  BY <1>w, MenuTyped DEF NetbootEntry
<1>6. menus \in Seq(MenuState)
  <2> HIDE DEF rest
  <2> QED
    BY <1>4, <1>5, AppendType
<1>7. added \in Seq(Word)
  <2>1. \A e : e \in Word => <<e>> \in Seq(Word)
    OBVIOUS
  <2>2. Netboot \in Word
    BY <1>w
  <2>3. <<Netboot>> \in Seq(Word)
    BY <2>1, <2>2, Zenon
  <2>4. <<>> \in Seq(Word)
    OBVIOUS
  <2> QED
    BY <2>3, <2>4
<1> HIDE DEF added, menus
<1>8. clients \in Seq(ClientState)
  BY <1>7, ClientsTypes DEF Typed
<1> HIDE DEF clients
<1>9. [st EXCEPT !.menus = menus, !.clients = clients] \in WizardState
  BY <1>6, <1>8, DraftChanges DEF Typed
<1> QED
  BY <1>2, <1>9, Zenon DEF Typed

LEMMA MenuAddType == ASSUME Typed, MenuAdd PROVE Typed'
<1>1. PICK m \in NewMenu : st' = [st EXCEPT !.menus = Append(@, m)]
  BY DEF MenuAdd, Answer
<1> DEFINE menus == Append(st.menus, m)
<1>2. st' = [st EXCEPT !.menus = menus]
  BY <1>1, Zenon
<1>3. menus \in Seq(MenuState)
  BY NewMenuType, DraftFields, AppendType DEF Typed
<1> HIDE DEF menus
<1>4. [st EXCEPT !.menus = menus] \in WizardState
  BY <1>3, DraftChanges DEF Typed
<1> QED
  BY <1>2, <1>4, Zenon DEF Typed

LEMMA MenuEditType == ASSUME Typed, MenuEdit PROVE Typed'
<1>1. PICK i \in DOMAIN st.menus : \E m \in EditedMenus(st.menus[i]) :
        st' = [st EXCEPT !.menus[i] = m, !.clients = Renamed(st.menus[i].name, m.name)]
  BY DEF MenuEdit, Answer
<1>2. PICK m \in EditedMenus(st.menus[i]) :
        st' = [st EXCEPT !.menus[i] = m, !.clients = Renamed(st.menus[i].name, m.name)]
  BY <1>1
<1> DEFINE sm == st.menus
           menus == [sm EXCEPT ![i] = m]
           clients == Renamed(sm[i].name, m.name)
<1>3. st' = [st EXCEPT !.menus = menus, !.clients = clients]
  BY <1>2 DEF Typed, WizardState
<1>4. sm \in Seq(MenuState) /\ sm[i] \in MenuState
  BY DraftFields, ElementOfSeq DEF Typed
<1>5. m \in MenuState
  BY <1>4, EditedType
<1>6. sm[i].name \in Word /\ m.name \in Word
  BY <1>4, <1>5 DEF MenuState
<1> HIDE DEF sm
<1>7. menus \in Seq(MenuState)
  BY <1>4, <1>5, ChangeType
<1>8. clients \in Seq(ClientState)
  BY <1>6, ClientsTypes DEF Typed
<1> HIDE DEF menus, clients
<1>9. [st EXCEPT !.menus = menus, !.clients = clients] \in WizardState
  BY <1>7, <1>8, DraftChanges DEF Typed
<1> QED
  BY <1>3, <1>9, Zenon DEF Typed

LEMMA MenuRemoveType == ASSUME Typed, MenuRemove PROVE Typed'
<1>1. PICK i \in DOMAIN st.menus :
        st' = [st EXCEPT !.menus = RemoveAt(@, i), !.clients = Unlinked(st.menus[i].name)]
  BY DEF MenuRemove, Answer
<1> DEFINE sm == st.menus
           menus == RemoveAt(sm, i)
           clients == Unlinked(sm[i].name)
<1>2. st' = [st EXCEPT !.menus = menus, !.clients = clients]
  BY <1>1, Zenon
<1>3. sm \in Seq(MenuState)
  BY DraftFields DEF Typed
<1> HIDE DEF sm
<1>4. menus \in Seq(MenuState)
  BY <1>3, RemoveType DEF sm
<1>5. clients \in Seq(ClientState)
  BY ClientsTypes DEF Typed
<1> HIDE DEF menus, clients
<1>6. [st EXCEPT !.menus = menus, !.clients = clients] \in WizardState
  BY <1>4, <1>5, DraftChanges DEF Typed
<1> QED
  BY <1>2, <1>6, Zenon DEF Typed

\* The default of a client is one of its entries or none.
LEMMA DefaultsType ==
  ASSUME NEW entries \in Seq(Word), NEW d \in Defaults(entries)
  PROVE  d \in Word
BY SliceOf, AnswerAssumption DEF Defaults

LEMMA ClientMake ==
  ASSUME NEW t \in DOMAIN ParseMAC, ParseMAC[t] # Garbage, NEW e \in Seq(Word), NEW d \in Word
  PROVE  [mac |-> t, entries |-> e, default |-> d] \in ClientState
BY DEF ClientState

\* A new client before the wildcard or at the end.
LEMMA InsertedType ==
  ASSUME NEW X, NEW clients \in Seq(X), NEW c \in X
  PROVE  Inserted(clients, c) \in Seq(X)
<1>1. Append(clients, c) \in Seq(X)
  OBVIOUS
<1>2. ASSUME clients # <<>> PROVE Append(Front(clients), c) \o <<Last(clients)>> \in Seq(X)
  <2>1. Front(clients) \in Seq(X) /\ Last(clients) \in X
    BY <1>2 DEF Front, Last
  <2> QED
    BY <2>1
<1> QED
  BY <1>1, <1>2 DEF Inserted

LEMMA ClientStepsType ==
  ASSUME Typed, stepDefaultClient \/ ClientAdd \/ ClientEdit \/ ClientRemove
  PROVE  Typed'
<1> DEFINE old == st.clients
<1>1. old \in Seq(ClientState) /\ \A e \in Selections : e \in Seq(Word)
  BY DraftFields, SelectionType DEF Typed
<1>d. \A clients \in Seq(ClientState) : [st EXCEPT !.clients = clients] \in WizardState
  BY DraftChanges DEF Typed
<1>c. "clients" \in DOMAIN st
  BY DEF Typed, WizardState
<1>e. ASSUME NEW i \in DOMAIN old PROVE old[i] \in ClientState
  BY <1>1, ElementOfSeq
<1>3. CASE stepDefaultClient
  <2>1. PICK entries \in Selections : st' = [st EXCEPT !.clients[Len(st.clients)].entries = entries]
    BY <1>3 DEF stepDefaultClient, Answer
  <2> DEFINE n == Len(old)
             c == [old[n] EXCEPT !.entries = entries]
             clients == [old EXCEPT ![n] = c]
  <2>2. st' = [st EXCEPT !.clients = clients]
    BY <1>c, <2>1
  <2>3. n \in DOMAIN old => c \in ClientState
    <3> SUFFICES ASSUME n \in DOMAIN old PROVE c \in ClientState
      OBVIOUS
    <3>1. old[n] \in ClientState /\ entries \in Seq(Word)
      BY <1>1, <1>e
    <3> HIDE DEF n, old
    <3> QED
      BY <3>1 DEF ClientState
  <2> HIDE DEF c, n, old
  <2>4. clients \in Seq(ClientState)
    BY <1>1, <2>3, ChangeType
  <2> QED
    BY <1>d, <2>2, <2>4 DEF Typed
<1>4. CASE ClientAdd
  <2>1. PICK mac \in MACText, entries \in Selections :
          /\ ParseMAC[mac] # Garbage
          /\ \E default \in Defaults(entries) :
               st' = [st EXCEPT !.clients = Inserted(@, [mac |-> mac, entries |-> entries,
                                                         default |-> default])]
    BY <1>4 DEF ClientAdd, Answer
  <2>2. PICK default \in Defaults(entries) :
          st' = [st EXCEPT !.clients = Inserted(@, [mac |-> mac, entries |-> entries,
                                                    default |-> default])]
    BY <2>1
  <2> DEFINE c == [mac |-> mac, entries |-> entries, default |-> default]
             clients == Inserted(old, c)
  <2>3. st' = [st EXCEPT !.clients = clients]
    BY <2>2, Zenon
  <2>4. c \in ClientState
    <3>1. mac \in DOMAIN ParseMAC
      BY AnswerAssumption
    <3>2. entries \in Seq(Word) /\ default \in Word
      BY <1>1, DefaultsType
    <3> QED
      BY <2>1, <3>1, <3>2, ClientMake
  <2> HIDE DEF c, old
  <2>5. clients \in Seq(ClientState)
    BY <1>1, <2>4, InsertedType
  <2> QED
    BY <1>d, <2>3, <2>5 DEF Typed
<1>5. CASE ClientEdit
  <2>1. PICK i \in DOMAIN st.clients, entries \in Selections : \E default \in Defaults(entries) :
          st' = [st EXCEPT !.clients[i].entries = entries, !.clients[i].default = default]
    BY <1>5 DEF ClientEdit, Answer
  <2>2. PICK default \in Defaults(entries) :
          st' = [st EXCEPT !.clients[i].entries = entries, !.clients[i].default = default]
    BY <2>1
  <2> DEFINE c == [old[i] EXCEPT !.entries = entries, !.default = default]
             clients == [old EXCEPT ![i] = c]
  <2>3. st' = [st EXCEPT !.clients = clients]
    BY <1>c, <2>2
  <2>4. c \in ClientState
    <3>1. old[i] \in ClientState /\ entries \in Seq(Word) /\ default \in Word
      BY <1>1, <1>e, DefaultsType
    <3> HIDE DEF old
    <3> QED
      BY <3>1 DEF ClientState
  <2> HIDE DEF c, old
  <2>5. clients \in Seq(ClientState)
    BY <1>1, <2>4, ChangeType
  <2> QED
    BY <1>d, <2>3, <2>5 DEF Typed
<1>6. CASE ClientRemove
  <2>1. PICK i \in DOMAIN st.clients : st' = [st EXCEPT !.clients = RemoveAt(@, i)]
    BY <1>6 DEF ClientRemove, Answer
  <2>2. st' = [st EXCEPT !.clients = RemoveAt(old, i)]
    BY <2>1, Zenon
  <2>3. RemoveAt(old, i) \in Seq(ClientState)
    BY <1>1, RemoveType
  <2> QED
    BY <1>d, <2>2, <2>3 DEF Typed
<1> QED
  BY <1>3, <1>4, <1>5, <1>6

LEMMA QuestionType == ASSUME Typed, Questions PROVE Typed'
<1>1. CASE stepServer
  <2>1. PICK i \in Interfaces, d \in DataDirs : st' = [st EXCEPT !.iface = i, !.dir = d]
    BY <1>1, Zenon DEF stepServer, Answer
  <2>2. i \in Word /\ d \in DirName
    BY AnswerAssumption
  <2>3. [st EXCEPT !.iface = i, !.dir = d] \in WizardState
    BY <2>2, DraftChanges DEF Typed
  <2> QED
    BY <2>1, <2>3, Zenon DEF Typed
<1>2. CASE stepBootloader
  <2>1. PICK archs \in Downloads \cup {st.archs} : st' = [st EXCEPT !.archs = archs]
    BY <1>2, Zenon DEF stepBootloader, Answer
  <2>2. archs \in SUBSET Arch
    BY AnswerAssumption, DraftFields DEF Typed
  <2>3. [st EXCEPT !.archs = archs] \in WizardState
    BY <2>2, DraftChanges DEF Typed
  <2> QED
    BY <2>1, <2>3, Zenon DEF Typed
<1>3. CASE stepServices
  <2>1. PICK on \in Switches, p \in ValidPorts : st' = Services(on, p)
    BY <1>3, Zenon DEF stepServices, Answer
  <2>2. Services(on, p) \in WizardState
    BY ServicesType DEF Typed
  <2> QED
    BY <2>1, <2>2, Zenon DEF Typed
<1> QED
  BY <1>1, <1>2, <1>3, NetbootType, MenuAddType, MenuEditType, MenuRemoveType,
     ClientStepsType DEF Questions

-----------------------------------------------------------------------------
(* Every state has its type.                                               *)

\* bootforge.toml is one of the files LoadDir looks for.
LEMMA MainThere ==
  ASSUME NEW d \in Directories PROVE Main \in DOMAIN d /\ d = [f \in DOMAIN d |-> d[f]]
<1> DEFINE names == DOMAIN d
<1>1. FileOrder \in Seq(names)
  BY DirAssumption
<1> HIDE DEF names
<1>2. Range(FileOrder) \subseteq names
  BY <1>1, SliceOf
<1>3. Main \in DOMAIN d
  BY <1>2, DirAssumption DEF names
<1> QED
  BY <1>3, DirAssumption

LEMMA InitType == Init => TypeOK
<1> SUFFICES ASSUME Init PROVE TypeOK
  OBVIOUS
<1>1. dir \in Directories /\ backup = Absent /\ pc = "off" /\ init = FALSE /\ st = DefaultState
      /\ good = dir[Main] /\ saved = DefaultState /\ failed = FALSE /\ answers = 0
  BY DEF Init
<1>2. FileOrder \in Seq(DOMAIN dir) /\ \A f \in DOMAIN dir : dir[f] \in Content
  BY <1>1, DirAssumption
<1>3. Main \in DOMAIN dir
  BY <1>1, MainThere
<1> QED
  BY <1>1, <1>2, <1>3, DefaultType DEF TypeOK, Content

\* Writing bootforge.toml leaves a directory of files.
LEMMA DirWritten ==
  ASSUME TypeOK, NEW f \in Content, dir' = [dir EXCEPT ![Main] = f]
  PROVE  DirTyped' /\ dir'[Main] \in Content
<1>1. DirTyped /\ DOMAIN dir' = DOMAIN dir
  BY DEF TypeOK, DirTyped
<1>2. Main \in DOMAIN dir
  <2> DEFINE names == DOMAIN dir
  <2>1. FileOrder \in Seq(names)
    BY <1>1 DEF DirTyped
  <2> HIDE DEF names
  <2>2. Range(FileOrder) \subseteq names
    BY <2>1, SliceOf
  <2> QED
    BY <2>2, DirAssumption DEF names
<1>3. \A g \in DOMAIN dir' : dir'[g] \in Content
  BY <1>1 DEF DirTyped
<1> QED
  BY <1>1, <1>2, <1>3 DEF DirTyped

\* Type correctness, step by step.
LEMMA StepType == ASSUME TypeOK, [Next]_vars PROVE TypeOK'
<1>1. /\ DirTyped /\ backup \in Content /\ good \in Content
      /\ pc \in Prompts \cup {"off", "save", "backup", "copy", "truncate", "write"}
      /\ init \in BOOLEAN /\ failed \in BOOLEAN /\ answers \in Nat
      /\ Typed /\ saved \in WizardState
  BY DEF TypeOK, DirTyped, Typed
<1>2. TypeOK' <=> /\ DirTyped' /\ backup' \in Content /\ good' \in Content
                  /\ pc' \in Prompts \cup {"off", "save", "backup", "copy", "truncate", "write"}
                  /\ init' \in BOOLEAN /\ failed' \in BOOLEAN /\ answers' \in Nat
                  /\ Typed' /\ saved' \in WizardState
  BY DEF TypeOK, DirTyped, Typed
<1>3. {"server", "sections", "summary"} \subseteq Prompts
  BY DEF Prompts
<1>s. dir' = dir => DirTyped'
  BY <1>1 DEF DirTyped
<1>d. DefaultState \in WizardState
  BY DefaultType
<1>m. Main \in DOMAIN dir /\ dir[Main] \in Content
  <2>1. FileOrder \in Seq(DOMAIN dir)
    BY <1>1 DEF DirTyped
  <2> DEFINE names == DOMAIN dir
  <2>2. FileOrder \in Seq(names)
    BY <2>1
  <2> HIDE DEF names
  <2>3. Range(FileOrder) \subseteq names
    BY <2>2, SliceOf
  <2>4. Main \in DOMAIN dir
    BY <2>3, DirAssumption DEF names
  <2> QED
    BY <1>1, <2>4 DEF DirTyped
<1>4. CASE runInit
  BY <1>1, <1>2, <1>3, <1>4, <1>s, <1>d DEF runInit, disk, history, Typed
<1>5. CASE runEdit
  <2>1. LoadDir(dir) # Rejected /\ st' = ConfigToState(LoadDir(dir))
    BY <1>5 DEF runEdit
  <2>2. Typed'
    BY <1>1, <2>1, LoadedType, DraftType DEF Typed
  <2> QED
    BY <1>1, <1>2, <1>3, <1>5, <1>s, <2>2 DEF runEdit, disk, history
<1>6. CASE Quit
  BY <1>1, <1>2, <1>6, <1>s, <1>d DEF Quit, disk, history, Typed
<1>7. CASE ChooseSection
  BY <1>1, <1>2, <1>7, <1>s DEF ChooseSection, disk, history, Typed, Prompts
<1>8. CASE Done
  <2>1. pc' \in Prompts
    BY <1>8, AfterAsks DEF Done
  <2> QED
    BY <1>1, <1>2, <1>8, <1>s, <2>1 DEF Done, disk, history, Typed
<1>9. CASE Questions
  <2>1. Asks
    BY <1>9, QuestionAsks
  <2>2. Typed'
    BY <1>1, <1>9, QuestionType
  <2> QED
    BY <1>1, <1>2, <1>s, <2>1, <2>2 DEF Asks, disk, history
<1>10. CASE stepSummary \/ Save
  BY <1>1, <1>2, <1>3, <1>10, <1>s DEF stepSummary, Save, disk, history, Typed
<1>11. CASE BackupTruncate
  BY <1>1, <1>2, <1>11, <1>s, EmptyRaw DEF BackupTruncate, disk, history, Typed, Content
<1>12. CASE BackupWrite
  BY <1>1, <1>2, <1>12, <1>s, <1>m DEF BackupWrite, disk, history, Typed
<1>13. CASE WriteTruncate
  <2>1. EmptyFile \in Content
    BY EmptyRaw DEF Content
  <2>2. DirTyped'
    BY <1>13, <2>1, DirWritten DEF WriteTruncate
  <2> QED
    BY <1>1, <1>2, <1>13, <2>2 DEF WriteTruncate, history, Typed
<1>14. CASE WriteConfig
  <2> DEFINE raw == configToRaw(StateToConfig(st))
  <2>1. raw \in Content /\ [raw EXCEPT !.menu = <<>>, !.client = <<>>] \in Content
        /\ EmptyFile \in Content
    BY <1>1, RawOf, WrittenRaw, EmptyRaw DEF Typed, Content
  <2> HIDE DEF raw
  <2>2. /\ pc' = "off" /\ st' = DefaultState /\ UNCHANGED <<backup, init, answers>>
        /\ \/ /\ dir' = [dir EXCEPT ![Main] = raw]
              /\ good' = dir'[Main] /\ saved' = st /\ UNCHANGED failed
           \/ /\ \E part \in {EmptyFile, [raw EXCEPT !.menu = <<>>, !.client = <<>>]} :
                   dir' = [dir EXCEPT ![Main] = part]
              /\ failed' = TRUE /\ UNCHANGED <<good, saved>>
    BY <1>14 DEF WriteConfig, raw
  <2>3. \E f \in Content : dir' = [dir EXCEPT ![Main] = f]
    BY <2>1, <2>2
  <2>4. DirTyped' /\ dir'[Main] \in Content
    BY <2>3, DirWritten
  <2> QED
    BY <1>1, <1>2, <1>d, <2>2, <2>4 DEF Typed
<1>15. CASE UNCHANGED vars
  BY <1>1, <1>2, <1>15, <1>s DEF vars, disk, history, Typed
<1> QED
  BY <1>4, <1>5, <1>6, <1>7, <1>8, <1>9, <1>10, <1>11, <1>12, <1>13, <1>14, <1>15
     DEF Next, Questions

-----------------------------------------------------------------------------
(* A directory with bootforge.toml alone.                                  *)

\* The only slice of its kind.
LEMMA FlattenOne == ASSUME NEW x PROVE FlattenSeq(<<x>>) = x
<1> DEFINE s == <<x>>
           Eq(h) == h = [i \in 1..1 |-> IF i = 1 THEN s[i] ELSE h[i-1] \o s[i]]
<1>1. Len(s) = 1 /\ s[1] = x
  OBVIOUS
<1>2. Eq([i \in 1..1 |-> x])
  <2> DEFINE g == [i \in 1..1 |-> x]
  <2>1. \A i \in 1..1 : i = 1
    OBVIOUS
  <2>2. \A i \in 1..1 : g[i] = IF i = 1 THEN s[i] ELSE g[i-1] \o s[i]
    BY <1>1, <2>1
  <2>3. g = [i \in 1..1 |-> g[i]]
    OBVIOUS
  <2> HIDE DEF g, s
  <2>4. g = [i \in 1..1 |-> IF i = 1 THEN s[i] ELSE g[i-1] \o s[i]]
    BY <2>2, <2>3
  <2> QED
    BY <2>4 DEF g
<1> HIDE DEF s
<1>3. PICK h : Eq(h) /\ FlattenSeq(s) = h[1]
  <2>1. Eq(CHOOSE h : Eq(h))
    BY <1>2
  <2>2. FlattenSeq(s) = (CHOOSE h : Eq(h))[1]
    BY <1>1 DEF FlattenSeq
  <2> QED
    BY <2>1, <2>2
<1>4. h[1] = s[1]
  <2>1. h = [i \in 1..1 |-> IF i = 1 THEN s[i] ELSE h[i-1] \o s[i]]
    BY <1>3
  <2>2. 1 \in 1..1
    OBVIOUS
  <2> HIDE DEF Eq
  <2> QED
    BY <2>1, <2>2
<1> QED
  BY <1>1, <1>3, <1>4 DEF s

\* One element of a slice is kept, if it is at one place only.
LEMMA KeepOne ==
  ASSUME NEW s, NEW S, Slice(s), NEW k \in 1..Len(s), s[k] \in S,
         \A i \in 1..Len(s) : i # k => s[i] \notin S
  PROVE  Keep(s, S) = <<s[k]>>
<1> DEFINE n == Len(s)
<1>1. n \in Nat /\ k \in 1..n
  BY SlicePlaces
<1>2. PICK h : Keeps(h, s, S)
  BY KeepLoop
<1>3. /\ h[0] = <<>> /\ Keep(s, S) = h[n]
      /\ \A i \in 1..n : h[i] = IF s[i] \in S THEN Append(h[i-1], s[i]) ELSE h[i-1]
  BY <1>2 DEF Keeps
<1>4. \A i \in 1..n : s[i] \in S <=> i = k
  OBVIOUS
<1> HIDE DEF n
<1> DEFINE x == s[k]
           SoFar(i) == h[i] = IF i < k THEN <<>> ELSE <<x>>
           T == {i \in Nat : i <= n => SoFar(i)}
<1> HIDE DEF x
<1>5. 0 \in T
  BY <1>1, <1>3
<1>6. ASSUME NEW i \in Nat, i \in T PROVE i + 1 \in T
  <2> SUFFICES ASSUME i + 1 <= n PROVE SoFar(i + 1)
    OBVIOUS
  <2>1. SoFar(i) /\ i + 1 \in 1..n /\ (i + 1) - 1 = i
    BY <1>1, <1>6
  <2>2. h[i + 1] = IF i + 1 = k THEN Append(h[i], s[i + 1]) ELSE h[i]
    BY <1>3, <1>4, <2>1
  <2>3. CASE i + 1 = k
    <3>1. h[i] = <<>> /\ h[i + 1] = Append(h[i], x)
      BY <1>1, <2>1, <2>2, <2>3 DEF x
    <3>2. Append(<<>>, x) = <<x>>
      OBVIOUS
    <3>3. ~(i + 1 < k)
      BY <1>1, <2>3
    <3> QED
      BY <3>1, <3>2, <3>3
  <2>4. CASE i + 1 < k
    <3>1. i < k /\ i + 1 # k
      BY <1>1, <2>4
    <3> QED
      BY <2>1, <2>2, <2>4, <3>1
  <2>5. CASE k < i + 1
    <3>1. ~(i < k) /\ i + 1 # k /\ ~(i + 1 < k)
      BY <1>1, <2>5
    <3> QED
      BY <2>1, <2>2, <3>1
  <2> QED
    BY <1>1, <2>3, <2>4, <2>5
<1>7. Nat \subseteq T
  <2> HIDE DEF T
  <2> QED
    BY <1>5, <1>6, Induction
<1>8. SoFar(n) /\ ~(n < k)
  BY <1>1, <1>7
<1> QED
  BY <1>3, <1>8 DEF x

\* LoadDir finds one file.
LEMMA OneFound ==
  ASSUME TypeOK, SingleFile, dir[Main] # Absent
  PROVE  LET found == [i \in DOMAIN FileOrder |-> dir[FileOrder[i]]]
         IN  Keep(found, Range(found) \ {Absent}) = <<dir[Main]>>
<1> DEFINE names == DOMAIN dir
           found == [i \in DOMAIN FileOrder |-> dir[FileOrder[i]]]
           n == Len(FileOrder)
           S == Range(found) \ {Absent}
<1>1. FileOrder \in Seq(names)
  BY DEF TypeOK
<1> HIDE DEF names
<1>2. DOMAIN FileOrder = 1..n /\ n \in Nat /\ Slice(FileOrder)
  BY <1>1, SliceOf
<1>3. PICK k \in 1..n : FileOrder[k] = Main
  BY <1>2, DirAssumption DEF Range
<1>4. \A i \in 1..n : i # k => FileOrder[i] \in Range(FileOrder) \ {Main}
  BY <1>2, <1>3, DirAssumption DEF IsInjective, Range
<1>5. /\ found = [i \in 1..n |-> found[i]] /\ \A i \in 1..n : found[i] = dir[FileOrder[i]]
  BY <1>2
<1> HIDE DEF found
<1>6. found[k] = dir[Main] /\ \A i \in 1..n : i # k => found[i] = Absent
  BY <1>3, <1>4, <1>5 DEF SingleFile
<1>7. Slice(found) /\ Len(found) = n
  <2>1. found = [i \in DOMAIN FileOrder |-> found[i]]
    BY <1>2, <1>5, Zenon
  <2>2. Slice(found)
    BY <1>2, <2>1, SliceMap
  <2>3. DOMAIN found = 1..n /\ DOMAIN found = 1..Len(found) /\ Len(found) \in Nat
    BY <1>5, <2>2, SlicePlaces
  <2> QED
    BY <1>2, <2>2, <2>3
<1>8. k \in 1..Len(found) /\ found[k] \in S /\ \A i \in 1..Len(found) : i # k => found[i] \notin S
  BY <1>5, <1>6, <1>7 DEF Range
<1> HIDE DEF S
<1>9. Keep(found, S) = <<found[k]>>
  BY <1>7, <1>8, KeepOne
<1> QED
  BY <1>6, <1>9 DEF S, found

\* What LoadDir does with it.
LEMMA LoadOne ==
  ASSUME TypeOK, SingleFile, NEW f \in rawFile, dir[Main] = f, ~Malformed(f)
  PROVE  LET cfg == merge(<<parseFile(f)>>)
         IN  LoadDir(dir) = IF cfg = Rejected THEN Rejected
                            ELSE [cfg EXCEPT !.server.dir = resolvePaths(@)]
<1> DEFINE found == [i \in DOMAIN FileOrder |-> dir[FileOrder[i]]]
           files == Keep(found, Range(found) \ {Absent})
           results == [i \in DOMAIN files |-> parseFile(files[i])]
<1>1. LoadDir(dir) =
        IF files = <<>> \/ \E i \in DOMAIN files : Malformed(files[i]) THEN Rejected
        ELSE IF merge(results) = Rejected THEN Rejected
        ELSE [merge(results) EXCEPT !.server.dir = resolvePaths(@)]
  BY Zenon DEF LoadDir
<1>2. f # Absent
  BY ValueAssumption
<1>3. files = <<f>>
  BY <1>2, OneFound
<1> HIDE DEF files
<1>4. DOMAIN files = {1} /\ files[1] = f /\ files # <<>>
  BY <1>3
<1>5. results = <<parseFile(f)>>
  <2> DEFINE p == parseFile(f)
  <2>1. results = [i \in {1} |-> parseFile(files[i])]
    BY <1>4
  <2>2. results = [i \in {1} |-> p]
    BY <1>4, <2>1
  <2> HIDE DEF p, results
  <2>3. [i \in {1} |-> p] = <<p>>
    <3>1. {1} = 1..1
      OBVIOUS
    <3>2. [i \in 1..1 |-> p] = <<p>>
      OBVIOUS
    <3> QED
      BY <3>1, <3>2
  <2>4. results = <<p>>
    BY <2>2, <2>3
  <2> QED
    BY <2>4 DEF p
<1> HIDE DEF results
<1>6. ~(files = <<>> \/ \E i \in DOMAIN files : Malformed(files[i]))
  BY <1>4
<1> QED
  BY <1>1, <1>5, <1>6, Zenon

\* A section, or its zero value.
OrZero(section, zero) == IF section = Absent THEN zero ELSE section

\* One file has the last section of each kind, and all menus and clients.
LEMMA LastOne ==
  ASSUME NEW p, NEW section, NEW zero
  PROVE  LastOf(<<p>>, section, zero) = OrZero(p[section], zero)
<1> DEFINE results == <<p>>
           having == {i \in DOMAIN results : results[i][section] # Absent}
<1>1. DOMAIN results = {1} /\ results[1] = p
  OBVIOUS
<1>2. LastOf(results, section, zero) = IF having = {} THEN zero ELSE results[Max(having)][section]
  BY DEF LastOf
<1>3. CASE p[section] = Absent
  <2>1. having = {}
    BY <1>1, <1>3
  <2> HIDE DEF having, results
  <2> QED
    BY <1>2, <1>3, <2>1 DEF OrZero, results
<1>4. CASE p[section] # Absent
  <2>1. having = {1}
    BY <1>1, <1>4
  <2> HIDE DEF having, results
  <2>2. Max(having) = 1
    BY <2>1 DEF Max
  <2> QED
    BY <1>1, <1>2, <1>4, <2>1, <2>2 DEF OrZero, results
<1> QED
  BY <1>3, <1>4

LEMMA FieldOne == ASSUME NEW p, NEW f PROVE FlattenSeq(Field(<<p>>, f)) = p[f]
<1> DEFINE results == <<p>>
           x == p[f]
<1>1. DOMAIN results = 1..1 /\ results[1] = p
  OBVIOUS
<1>2. Field(results, f) = [i \in 1..1 |-> x]
  <2>1. Field(results, f) = [i \in 1..1 |-> results[i][f]]
    BY <1>1 DEF Field
  <2>2. \A i \in 1..1 : i = 1
    OBVIOUS
  <2> HIDE DEF results
  <2>3. \A i \in 1..1 : results[i][f] = x
    BY <1>1, <2>2
  <2> HIDE DEF x
  <2> QED
    BY <2>1, <2>3
<1> HIDE DEF results, x
<1>3. Field(results, f) = <<x>>
  <2>1. [i \in 1..1 |-> x] = <<x>>
    OBVIOUS
  <2> QED
    BY <1>2, <2>1
<1>4. FlattenSeq(<<x>>) = x
  BY FlattenOne
<1> QED
  BY <1>3, <1>4, Zenon DEF results, x

\* What merge checks of one file, and makes of it.
Mergeable(p) == /\ IsInjective(Field(p.menu, "name")) /\ IsInjective(Field(p.client, "mac"))
                /\ \A i \in DOMAIN p.client :
                     Range(p.client[i].entries) \subseteq Range(Field(p.menu, "name"))
Config(p) ==
  [server |-> p.server, dhcp |-> OrZero(p.dhcp, NoDHCP), tftp |-> OrZero(p.tftp, NoTFTP),
   http |-> OrZero(p.http, NoHTTP), health |-> OrZero(p.health, NoHealth),
   bootloader |-> OrZero(p.bootloader, NoLoader), menus |-> p.menu, clients |-> p.client]

\* merge of one file.
LEMMA MergeOne ==
  ASSUME NEW p, p.server # Absent
  PROVE  merge(<<p>>) = IF Mergeable(p) THEN Config(p) ELSE Rejected
<1> DEFINE results == <<p>>
           servers == {i \in DOMAIN results : results[i].server # Absent}
<1>1. FlattenSeq(Field(results, "menu")) = p.menu /\ FlattenSeq(Field(results, "client")) = p.client
  BY FieldOne, Zenon
<1>2. Cardinality(servers) = 1
  <2>1. DOMAIN results = {1} /\ results[1] = p
    OBVIOUS
  <2> HIDE DEF results
  <2>2. servers = {1}
    BY <2>1
  <2> HIDE DEF servers
  <2> QED
    BY <2>2, FS_Singleton
<1>3. /\ LastOf(results, "server", NoServer) = p.server
      /\ LastOf(results, "dhcp", NoDHCP) = OrZero(p.dhcp, NoDHCP)
      /\ LastOf(results, "tftp", NoTFTP) = OrZero(p.tftp, NoTFTP)
      /\ LastOf(results, "http", NoHTTP) = OrZero(p.http, NoHTTP)
      /\ LastOf(results, "health", NoHealth) = OrZero(p.health, NoHealth)
      /\ LastOf(results, "bootloader", NoLoader) = OrZero(p.bootloader, NoLoader)
  <2>1. OrZero(p.server, NoServer) = p.server
    BY DEF OrZero
  <2>2. \A section, zero : LastOf(results, section, zero) = OrZero(p[section], zero)
    BY LastOne, Zenon
  <2> QED
    BY <2>1, <2>2, Zenon
<1> HIDE DEF results
<1>4. merge(results) =
        IF /\ Cardinality(servers) = 1
           /\ IsInjective(Field(p.menu, "name"))
           /\ IsInjective(Field(p.client, "mac"))
           /\ \A i \in DOMAIN p.client : Range(p.client[i].entries) \subseteq Range(Field(p.menu, "name"))
        THEN Config(p) ELSE Rejected
  BY <1>1, <1>3, Zenon DEF merge, Config
<1> HIDE DEF servers
<1>5. merge(results) = IF Mergeable(p) THEN Config(p) ELSE Rejected
  BY <1>2, <1>4 DEF Mergeable
<1> QED
  BY <1>5 DEF results

-----------------------------------------------------------------------------
(* A draft that was written, and is read.                                  *)

LEMMA NotChanged ==
  /\ \A x \in Optional(DHCP(BOOLEAN)) : Enabled(x) = x
  /\ \A x \in Optional(TFTP(BOOLEAN, Word)) : Enabled(x) = x
  /\ \A x \in Optional(HTTP(BOOLEAN, Word)) : Enabled(x) = x
  /\ \A x \in Health(BOOLEAN, Word) : convertHealth(x) = x
<1>1. \A b \in BOOLEAN : boolDefault(b, TRUE) = b
  BY ValueAssumption DEF boolDefault
<1>2. ASSUME NEW x \in Optional(DHCP(BOOLEAN)) PROVE Enabled(x) = x
  BY <1>1 DEF Enabled, DHCP, Optional
<1>3. ASSUME NEW x \in Optional(TFTP(BOOLEAN, Word)) PROVE Enabled(x) = x
  BY <1>1 DEF Enabled, TFTP, Optional
<1>4. ASSUME NEW x \in Optional(HTTP(BOOLEAN, Word)) PROVE Enabled(x) = x
  BY <1>1 DEF Enabled, HTTP, Optional
<1>5. ASSUME NEW x \in Health(BOOLEAN, Word) PROVE convertHealth(x) = x
  BY <1>1, ValueAssumption DEF convertHealth, Health
<1> QED
  BY <1>2, <1>3, <1>4, <1>5

\* A written draft parses, and nothing of it is changed.
LEMMA ReadBack ==
  ASSUME NEW s \in WizardState
  PROVE  LET w == FileOf(s)
             p == parseFile(w)
         IN  /\ ~Malformed(w)
             /\ p.server = FileServer(s) /\ p.dhcp = IfUsed(DHCPOf(s.dhcp))
             /\ p.tftp = IfUsed(TFTPOf(s.tftp)) /\ p.http = IfUsed(HTTPOf(s.http))
             /\ p.health = HealthOf /\ p.bootloader = LoaderOf(s)
             /\ p.menu = WrittenMenus(s) /\ p.client = ClientsOf(s)
<1> DEFINE w == FileOf(s)
           p == parseFile(w)
           sm == s.menus
           sc == s.clients
           gm == WrittenMenus(s)
           gc == WrittenClients(s)
<1>0. sm \in Seq(MenuState) /\ sc \in Seq(ClientState)
  BY DraftFields
<1>1. /\ w.server = FileServer(s) /\ w.dhcp = IfUsed(DHCPOf(s.dhcp))
      /\ w.tftp = IfUsed(TFTPOf(s.tftp)) /\ w.http = IfUsed(HTTPOf(s.http))
      /\ w.health = HealthOf /\ w.bootloader = LoaderOf(s)
      /\ w.menu = gm /\ w.client = gc
  BY DEF FileOf
<1>2. /\ w.dhcp \in Optional(DHCP(BOOLEAN))
      /\ w.tftp \in Optional(TFTP(BOOLEAN, Word)) /\ w.http \in Optional(HTTP(BOOLEAN, Word))
      /\ w.health \in Health(BOOLEAN, Word)
      /\ w.menu \in Seq(MenuEntry(MenuType))
      /\ \A i \in DOMAIN w.client : ParseMAC[w.client[i].mac] # Garbage
  BY WrittenTypes
<1>3. w \in rawFile
  BY WrittenRaw
<1>4. /\ p.server = w.server /\ p.dhcp = Enabled(w.dhcp) /\ p.tftp = Enabled(w.tftp)
      /\ p.http = Enabled(w.http) /\ p.health = convertHealth(w.health)
      /\ p.bootloader = w.bootloader
      /\ p.menu = [i \in DOMAIN w.menu |-> convertMenu(w.menu[i])]
      /\ p.client = [i \in DOMAIN w.client |-> convertClient(w.client[i])]
  BY <1>3, ParsedFields
<1> HIDE DEF p, w
<1>5. /\ p.dhcp = w.dhcp /\ p.tftp = w.tftp /\ p.http = w.http /\ p.health = w.health
  BY <1>2, <1>4, NotChanged
<1>6. p.menu = gm
  <2>1. \A m \in MenuState : convertMenu(rawMenu(Entry(m))) = rawMenu(Entry(m))
    BY MenuBack
  <2>2. /\ gm = [i \in DOMAIN sm |-> rawMenu(Entry(sm[i]))]
        /\ DOMAIN gm = DOMAIN sm /\ \A i \in DOMAIN sm : gm[i] = rawMenu(Entry(sm[i]))
    BY DEF WrittenMenus
  <2>3. \A i \in DOMAIN sm : sm[i] \in MenuState
    BY <1>0, ElementOfSeq
  <2> HIDE DEF gm, sm
  <2>4. \A i \in DOMAIN sm : convertMenu(gm[i]) = rawMenu(Entry(sm[i]))
    BY <2>1, <2>2, <2>3
  <2>5. [i \in DOMAIN sm |-> convertMenu(gm[i])] = [i \in DOMAIN sm |-> rawMenu(Entry(sm[i]))]
    BY <2>4
  <2> QED
    BY <1>1, <1>4, <2>2, <2>5
<1>7. p.client = ClientsOf(s)
  <2>1. \A c \in ClientState : convertClient(rawClient(DraftClient(c))) = DraftClient(c)
    BY ClientBack
  <2>2. /\ DOMAIN gc = DOMAIN sc /\ \A i \in DOMAIN sc : gc[i] = rawClient(DraftClient(sc[i]))
        /\ ClientsOf(s) = [i \in DOMAIN sc |-> DraftClient(sc[i])]
    BY DEF WrittenClients, ClientsOf
  <2>3. \A i \in DOMAIN sc : sc[i] \in ClientState
    BY <1>0, ElementOfSeq
  <2> HIDE DEF gc, sc
  <2>4. \A i \in DOMAIN sc : convertClient(gc[i]) = DraftClient(sc[i])
    BY <2>1, <2>2, <2>3
  <2>5. [i \in DOMAIN sc |-> convertClient(gc[i])] = [i \in DOMAIN sc |-> DraftClient(sc[i])]
    BY <2>4
  <2> QED
    BY <1>1, <1>4, <2>2, <2>5
<1>8. ~Malformed(w)
  <2>1. w # Garbage
    BY <1>3, ValueAssumption
  <2>2. w.tftp # Absent => w.tftp.opts # Garbage
    BY <1>2, ValueAssumption DEF Optional, TFTP
  <2>3. w.http # Absent => w.http.opts # Garbage
    BY <1>2, ValueAssumption DEF Optional, HTTP
  <2>4. w.health # Absent => w.health.interval # Garbage
    BY <1>2, ValueAssumption DEF Health
  <2>5. \A i \in DOMAIN w.menu : w.menu[i].type # Garbage
    <3>1. \A m \in MenuEntry(MenuType) : m.type # Garbage
      BY ValueAssumption DEF MenuEntry
    <3>2. \A i \in DOMAIN w.menu : w.menu[i] \in MenuEntry(MenuType)
      BY <1>2, ElementOfSeq
    <3> QED
      BY <3>1, <3>2
  <2> QED
    BY <1>2, <2>1, <2>2, <2>3, <2>4, <2>5 DEF Malformed
<1> QED
  BY <1>1, <1>4, <1>5, <1>6, <1>7, <1>8 DEF p, w

\* A section that is written or has nothing to say comes back as it is, or as zero.
LEMMA SectionBack ==
  ASSUME NEW x, x # Absent, NEW zero
  PROVE  OrZero(IfUsed(x), zero) = IF x.port > 0 \/ x.enabled THEN x ELSE zero
BY DEF OrZero, IfUsed

\* What LoadDir makes of a written draft.
ReadConfig(s) ==
  [server |-> FileServer(s), dhcp |-> OrZero(IfUsed(DHCPOf(s.dhcp)), NoDHCP),
   tftp |-> OrZero(IfUsed(TFTPOf(s.tftp)), NoTFTP),
   http |-> OrZero(IfUsed(HTTPOf(s.http)), NoHTTP), health |-> HealthOf,
   bootloader |-> LoaderOf(s), menus |-> WrittenMenus(s), clients |-> ClientsOf(s)]

\* Names and machines come back.
LEMMA NamesBack ==
  ASSUME NEW s \in WizardState
  PROVE  /\ Field(WrittenMenus(s), "name") = MenuNames(s)
         /\ Field(ClientsOf(s), "mac") = [i \in DOMAIN s.clients |-> ParseMAC[s.clients[i].mac]]
<1> DEFINE sm == s.menus
           sc == s.clients
           gm == WrittenMenus(s)
           gc == ClientsOf(s)
<1>1. sm \in Seq(MenuState) /\ sc \in Seq(ClientState)
  BY DraftFields
<1>2. \A i \in DOMAIN sm : sm[i] \in MenuState
  BY <1>1, ElementOfSeq
<1>3. /\ DOMAIN gm = DOMAIN sm /\ \A i \in DOMAIN sm : gm[i] = rawMenu(Entry(sm[i]))
      /\ DOMAIN gc = DOMAIN sc /\ \A i \in DOMAIN sc : gc[i] = DraftClient(sc[i])
  BY DEF WrittenMenus, ClientsOf
<1>4. \A c : DraftClient(c).mac = ParseMAC[c.mac]
  BY DEF DraftClient
<1>5. \A m \in MenuState : rawMenu(Entry(m)).name = m.name
  BY MenuBack
<1> HIDE DEF sm, sc, gm, gc
<1>6. Field(gm, "name") = [i \in DOMAIN sm |-> sm[i].name]
  <2>1. \A i \in DOMAIN sm : gm[i].name = sm[i].name
    BY <1>2, <1>3, <1>5
  <2> QED
    BY <1>3, <2>1 DEF Field
<1>7. Field(gc, "mac") = [i \in DOMAIN sc |-> ParseMAC[sc[i].mac]]
  <2>1. \A i \in DOMAIN sc : gc[i].mac = ParseMAC[sc[i].mac]
    BY <1>3, <1>4
  <2> QED
    BY <1>3, <2>1 DEF Field
<1> QED
  BY <1>6, <1>7 DEF MenuNames, Field, sm, sc, gm, gc

\* merge refuses it for a name or a machine that is there twice, and for nothing else.
LEMMA MergeableBack ==
  ASSUME NEW s \in WizardState, DraftOK(s)
  PROVE  Mergeable(parseFile(FileOf(s))) <=> NamesOnce(s)
<1> DEFINE p == parseFile(FileOf(s))
           sc == s.clients
<1>1. p.menu = WrittenMenus(s) /\ p.client = ClientsOf(s)
  BY ReadBack
<1>2. /\ Field(WrittenMenus(s), "name") = MenuNames(s)
      /\ Field(ClientsOf(s), "mac") = [i \in DOMAIN sc |-> ParseMAC[sc[i].mac]]
  BY NamesBack
<1>3. \A i \in DOMAIN ClientsOf(s) : Range(ClientsOf(s)[i].entries) \subseteq Range(MenuNames(s))
  <2> SUFFICES ASSUME NEW i \in DOMAIN sc
               PROVE  Range(ClientsOf(s)[i].entries) \subseteq Range(MenuNames(s))
    BY DEF ClientsOf
  <2>1. ClientsOf(s)[i].entries = sc[i].entries
    BY DEF ClientsOf, DraftClient
  <2>2. ClientOK(sc[i], NamesOf(s.menus))
    BY DEF DraftOK, ClientsOK, Range
  <2>3. NamesOf(s.menus) \subseteq Range(MenuNames(s))
    BY DEF NamesOf, MenuNames, Field, Range
  <2> QED
    BY <2>1, <2>2, <2>3 DEF ClientOK
<1> HIDE DEF p
<1>4. Mergeable(p) <=> /\ IsInjective(MenuNames(s))
                       /\ IsInjective([i \in DOMAIN sc |-> ParseMAC[sc[i].mac]])
  BY <1>1, <1>2, <1>3 DEF Mergeable
<1> QED
  BY <1>4 DEF NamesOnce, p

\* What is read is a configuration.
LEMMA ReadType == ASSUME NEW s \in WizardState PROVE ReadConfig(s) \in FullConfig
<1>1. \A S : \A x \in Optional(S) : \A zero \in S : OrZero(x, zero) \in S
  BY DEF OrZero, Optional
<1>2. /\ IfUsed(DHCPOf(s.dhcp)) \in Optional(DHCP(BOOLEAN))
      /\ IfUsed(TFTPOf(s.tftp)) \in Optional(TFTP(BOOLEAN, Word))
      /\ IfUsed(HTTPOf(s.http)) \in Optional(HTTP(BOOLEAN, Word))
      /\ HealthOf \in Health(BOOLEAN, Word) /\ LoaderOf(s) \in Bootloader
      /\ FileServer(s) \in Server
      /\ WrittenMenus(s) \in Seq(MenuEntry(MenuType))
      /\ ClientsOf(s) \in Seq(Client(MAC, BOOLEAN))
  <2>1. FileOf(s).server = FileServer(s) /\ FileOf(s).menu = WrittenMenus(s)
    BY DEF FileOf
  <2>2. FileOf(s).server \in Server /\ FileOf(s).menu \in Seq(MenuEntry(MenuType))
    BY WrittenTypes
  <2> QED
    BY <2>1, <2>2, SectionTypes, IfUsedOr
<1>3. OrZero(IfUsed(DHCPOf(s.dhcp)), NoDHCP) \in DHCP(BOOLEAN)
  BY <1>1, <1>2, ZeroTypes
<1>4. OrZero(IfUsed(TFTPOf(s.tftp)), NoTFTP) \in TFTP(BOOLEAN, Word)
  BY <1>1, <1>2, ZeroTypes
<1>5. OrZero(IfUsed(HTTPOf(s.http)), NoHTTP) \in HTTP(BOOLEAN, Word)
  BY <1>1, <1>2, ZeroTypes
<1> QED
  BY <1>2, <1>3, <1>4, <1>5, ConfigMake DEF ReadConfig

\* LoadDir of a written draft.
LEMMA LoadWritten ==
  ASSUME TypeOK, SingleFile, NEW s \in WizardState, DraftOK(s), dir[Main] = FileOf(s)
  PROVE  LoadDir(dir) = IF NamesOnce(s)
                        THEN [ReadConfig(s) EXCEPT !.server.dir = resolvePaths(@)]
                        ELSE Rejected
<1> DEFINE w == FileOf(s)
           p == parseFile(w)
           cfg == merge(<<p>>)
<1>1. w \in rawFile /\ ~Malformed(w)
  BY WrittenRaw, ReadBack
<1>2. LoadDir(dir) = IF cfg = Rejected THEN Rejected
                     ELSE [cfg EXCEPT !.server.dir = resolvePaths(@)]
  BY <1>1, LoadOne
<1>3. /\ p.server = FileServer(s) /\ p.dhcp = IfUsed(DHCPOf(s.dhcp))
      /\ p.tftp = IfUsed(TFTPOf(s.tftp)) /\ p.http = IfUsed(HTTPOf(s.http))
      /\ p.health = HealthOf /\ p.bootloader = LoaderOf(s)
      /\ p.menu = WrittenMenus(s) /\ p.client = ClientsOf(s)
  BY ReadBack
<1>4. Mergeable(p) <=> NamesOnce(s)
  BY MergeableBack
<1>5. p.server # Absent /\ HealthOf # Absent /\ LoaderOf(s) # Absent
  <2>1. FileOf(s).server \in Server /\ HealthOf \in Health(BOOLEAN, Word) /\ LoaderOf(s) \in Bootloader
    BY WrittenTypes, SectionTypes
  <2>2. FileOf(s).server = FileServer(s)
    BY DEF FileOf
  <2> QED
    BY <1>3, <2>1, <2>2, NotAbsent
<1> HIDE DEF p, w
<1>6. cfg = IF Mergeable(p) THEN Config(p) ELSE Rejected
  BY <1>5, MergeOne
<1>7. OrZero(HealthOf, NoHealth) = HealthOf /\ OrZero(LoaderOf(s), NoLoader) = LoaderOf(s)
  BY <1>5 DEF OrZero
<1>8. Config(p) = ReadConfig(s)
  BY <1>3, <1>7, Zenon DEF Config, ReadConfig
<1>9. ReadConfig(s) # Rejected
  BY ReadType, ValueAssumption
<1> HIDE DEF cfg
<1> QED
  BY <1>2, <1>4, <1>6, <1>8, <1>9

\* The configuration that was read, field by field.
LEMMA ReadFields ==
  ASSUME NEW s
  PROVE  LET c == [ReadConfig(s) EXCEPT !.server.dir = resolvePaths(@)]
         IN  /\ c.server.iface = s.iface /\ c.server.dir = resolvePaths(makeRelative(s.dir))
             /\ c.dhcp = OrZero(IfUsed(DHCPOf(s.dhcp)), NoDHCP)
             /\ c.tftp = OrZero(IfUsed(TFTPOf(s.tftp)), NoTFTP)
             /\ c.http = OrZero(IfUsed(HTTPOf(s.http)), NoHTTP)
             /\ c.bootloader = LoaderOf(s)
             /\ c.menus = WrittenMenus(s) /\ c.clients = ClientsOf(s)
<1> DEFINE r == ReadConfig(s)
           F == {"server", "dhcp", "tftp", "http", "health", "bootloader", "menus", "clients"}
<1>1. /\ r.server = FileServer(s)
      /\ r.dhcp = OrZero(IfUsed(DHCPOf(s.dhcp)), NoDHCP)
      /\ r.tftp = OrZero(IfUsed(TFTPOf(s.tftp)), NoTFTP)
      /\ r.http = OrZero(IfUsed(HTTPOf(s.http)), NoHTTP)
      /\ r.bootloader = LoaderOf(s)
      /\ r.menus = WrittenMenus(s) /\ r.clients = ClientsOf(s)
      /\ r = [x \in F |-> r[x]]
  BY DEF ReadConfig
<1>2. r.server.iface = s.iface /\ r.server.dir = makeRelative(s.dir) /\ {"iface", "dir"} \subseteq DOMAIN r.server
  <2>1. FileServer(s).iface = s.iface /\ FileServer(s).dir = makeRelative(s.dir)
        /\ {"iface", "dir"} \subseteq DOMAIN FileServer(s)
    BY DEF FileServer
  <2> QED
    BY <1>1, <2>1
<1> HIDE DEF r
<1> DEFINE c == [r EXCEPT !.server.dir = resolvePaths(@)]
<1>3. /\ c.server.iface = r.server.iface /\ c.server.dir = resolvePaths(r.server.dir)
      /\ c.dhcp = r.dhcp /\ c.tftp = r.tftp /\ c.http = r.http /\ c.bootloader = r.bootloader
      /\ c.menus = r.menus /\ c.clients = r.clients
  BY <1>1, <1>2
<1> HIDE DEF c
<1>4. c = [ReadConfig(s) EXCEPT !.server.dir = resolvePaths(@)]
  BY Zenon DEF c, r
<1> QED
  BY <1>1, <1>2, <1>3, <1>4

-----------------------------------------------------------------------------
(* What was written and read is written the same again.                    *)

\* The services of the draft, as ConfigToState makes them of a section.
PortPair == [enabled : BOOLEAN, port : Int, proxyPort : Int]
PairOf(y) == [enabled |-> y.enabled, port |-> y.port, proxyPort |-> y.proxyPort]
ServiceOf(y) == [enabled |-> y.enabled, port |-> y.port]

LEMMA PairSame ==
  ASSUME NEW x \in PortPair, NEW y \in PortPair, x.enabled = y.enabled, x.port = y.port,
         x.proxyPort = y.proxyPort
  PROVE  x = y
BY DEF PortPair

LEMMA ServiceSame ==
  ASSUME NEW x \in Service, NEW y \in Service, x.enabled = y.enabled, x.port = y.port
  PROVE  x = y
BY DEF Service

\* A section that is off is not asked about: it may lose its port.
LEMMA DHCPBack ==
  ASSUME NEW d \in PortPair
  PROVE  LET e == PairOf(OrZero(IfUsed(DHCPOf(d)), NoDHCP))
         IN  /\ IfUsed(DHCPOf(e)) = IfUsed(DHCPOf(d)) /\ e.enabled = d.enabled
             /\ d.enabled => e = d
<1> DEFINE x == DHCPOf(d)
           y == OrZero(IfUsed(x), NoDHCP)
           e == PairOf(y)
<1>1. d.enabled \in BOOLEAN /\ d.port \in Int /\ d.proxyPort \in Int
  BY DEF PortPair
<1>2. "" \in Word
  BY AnswerAssumption
<1>3. x.enabled = d.enabled /\ x.port = d.port /\ x.proxyPort = d.proxyPort /\ x \in DHCP(BOOLEAN)
  BY <1>1, <1>2 DEF DHCPOf, DHCP
<1>4. x # Absent
  BY <1>3, NotAbsent
<1> HIDE DEF x
<1>5. y = IF x.port > 0 \/ x.enabled THEN x ELSE NoDHCP
  BY <1>4, SectionBack
<1>6. e.enabled = y.enabled /\ e.port = y.port /\ e.proxyPort = y.proxyPort
  BY DEF PairOf
<1>7. CASE x.port > 0 \/ x.enabled
  <2>1. y = x
    BY <1>5, <1>7
  <2>2. e \in PortPair
    <3>1. e = [enabled |-> y.enabled, port |-> y.port, proxyPort |-> y.proxyPort]
      BY Zenon DEF PairOf
    <3> HIDE DEF e, y
    <3> QED
      BY <1>1, <1>3, <2>1, <3>1 DEF PortPair
  <2> HIDE DEF e, y
  <2>3. e = d
    BY <1>3, <1>6, <2>1, <2>2, PairSame
  <2>4. x = DHCPOf(d)
    BY Zenon DEF x
  <2>5. IfUsed(DHCPOf(e)) = IfUsed(x) /\ e.enabled = d.enabled /\ (d.enabled => e = d)
    BY <2>3, <2>4
  <2> QED
    BY <2>5 DEF e, y, x
<1>8. CASE ~(x.port > 0 \/ x.enabled)
  <2>1. y = NoDHCP
    BY <1>5, <1>8
  <2> HIDE DEF e, y
  <2>2. y.enabled = FALSE /\ y.port = 0
    BY <2>1 DEF NoDHCP
  <2>3. DHCPOf(e).enabled = FALSE /\ DHCPOf(e).port = 0
    BY <1>6, <2>2 DEF DHCPOf
  <2>4. IfUsed(DHCPOf(e)) = Absent
    BY <2>3 DEF IfUsed
  <2>5. IfUsed(x) = Absent
    BY <1>8 DEF IfUsed
  <2>6. d.enabled = FALSE /\ e.enabled = FALSE
    BY <1>1, <1>3, <1>6, <1>8, <2>2
  <2>7. IfUsed(DHCPOf(e)) = IfUsed(x) /\ e.enabled = d.enabled /\ (d.enabled => e = d)
    BY <2>4, <2>5, <2>6
  <2> QED
    BY <2>7 DEF e, y, x
<1> QED
  BY <1>7, <1>8

LEMMA TFTPBack ==
  ASSUME NEW d \in Service
  PROVE  LET e == ServiceOf(OrZero(IfUsed(TFTPOf(d)), NoTFTP))
         IN  /\ IfUsed(TFTPOf(e)) = IfUsed(TFTPOf(d)) /\ e.enabled = d.enabled
             /\ d.enabled => e = d
<1> DEFINE x == TFTPOf(d)
           y == OrZero(IfUsed(x), NoTFTP)
           e == ServiceOf(y)
<1>1. d.enabled \in BOOLEAN /\ d.port \in Int
  BY DEF Service
<1>2. "std" \in Word
  BY AnswerAssumption
<1>3. x.enabled = d.enabled /\ x.port = d.port /\ x \in TFTP(BOOLEAN, Word)
  BY <1>1, <1>2 DEF TFTPOf, TFTP
<1>4. x # Absent
  BY <1>3, NotAbsent
<1> HIDE DEF x
<1>5. y = IF x.port > 0 \/ x.enabled THEN x ELSE NoTFTP
  BY <1>4, SectionBack
<1>6. e.enabled = y.enabled /\ e.port = y.port
  BY DEF ServiceOf
<1>7. CASE x.port > 0 \/ x.enabled
  <2>1. y = x
    BY <1>5, <1>7
  <2>2. e \in Service
    <3>1. e = [enabled |-> y.enabled, port |-> y.port]
      BY Zenon DEF ServiceOf
    <3> HIDE DEF e, y
    <3> QED
      BY <1>1, <1>3, <2>1, <3>1 DEF Service
  <2> HIDE DEF e, y
  <2>3. e = d
    BY <1>3, <1>6, <2>1, <2>2, ServiceSame
  <2>4. x = TFTPOf(d)
    BY Zenon DEF x
  <2>5. IfUsed(TFTPOf(e)) = IfUsed(x) /\ e.enabled = d.enabled /\ (d.enabled => e = d)
    BY <2>3, <2>4
  <2> QED
    BY <2>5 DEF e, y, x
<1>8. CASE ~(x.port > 0 \/ x.enabled)
  <2>1. y = NoTFTP
    BY <1>5, <1>8
  <2> HIDE DEF e, y
  <2>2. y.enabled = FALSE /\ y.port = 0
    BY <2>1 DEF NoTFTP
  <2>3. TFTPOf(e).enabled = FALSE /\ TFTPOf(e).port = 0
    BY <1>6, <2>2 DEF TFTPOf
  <2>4. IfUsed(TFTPOf(e)) = Absent
    BY <2>3 DEF IfUsed
  <2>5. IfUsed(x) = Absent
    BY <1>8 DEF IfUsed
  <2>6. d.enabled = FALSE /\ e.enabled = FALSE
    BY <1>1, <1>3, <1>6, <1>8, <2>2
  <2>7. IfUsed(TFTPOf(e)) = IfUsed(x) /\ e.enabled = d.enabled /\ (d.enabled => e = d)
    BY <2>4, <2>5, <2>6
  <2> QED
    BY <2>7 DEF e, y, x
<1> QED
  BY <1>7, <1>8

LEMMA HTTPBack ==
  ASSUME NEW d \in Service
  PROVE  LET e == ServiceOf(OrZero(IfUsed(HTTPOf(d)), NoHTTP))
         IN  /\ IfUsed(HTTPOf(e)) = IfUsed(HTTPOf(d)) /\ e.enabled = d.enabled
             /\ d.enabled => e = d
<1> DEFINE x == HTTPOf(d)
           y == OrZero(IfUsed(x), NoHTTP)
           e == ServiceOf(y)
<1>1. d.enabled \in BOOLEAN /\ d.port \in Int
  BY DEF Service
<1>2. "std" \in Word /\ "" \in Word
  BY AnswerAssumption
<1>3. x.enabled = d.enabled /\ x.port = d.port /\ x \in HTTP(BOOLEAN, Word)
  BY <1>1, <1>2 DEF HTTPOf, HTTP
<1>4. x # Absent
  BY <1>3, NotAbsent
<1> HIDE DEF x
<1>5. y = IF x.port > 0 \/ x.enabled THEN x ELSE NoHTTP
  BY <1>4, SectionBack
<1>6. e.enabled = y.enabled /\ e.port = y.port
  BY DEF ServiceOf
<1>7. CASE x.port > 0 \/ x.enabled
  <2>1. y = x
    BY <1>5, <1>7
  <2>2. e \in Service
    <3>1. e = [enabled |-> y.enabled, port |-> y.port]
      BY Zenon DEF ServiceOf
    <3> HIDE DEF e, y
    <3> QED
      BY <1>1, <1>3, <2>1, <3>1 DEF Service
  <2> HIDE DEF e, y
  <2>3. e = d
    BY <1>3, <1>6, <2>1, <2>2, ServiceSame
  <2>4. x = HTTPOf(d)
    BY Zenon DEF x
  <2>5. IfUsed(HTTPOf(e)) = IfUsed(x) /\ e.enabled = d.enabled /\ (d.enabled => e = d)
    BY <2>3, <2>4
  <2> QED
    BY <2>5 DEF e, y, x
<1>8. CASE ~(x.port > 0 \/ x.enabled)
  <2>1. y = NoHTTP
    BY <1>5, <1>8
  <2> HIDE DEF e, y
  <2>2. y.enabled = FALSE /\ y.port = 0
    BY <2>1 DEF NoHTTP
  <2>3. HTTPOf(e).enabled = FALSE /\ HTTPOf(e).port = 0
    BY <1>6, <2>2 DEF HTTPOf
  <2>4. IfUsed(HTTPOf(e)) = Absent
    BY <2>3 DEF IfUsed
  <2>5. IfUsed(x) = Absent
    BY <1>8 DEF IfUsed
  <2>6. d.enabled = FALSE /\ e.enabled = FALSE
    BY <1>1, <1>3, <1>6, <1>8, <2>2
  <2>7. IfUsed(HTTPOf(e)) = IfUsed(x) /\ e.enabled = d.enabled /\ (d.enabled => e = d)
    BY <2>4, <2>5, <2>6
  <2> QED
    BY <2>7 DEF e, y, x
<1> QED
  BY <1>7, <1>8

\* A data_dir comes back, as an absolute path to the same place.
LEMMA DirBack ==
  ASSUME NEW d \in DirName
  PROVE  /\ makeRelative(resolvePaths(makeRelative(d))) = makeRelative(d)
         /\ resolvePaths(makeRelative(d)).place = d.place
<1> DEFINE r == makeRelative(d)
           a == resolvePaths(r)
<1>0. \A x \in DirName, y \in DirName : x.place = y.place /\ x.rel = y.rel => x = y
  BY DEF DirName
<1>1. r \in DirName /\ r.place = d.place /\ r.rel = TRUE
  <2>1. CASE d = NoDir
    <3>1. r = d /\ d.rel = TRUE
      BY <2>1 DEF makeRelative, NoDir
    <3> QED
      BY <3>1
  <2>2. CASE d # NoDir
    <3>1. r = [d EXCEPT !.rel = TRUE]
      BY <2>2 DEF makeRelative
    <3> HIDE DEF r
    <3> QED
      BY <3>1 DEF DirName
  <2> QED
    BY <2>1, <2>2
<1> HIDE DEF r
<1>2. a \in DirName /\ a.place = r.place
  BY <1>1 DEF resolvePaths, DirName, NoDir
<1>3. CASE r = NoDir
  <2>1. a = r
    BY <1>3 DEF resolvePaths
  <2>2. makeRelative(r) = r
    BY <1>3 DEF makeRelative
  <2> HIDE DEF a
  <2>3. makeRelative(a) = r /\ a.place = d.place
    BY <1>1, <2>1, <2>2
  <2> QED
    BY <2>3 DEF a, r
<1>4. CASE r # NoDir
  <2>1. a.rel = FALSE
    BY <1>1, <1>4 DEF resolvePaths, DirName
  <2> HIDE DEF a
  <2>2. a # NoDir
    <3>1. NoDir.rel = TRUE
      BY DEF NoDir
    <3> QED
      BY <2>1, <3>1
  <2>3. makeRelative(a) \in DirName /\ makeRelative(a).place = a.place /\ makeRelative(a).rel = TRUE
    BY <1>2, <2>2 DEF makeRelative, DirName
  <2>4. makeRelative(a) = r
    BY <1>0, <1>1, <1>2, <2>3
  <2>5. makeRelative(a) = r /\ a.place = d.place
    BY <1>1, <1>2, <2>4
  <2> QED
    BY <2>5 DEF a, r
<1> QED
  BY <1>3, <1>4

\* A client comes back with its MAC in the spelling of the writer.
LEMMA DraftClientBack ==
  ASSUME NEW c \in ClientState
  PROVE  LET b == DraftOfClient(DraftClient(c))
         IN  /\ DraftClient(b) = DraftClient(c)
             /\ [b EXCEPT !.mac = ParseMAC[@]] = [c EXCEPT !.mac = ParseMAC[@]]
<1> DEFINE mac == ParseMAC[c.mac]
           d == DraftClient(c)
           b == DraftOfClient(d)
           F == {"mac", "entries", "default"}
           x == [b EXCEPT !.mac = ParseMAC[@]]
           y == [c EXCEPT !.mac = ParseMAC[@]]
<1>1. c.mac \in DOMAIN ParseMAC /\ mac # Garbage /\ c = [f \in F |-> c[f]]
  BY DEF ClientState
<1>2. ParseMAC[Text(mac)] = mac
  BY <1>1, MACBack
<1>3. d.mac = mac /\ d.entries = c.entries /\ d.default = c.default
  BY DEF DraftClient
<1> HIDE DEF d, mac
<1>4. /\ b = [f \in F |-> b[f]]
      /\ b.mac = Text(d.mac) /\ b.entries = d.entries /\ b.default = d.default
  BY DEF DraftOfClient
<1> HIDE DEF b
<1>5. ParseMAC[b.mac] = mac /\ b.entries = c.entries /\ b.default = c.default
  BY <1>2, <1>3, <1>4
<1>6. ParseMAC[c.mac] = mac
  BY DEF mac
<1>7. DraftClient(b) = DraftClient(c)
  BY <1>5, <1>6, Zenon DEF DraftClient
<1>8. x = [f \in F |-> x[f]] /\ x.mac = mac /\ x.entries = c.entries /\ x.default = c.default
  BY <1>4, <1>5
<1>9. y = [f \in F |-> y[f]] /\ y.mac = mac /\ y.entries = c.entries /\ y.default = c.default
  BY <1>1, <1>6
<1>10. x = y
  <2>1. \A f \in F : x[f] = y[f]
    BY <1>8, <1>9
  <2> HIDE DEF x, y, F
  <2> QED
    BY <1>8, <1>9, <2>1
<1>11. DraftClient(b) = DraftClient(c)
       /\ [b EXCEPT !.mac = ParseMAC[@]] = [c EXCEPT !.mac = ParseMAC[@]]
  BY <1>7, <1>10
<1> QED
  BY <1>11 DEF b, d

\* The draft of what was read, field by field.
LEMMA ReadDraft ==
  ASSUME NEW s \in WizardState, NEW c, c = [ReadConfig(s) EXCEPT !.server.dir = resolvePaths(@)]
  PROVE  LET t == ConfigToState(c)
         IN  /\ t.iface = s.iface /\ t.dir = resolvePaths(makeRelative(s.dir))
             /\ t.dhcp = PairOf(OrZero(IfUsed(DHCPOf(s.dhcp)), NoDHCP))
             /\ t.tftp = ServiceOf(OrZero(IfUsed(TFTPOf(s.tftp)), NoTFTP))
             /\ t.http = ServiceOf(OrZero(IfUsed(HTTPOf(s.http)), NoHTTP))
             /\ t.archs = s.archs /\ t.loaderDir = s.loaderDir
             /\ t.menus = [i \in DOMAIN s.menus |-> DraftMenu(rawMenu(Entry(s.menus[i])))]
             /\ t.clients = [i \in DOMAIN s.clients |-> DraftOfClient(DraftClient(s.clients[i]))]
<1> DEFINE t == ConfigToState(c)
           gm == WrittenMenus(s)
           gc == ClientsOf(s)
<1>1. /\ c.server.iface = s.iface /\ c.server.dir = resolvePaths(makeRelative(s.dir))
      /\ c.dhcp = OrZero(IfUsed(DHCPOf(s.dhcp)), NoDHCP)
      /\ c.tftp = OrZero(IfUsed(TFTPOf(s.tftp)), NoTFTP)
      /\ c.http = OrZero(IfUsed(HTTPOf(s.http)), NoHTTP)
      /\ c.bootloader = LoaderOf(s) /\ c.menus = gm /\ c.clients = gc
  BY ReadFields
<1>2. /\ t.iface = c.server.iface /\ t.dir = c.server.dir
      /\ t.dhcp = PairOf(c.dhcp) /\ t.tftp = ServiceOf(c.tftp) /\ t.http = ServiceOf(c.http)
      /\ t.archs = {a \in Arch : c.bootloader.files[a] # ""}
      /\ t.loaderDir = c.bootloader.dir
      /\ t.menus = [i \in DOMAIN c.menus |-> DraftMenu(c.menus[i])]
      /\ t.clients = [i \in DOMAIN c.clients |-> DraftOfClient(c.clients[i])]
  BY Zenon DEF ConfigToState, PairOf, ServiceOf, DraftMenu, DraftOfClient
<1> HIDE DEF t
<1>3. t.archs = s.archs /\ t.loaderDir = s.loaderDir
  <2>1. c.bootloader.dir = s.loaderDir /\ c.bootloader.files = FilesOf(s.archs)
    BY <1>1 DEF LoaderOf
  <2>2. \A a \in Arch : FilesOf(s.archs)[a] # "" <=> a \in s.archs
    BY DEF FilesOf
  <2>3. s.archs \subseteq Arch
    BY DraftFields
  <2>4. {a \in Arch : FilesOf(s.archs)[a] # ""} = s.archs
    BY <2>2, <2>3
  <2> QED
    BY <1>2, <2>1, <2>4
<1>4. t.menus = [i \in DOMAIN s.menus |-> DraftMenu(rawMenu(Entry(s.menus[i])))]
  <2>1. DOMAIN gm = DOMAIN s.menus /\ \A i \in DOMAIN s.menus : gm[i] = rawMenu(Entry(s.menus[i]))
    BY DEF WrittenMenus
  <2> HIDE DEF gm
  <2>2. [i \in DOMAIN gm |-> DraftMenu(gm[i])]
          = [i \in DOMAIN s.menus |-> DraftMenu(rawMenu(Entry(s.menus[i])))]
    BY <2>1
  <2> QED
    BY <1>1, <1>2, <2>2, Zenon
<1>5. t.clients = [i \in DOMAIN s.clients |-> DraftOfClient(DraftClient(s.clients[i]))]
  <2>1. DOMAIN gc = DOMAIN s.clients /\ \A i \in DOMAIN s.clients : gc[i] = DraftClient(s.clients[i])
    BY DEF ClientsOf
  <2> HIDE DEF gc
  <2>2. [i \in DOMAIN gc |-> DraftOfClient(gc[i])]
          = [i \in DOMAIN s.clients |-> DraftOfClient(DraftClient(s.clients[i]))]
    BY <2>1
  <2> QED
    BY <1>1, <1>2, <2>2, Zenon
<1> QED
  BY <1>1, <1>2, <1>3, <1>4, <1>5 DEF t

\* Edited again and saved, it is the same file.
LEMMA SameFile ==
  ASSUME NEW s \in WizardState, NEW c, c = [ReadConfig(s) EXCEPT !.server.dir = resolvePaths(@)]
  PROVE  FileOf(ConfigToState(c)) = FileOf(s)
<1> DEFINE t == ConfigToState(c)
           sm == s.menus
           sc == s.clients
<1>0. /\ s.dir \in DirName /\ s.dhcp \in PortPair /\ s.tftp \in Service /\ s.http \in Service
      /\ sm \in Seq(MenuState) /\ sc \in Seq(ClientState)
  BY DraftFields DEF PortPair
<1>1. /\ t.iface = s.iface /\ t.dir = resolvePaths(makeRelative(s.dir))
      /\ t.dhcp = PairOf(OrZero(IfUsed(DHCPOf(s.dhcp)), NoDHCP))
      /\ t.tftp = ServiceOf(OrZero(IfUsed(TFTPOf(s.tftp)), NoTFTP))
      /\ t.http = ServiceOf(OrZero(IfUsed(HTTPOf(s.http)), NoHTTP))
      /\ t.archs = s.archs /\ t.loaderDir = s.loaderDir
      /\ t.menus = [i \in DOMAIN sm |-> DraftMenu(rawMenu(Entry(sm[i])))]
      /\ t.clients = [i \in DOMAIN sc |-> DraftOfClient(DraftClient(sc[i]))]
  BY ReadDraft
<1>2. \A i \in DOMAIN sm : sm[i] \in MenuState
  <2> HIDE DEF sm
  <2> QED
    BY <1>0, ElementOfSeq
<1>3. \A i \in DOMAIN sc : sc[i] \in ClientState
  <2> HIDE DEF sc
  <2> QED
    BY <1>0, ElementOfSeq
<1> HIDE DEF t, sm, sc
<1>4. FileServer(t) = FileServer(s)
  <2>1. makeRelative(t.dir) = makeRelative(s.dir)
    BY <1>0, <1>1, DirBack
  <2> QED
    BY <1>1, <2>1, Zenon DEF FileServer
<1>5. /\ IfUsed(DHCPOf(t.dhcp)) = IfUsed(DHCPOf(s.dhcp))
      /\ IfUsed(TFTPOf(t.tftp)) = IfUsed(TFTPOf(s.tftp))
      /\ IfUsed(HTTPOf(t.http)) = IfUsed(HTTPOf(s.http))
  BY <1>0, <1>1, DHCPBack, TFTPBack, HTTPBack
<1>6. LoaderOf(t) = LoaderOf(s)
  BY <1>1, Zenon DEF LoaderOf
<1>7. WrittenMenus(t) = [i \in DOMAIN sm |-> rawMenu(Entry(sm[i]))]
  <2>1. DOMAIN t.menus = DOMAIN sm
        /\ \A i \in DOMAIN sm : t.menus[i] = DraftMenu(rawMenu(Entry(sm[i])))
    BY <1>1
  <2>2. \A m \in MenuState : rawMenu(Entry(DraftMenu(rawMenu(Entry(m))))) = rawMenu(Entry(m))
    BY MenuBack
  <2>3. \A i \in DOMAIN sm : rawMenu(Entry(t.menus[i])) = rawMenu(Entry(sm[i]))
    BY <1>2, <2>1, <2>2
  <2> QED
    BY <2>1, <2>3 DEF WrittenMenus
<1>8. WrittenClients(t) = [i \in DOMAIN sc |-> rawClient(DraftClient(sc[i]))]
  <2>1. DOMAIN t.clients = DOMAIN sc
        /\ \A i \in DOMAIN sc : t.clients[i] = DraftOfClient(DraftClient(sc[i]))
    BY <1>1
  <2>2. \A i \in DOMAIN sc : DraftClient(t.clients[i]) = DraftClient(sc[i])
    BY <1>3, <2>1, DraftClientBack
  <2> QED
    BY <2>1, <2>2 DEF WrittenClients
<1>9. WrittenMenus(t) = WrittenMenus(s) /\ WrittenClients(t) = WrittenClients(s)
  BY <1>7, <1>8, Zenon DEF WrittenMenus, WrittenClients, sm, sc
<1>10. FileOf(t) = FileOf(s)
  BY <1>4, <1>5, <1>6, <1>9, Zenon DEF FileOf
<1> QED
  BY <1>10 DEF t

\* Edited again, it boots the same.
LEMMA SameBoots ==
  ASSUME NEW s \in WizardState, NEW c, c = [ReadConfig(s) EXCEPT !.server.dir = resolvePaths(@)]
  PROVE  Boots(ConfigToState(c)) = Boots(s)
<1> DEFINE t == ConfigToState(c)
           sm == s.menus
           sc == s.clients
           Menus(x) == [i \in DOMAIN x.menus |-> rawMenu(Entry(x.menus[i]))]
           Clients(x) == [i \in DOMAIN x.clients |-> [x.clients[i] EXCEPT !.mac = ParseMAC[@]]]
<1>0. /\ s.dir \in DirName /\ s.dhcp \in PortPair /\ s.tftp \in Service /\ s.http \in Service
      /\ sm \in Seq(MenuState) /\ sc \in Seq(ClientState)
  BY DraftFields DEF PortPair
<1>1. /\ t.iface = s.iface /\ t.dir = resolvePaths(makeRelative(s.dir))
      /\ t.dhcp = PairOf(OrZero(IfUsed(DHCPOf(s.dhcp)), NoDHCP))
      /\ t.tftp = ServiceOf(OrZero(IfUsed(TFTPOf(s.tftp)), NoTFTP))
      /\ t.http = ServiceOf(OrZero(IfUsed(HTTPOf(s.http)), NoHTTP))
      /\ t.archs = s.archs
      /\ t.menus = [i \in DOMAIN sm |-> DraftMenu(rawMenu(Entry(sm[i])))]
      /\ t.clients = [i \in DOMAIN sc |-> DraftOfClient(DraftClient(sc[i]))]
  BY ReadDraft
<1>2. \A i \in DOMAIN sm : sm[i] \in MenuState
  <2> HIDE DEF sm
  <2> QED
    BY <1>0, ElementOfSeq
<1>3. \A i \in DOMAIN sc : sc[i] \in ClientState
  <2> HIDE DEF sc
  <2> QED
    BY <1>0, ElementOfSeq
<1>4. \A x : Boots(x) =
        [service |-> <<x.iface, x.dir.place, x.archs>>,
         on |-> <<x.dhcp.enabled, x.tftp.enabled, x.http.enabled>>,
         ports |-> <<IF x.dhcp.enabled THEN x.dhcp ELSE 0, IF x.tftp.enabled THEN x.tftp ELSE 0,
                     IF x.http.enabled THEN x.http ELSE 0>>,
         menus |-> Menus(x), clients |-> Clients(x)]
  BY Zenon DEF Boots
<1> HIDE DEF t, sm, sc
<1>5. t.dir.place = s.dir.place
  BY <1>0, <1>1, DirBack
<1>6. /\ t.dhcp.enabled = s.dhcp.enabled /\ (s.dhcp.enabled => t.dhcp = s.dhcp)
      /\ t.tftp.enabled = s.tftp.enabled /\ (s.tftp.enabled => t.tftp = s.tftp)
      /\ t.http.enabled = s.http.enabled /\ (s.http.enabled => t.http = s.http)
  BY <1>0, <1>1, DHCPBack, TFTPBack, HTTPBack
<1>7. /\ (IF t.dhcp.enabled THEN t.dhcp ELSE 0) = (IF s.dhcp.enabled THEN s.dhcp ELSE 0)
      /\ (IF t.tftp.enabled THEN t.tftp ELSE 0) = (IF s.tftp.enabled THEN s.tftp ELSE 0)
      /\ (IF t.http.enabled THEN t.http ELSE 0) = (IF s.http.enabled THEN s.http ELSE 0)
  BY <1>6
<1>8. Menus(t) = [i \in DOMAIN sm |-> rawMenu(Entry(sm[i]))]
  <2>1. DOMAIN t.menus = DOMAIN sm
        /\ \A i \in DOMAIN sm : t.menus[i] = DraftMenu(rawMenu(Entry(sm[i])))
    BY <1>1
  <2>2. \A m \in MenuState : rawMenu(Entry(DraftMenu(rawMenu(Entry(m))))) = rawMenu(Entry(m))
    BY MenuBack
  <2>3. \A i \in DOMAIN sm : rawMenu(Entry(t.menus[i])) = rawMenu(Entry(sm[i]))
    BY <1>2, <2>1, <2>2
  <2> QED
    BY <2>1, <2>3
<1>9. Clients(t) = [i \in DOMAIN sc |-> [sc[i] EXCEPT !.mac = ParseMAC[@]]]
  <2>1. DOMAIN t.clients = DOMAIN sc
        /\ \A i \in DOMAIN sc : t.clients[i] = DraftOfClient(DraftClient(sc[i]))
    BY <1>1
  <2> DEFINE Parsed1(x) == [x EXCEPT !.mac = ParseMAC[@]]
  <2>2. \A i \in DOMAIN sc : Parsed1(t.clients[i]) = Parsed1(sc[i])
    BY <1>3, <2>1, DraftClientBack
  <2>3. Clients(t) = [i \in DOMAIN t.clients |-> Parsed1(t.clients[i])]
    OBVIOUS
  <2>4. [i \in DOMAIN sc |-> [sc[i] EXCEPT !.mac = ParseMAC[@]]] = [i \in DOMAIN sc |-> Parsed1(sc[i])]
    OBVIOUS
  <2> HIDE DEF Parsed1, Clients
  <2> QED
    BY <2>1, <2>2, <2>3, <2>4
<1>10. Menus(t) = Menus(s) /\ Clients(t) = Clients(s)
  BY <1>8, <1>9, Zenon DEF sm, sc
<1> HIDE DEF Menus, Clients
<1>11. Boots(t) = Boots(s)
  BY <1>1, <1>4, <1>5, <1>6, <1>7, <1>10, Zenon
<1> QED
  BY <1>11 DEF t

-----------------------------------------------------------------------------
(* After a session that saved.                                             *)

\* What was saved last is what bootforge.toml was written with last.
SavedInv == saved # DefaultState => /\ good = configToRaw(StateToConfig(saved))
                                    /\ DraftOK(saved)
\* The inductive invariant of the round trip.
BackInv == TypeOK /\ DraftInv /\ SavedInv

\* Only bootforge.toml is written, and it is complete when a draft was saved.
LEMMA FileSteps ==
  ASSUME [Next]_vars
  PROVE  /\ dir' = dir \/ \E f : dir' = [dir EXCEPT ![Main] = f]
         /\ \/ UNCHANGED <<good, saved>>
            \/ /\ dir' = [dir EXCEPT ![Main] = configToRaw(StateToConfig(st))]
               /\ good' = dir'[Main] /\ saved' = st
<1>1. CASE runInit \/ runEdit \/ Quit \/ ChooseSection \/ Done \/ stepSummary \/ Save
  BY <1>1 DEF runInit, runEdit, Quit, ChooseSection, Done, stepSummary, Save, disk, history
<1>2. CASE Questions
  BY <1>2, QuestionAsks DEF Asks, disk, history
<1>3. CASE BackupTruncate \/ BackupWrite \/ WriteTruncate
  BY <1>3 DEF BackupTruncate, BackupWrite, WriteTruncate, history
<1>4. CASE WriteConfig
  <2> DEFINE raw == configToRaw(StateToConfig(st))
  <2>1. \/ /\ dir' = [dir EXCEPT ![Main] = raw]
           /\ good' = dir'[Main] /\ saved' = st /\ UNCHANGED failed
        \/ /\ \E part \in {EmptyFile, [raw EXCEPT !.menu = <<>>, !.client = <<>>]} :
                dir' = [dir EXCEPT ![Main] = part]
           /\ failed' = TRUE /\ UNCHANGED <<good, saved>>
    BY <1>4 DEF WriteConfig
  <2> HIDE DEF raw
  <2>2. /\ \E f : dir' = [dir EXCEPT ![Main] = f]
        /\ \/ UNCHANGED <<good, saved>>
           \/ dir' = [dir EXCEPT ![Main] = raw] /\ good' = dir'[Main] /\ saved' = st
    BY <2>1
  <2> QED
    BY <2>2 DEF raw
<1>5. CASE UNCHANGED vars
  BY <1>5 DEF vars, disk, history
<1> QED
  BY <1>1, <1>2, <1>3, <1>4, <1>5 DEF Next, Questions

\* Every step keeps it.
LEMMA BackStep == ASSUME BackInv, [Next]_vars PROVE BackInv'
<1>1. TypeOK' /\ DraftInv'
  BY StepType, DraftStep DEF BackInv
<1>2. /\ dir' = dir \/ \E f : dir' = [dir EXCEPT ![Main] = f]
      /\ \/ UNCHANGED <<good, saved>>
         \/ /\ dir' = [dir EXCEPT ![Main] = configToRaw(StateToConfig(st))]
            /\ good' = dir'[Main] /\ saved' = st
  BY FileSteps
<1>3. Main \in DOMAIN dir /\ Range(FileOrder) \subseteq DOMAIN dir
  <2> DEFINE names == DOMAIN dir
  <2>1. FileOrder \in Seq(names)
    BY DEF BackInv, TypeOK
  <2> HIDE DEF names
  <2>2. Range(FileOrder) \subseteq names
    BY <2>1, SliceOf
  <2> QED
    BY <2>2, DirAssumption DEF names
<1>5. SavedInv'
  <2>1. CASE UNCHANGED <<good, saved>>
    BY <2>1 DEF BackInv, SavedInv
  <2>2. CASE /\ dir' = [dir EXCEPT ![Main] = configToRaw(StateToConfig(st))]
             /\ good' = dir'[Main] /\ saved' = st
    <3> DEFINE raw == configToRaw(StateToConfig(st))
    <3>1. good' = dir'[Main] /\ dir' = [dir EXCEPT ![Main] = raw]
      BY <2>2
    <3> HIDE DEF raw
    <3>2. good' = raw
      BY <1>3, <3>1
    <3>3. DraftOK(st)
      BY DEF BackInv, DraftInv
    <3> QED
      BY <2>2, <3>2, <3>3 DEF SavedInv, raw
  <2> QED
    BY <1>2, <2>1, <2>2
<1> QED
  BY <1>1, <1>5 DEF BackInv

\* The directory after a session that saved.
LEMMA AfterSave ==
  ASSUME BackInv, SingleFile, Written
  PROVE  /\ LoadDir(dir) = IF NamesOnce(saved)
                           THEN [ReadConfig(saved) EXCEPT !.server.dir = resolvePaths(@)]
                           ELSE Rejected
         /\ good = FileOf(saved) /\ saved \in WizardState
<1>1. saved \in WizardState /\ DraftOK(saved) /\ good = configToRaw(StateToConfig(saved))
  BY DEF BackInv, TypeOK, SavedInv, Written
<1>2. good = FileOf(saved)
  BY <1>1, RawOf
<1>3. dir[Main] = FileOf(saved)
  BY <1>2 DEF Written
<1> QED
  BY <1>1, <1>2, <1>3, LoadWritten DEF BackInv

LEMMA BackSaved == ASSUME BackInv PROVE SavedComesBack
<1> SUFFICES ASSUME SingleFile, Written
             PROVE  LET cfg == LoadDir(dir)
                    IN  /\ NamesOnce(saved) => /\ cfg # Rejected
                                               /\ Boots(ConfigToState(cfg)) = Boots(saved)
                        /\ cfg # Rejected => configToRaw(StateToConfig(ConfigToState(cfg))) = good
  BY DEF SavedComesBack
<1> DEFINE cfg == LoadDir(dir)
           t == ConfigToState(cfg)
<1>1. /\ cfg = IF NamesOnce(saved)
               THEN [ReadConfig(saved) EXCEPT !.server.dir = resolvePaths(@)] ELSE Rejected
      /\ good = FileOf(saved) /\ saved \in WizardState
  BY AfterSave
<1>2. cfg # Rejected => t \in WizardState
  BY LoadedType, DraftType DEF BackInv, TypeOK, DirTyped
<1> HIDE DEF cfg
<1>3. CASE NamesOnce(saved)
  <2>1. cfg = [ReadConfig(saved) EXCEPT !.server.dir = resolvePaths(@)]
    BY <1>1, <1>3
  <2>2. FileOf(t) = good /\ Boots(t) = Boots(saved)
    BY <1>1, <2>1, SameFile, SameBoots
  <2>3. cfg # Rejected
    BY <1>1, <2>1, ReadType, ResolvedType, ValueAssumption
  <2>4. configToRaw(StateToConfig(t)) = FileOf(t)
    BY <1>2, <2>3, RawOf
  <2> QED
    BY <2>2, <2>3, <2>4 DEF cfg
<1>4. CASE ~NamesOnce(saved)
  <2>1. cfg = Rejected
    BY <1>1, <1>4
  <2> QED
    BY <1>4, <2>1 DEF cfg
<1> QED
  BY <1>3, <1>4

-----------------------------------------------------------------------------
(* What a process that dies leaves behind, and what a server loads.        *)

\* The last complete bootforge.toml is not in that file alone.
Kept == good \in {Absent, backup}
\* The directory loads with an empty bootforge.toml too, but not with the last complete
\* one.
Useless == /\ good # Absent /\ LoadDir([dir EXCEPT ![Main] = good]) = Rejected
           /\ LoadDir([dir EXCEPT ![Main] = EmptyFile]) # Rejected

\* init asks for a summary, and starts without bootforge.toml.
WhereInit == /\ pc = "summary" => init
             /\ Asking /\ init => dir[Main] = Absent
\* Without a failed write, bootforge.toml is complete or was emptied; it is complete
\* while questions are asked, since edit does not start on one that does not load,
\* unless there was nothing to complete; and it is emptied only when there is a copy or
\* nothing to lose.  What cannot be loaded is not edited.
FileInv ==
  /\ dir[Main] \in {good, EmptyFile}
  /\ Asking => dir[Main] = good \/ good = Absent
  /\ dir[Main] = good \/ Kept
  /\ pc \in {"truncate", "write"} => Kept
  /\ Useless => pc = "off" /\ dir[Main] = good
IsDir == Main \in DOMAIN dir /\ dir = [f \in DOMAIN dir |-> dir[f]]
Inv == IsDir /\ WhereInit /\ (failed \/ EmptiedLoads \/ FileInv)

LEMMA InitInv == Init => Inv
<1> SUFFICES ASSUME Init PROVE Inv
  OBVIOUS
<1>1. IsDir
  BY MainThere DEF Init, IsDir
<1>2. WhereInit /\ FileInv
  BY DEF Init, WhereInit, FileInv, Asking, Kept
<1> QED
  BY <1>1, <1>2 DEF Inv

\* Writing bootforge.toml changes nothing else.
LEMMA MainChanges ==
  ASSUME IsDir, NEW f, dir' = [dir EXCEPT ![Main] = f]
  PROVE  /\ IsDir' /\ dir'[Main] = f
         /\ \A g : [dir' EXCEPT ![Main] = g] = [dir EXCEPT ![Main] = g]
BY DEF IsDir

\* What does not depend on bootforge.toml changes with the last complete one only.
LEMMA SameRest ==
  ASSUME IsDir, good' = good, dir' = dir \/ \E f : dir' = [dir EXCEPT ![Main] = f]
  PROVE  IsDir' /\ (EmptiedLoads' <=> EmptiedLoads) /\ (Useless' <=> Useless)
<1>1. IsDir' /\ \A g : [dir' EXCEPT ![Main] = g] = [dir EXCEPT ![Main] = g]
  BY MainChanges DEF IsDir
<1>2. /\ [dir' EXCEPT ![Main] = good'] = [dir EXCEPT ![Main] = good]
      /\ [dir' EXCEPT ![Main] = EmptyFile] = [dir EXCEPT ![Main] = EmptyFile]
  BY <1>1
<1> QED
  BY <1>1, <1>2 DEF EmptiedLoads, Useless

\* Edit starts on a complete file, or there is none yet.
LEMMA EditStarts ==
  ASSUME IsDir, FileInv, ~EmptiedLoads, LoadDir(dir) # Rejected
  PROVE  ~Useless /\ (dir[Main] = good \/ good = Absent)
<1>1. ASSUME NEW f, dir[Main] = f PROVE [dir EXCEPT ![Main] = f] = dir
  BY <1>1 DEF IsDir
<1>2. ~Useless
  BY <1>1 DEF FileInv, Useless
<1>3. CASE dir[Main] = EmptyFile
  BY <1>1, <1>2, <1>3 DEF EmptiedLoads, Useless
<1> QED
  BY <1>2, <1>3 DEF FileInv

\* What WriteConfig leaves is complete, or a write has failed.
LEMMA WriteComplete ==
  ASSUME WriteConfig, IsDir
  PROVE  \E f : dir' = [dir EXCEPT ![Main] = f] /\ (failed' \/ f = good')
<1> DEFINE raw == configToRaw(StateToConfig(st))
<1>1. \/ dir' = [dir EXCEPT ![Main] = raw] /\ good' = dir'[Main]
      \/ /\ \E part \in {EmptyFile, [raw EXCEPT !.menu = <<>>, !.client = <<>>]} :
                dir' = [dir EXCEPT ![Main] = part]
         /\ failed'
  BY DEF WriteConfig
<1> HIDE DEF raw
<1> QED
  BY <1>1, MainChanges

\* Nothing else completes the file, and what has failed stays so.
LEMMA OnlyWriteConfig ==
  ASSUME [Next]_vars, ~WriteConfig
  PROVE  good' = good /\ (failed => failed')
<1>1. CASE Questions
  BY <1>1, QuestionAsks DEF Asks, history
<1> QED
  BY <1>1 DEF Next, Questions, runInit, runEdit, Quit, ChooseSection, Done, stepSummary,
     Save, BackupTruncate, BackupWrite, WriteTruncate, vars, history

\* Choosing, answering and finishing go on asking.
LEMMA GoesOn ==
  ASSUME ChooseSection \/ Done \/ Questions
  PROVE  Asks
<1>1. CASE ChooseSection
  BY <1>1 DEF ChooseSection, Asks, Asking, Prompts
<1>2. CASE Done
  <2>1. pc' \in Prompts /\ (pc' = "summary" => init)
    BY <1>2, AfterAsks DEF Done
  <2> QED
    BY <1>2, <2>1 DEF Done, Asks, Asking, Prompts
<1> QED
  BY <1>1, <1>2, QuestionAsks

LEMMA WhereStep ==
  ASSUME WhereInit, IsDir, [Next]_vars, ~WriteConfig
  PROVE  WhereInit'
<1>1. CASE ChooseSection \/ Done \/ Questions
  BY <1>1, GoesOn DEF Asks, WhereInit, disk
<1>2. CASE runInit \/ runEdit \/ Quit
  BY <1>2 DEF runInit, runEdit, Quit, WhereInit, Asking, disk
<1>3. CASE stepSummary \/ Save \/ BackupTruncate \/ BackupWrite
  BY <1>3 DEF stepSummary, Save, BackupTruncate, BackupWrite, WhereInit, Asking, disk
<1>4. CASE WriteTruncate
  BY <1>4 DEF WriteTruncate, WhereInit, Asking
<1>5. CASE UNCHANGED vars
  BY <1>5 DEF vars, disk, WhereInit, Asking
<1> QED
  BY <1>1, <1>2, <1>3, <1>4, <1>5 DEF Next, Questions

LEMMA FileStep ==
  ASSUME FileInv, WhereInit, IsDir, ~EmptiedLoads, [Next]_vars, ~WriteConfig, ~failed',
         good' = good, Useless' <=> Useless
  PROVE  FileInv'
<1>1. CASE ChooseSection \/ Done \/ Questions
  <2>1. Asks
    BY <1>1, GoesOn
  <2> QED
    BY <2>1 DEF Asks, FileInv, Kept, Asking, disk, Prompts
<1>2. CASE runInit
  <2>1. Absent # EmptyFile
    BY EmptyRaw, ValueAssumption
  <2>2. good = Absent /\ dir' = dir /\ pc' = "server"
    BY <1>2, <2>1 DEF runInit, FileInv, Kept, disk
  <2>3. ~Useless
    BY <2>2 DEF Useless
  <2> QED
    BY <1>2, <2>2, <2>3 DEF runInit, FileInv, Kept, disk
<1>3. CASE runEdit
  <2>1. ~Useless /\ (dir[Main] = good \/ good = Absent)
    BY <1>3, EditStarts DEF runEdit
  <2> QED
    BY <1>3, <2>1 DEF runEdit, FileInv, Kept, disk
<1>4. CASE Quit
  BY <1>4 DEF Quit, FileInv, Kept, Asking, disk
<1>5. CASE stepSummary
  BY <1>5 DEF stepSummary, WhereInit, FileInv, Kept, Asking, disk
<1>6. CASE Save
  BY <1>6 DEF Save, FileInv, Kept, Asking, disk
<1>7. CASE BackupTruncate
  BY <1>7 DEF BackupTruncate, FileInv, Kept, Asking
<1>8. CASE BackupWrite
  BY <1>8 DEF BackupWrite, FileInv, Kept, Asking
<1>9. CASE WriteTruncate
  <2>1. dir'[Main] = EmptyFile
    BY <1>9, MainChanges DEF WriteTruncate
  <2> QED
    BY <1>9, <2>1 DEF WriteTruncate, FileInv, Kept, Asking
<1>10. CASE UNCHANGED vars
  BY <1>10 DEF vars, disk, FileInv, Kept, Asking
<1> QED
  BY <1>1, <1>2, <1>3, <1>4, <1>5, <1>6, <1>7, <1>8, <1>9, <1>10 DEF Next, Questions

LEMMA StepInv == ASSUME Inv, [Next]_vars PROVE Inv'
<1>1. CASE WriteConfig
  <2>1. PICK f : dir' = [dir EXCEPT ![Main] = f] /\ (failed' \/ f = good')
    BY <1>1, WriteComplete DEF Inv
  <2>2. IsDir' /\ dir'[Main] = f
    BY <2>1, MainChanges DEF Inv
  <2>3. pc' = "off"
    BY <1>1 DEF WriteConfig
  <2> QED
    BY <2>1, <2>2, <2>3 DEF Inv, WhereInit, FileInv, Kept, Asking
<1>2. CASE ~WriteConfig
  <2>1. good' = good /\ (dir' = dir \/ \E f : dir' = [dir EXCEPT ![Main] = f])
    BY <1>2, OnlyWriteConfig, FileSteps
  <2>2. IsDir' /\ (EmptiedLoads' <=> EmptiedLoads) /\ (Useless' <=> Useless)
    BY <2>1, SameRest DEF Inv
  <2>3. WhereInit'
    BY <1>2, WhereStep DEF Inv
  <2>4. ASSUME ~failed', ~EmptiedLoads PROVE FileInv'
    <3>1. ~failed /\ FileInv
      BY <1>2, <2>4, OnlyWriteConfig DEF Inv
    <3> QED
      BY <1>2, <2>1, <2>2, <2>4, <3>1, FileStep DEF Inv
  <2> QED
    BY <2>2, <2>3, <2>4 DEF Inv
<1> QED
  BY <1>1, <1>2

LEMMA InvAlways == Spec => []Inv
BY InitInv, StepInv, PTL DEF Spec

-----------------------------------------------------------------------------
(* Theorems.                                                               *)

\* Every draft, every file and every state saved has the type the code declares for it:
\* no answer leads to a WizardState that WriteConfig cannot write or ParseMAC refuses.
THEOREM TypeCorrect == Spec => []TypeOK
<1>1. TypeOK /\ [Next]_vars => TypeOK'
  BY StepType
<1> QED
  BY <1>1, InitType, PTL DEF Spec

\* Wherever the wizard dies, bootforge.toml or its backup is the last complete one,
\* whatever file has [server], unless the directory loads with bootforge.toml emptied.
THEOREM NothingLost == Spec => []LastGoodKept
<1>1. Inv => LastGoodKept
  BY DEF Inv, FileInv, Kept, LastGoodKept
<1> QED
  BY <1>1, InvAlways, PTL

\* A server that loads the directory while the wizard writes gets the last complete
\* configuration or an error, whatever file has [server], unless the directory loads
\* with bootforge.toml emptied.
THEOREM NothingHalf == Spec => []LoadsWhole
<1>1. ASSUME Inv PROVE LoadsWhole
  <2>1. CASE failed \/ EmptiedLoads
    BY <2>1 DEF LoadsWhole
  <2>2. ASSUME NEW f, dir[Main] = f PROVE dir = [dir EXCEPT ![Main] = f]
    BY <1>1, <2>2 DEF Inv, IsDir
  <2>3. CASE dir[Main] \in Complete
    BY <2>2, <2>3 DEF LoadsWhole
  <2>4. CASE ~failed /\ ~EmptiedLoads /\ dir[Main] = EmptyFile /\ good # Absent /\ dir[Main] # good
    <3>1. ~Useless
      BY <1>1, <2>4 DEF Inv, FileInv
    <3>2. LoadDir(dir) = Rejected
      BY <2>2, <2>4, <3>1 DEF Useless, EmptiedLoads
    <3> QED
      BY <3>2 DEF ServerLoads, LoadsWhole
  <2> QED
    BY <1>1, <2>1, <2>3, <2>4 DEF Inv, FileInv, Complete
<1> QED
  BY <1>1, InvAlways, PTL

\* No client of the draft refers to an entry that is not there.
THEOREM ReferencesHold == Spec => []EntriesRefer
<1>1. DraftInv => EntriesRefer
  <2> SUFFICES ASSUME DraftInv, NEW i \in DOMAIN st.clients
               PROVE  Range(st.clients[i].entries) \subseteq Range(MenuNames(st))
    BY DEF EntriesRefer
  <2>1. ClientOK(st.clients[i], NamesOf(st.menus))
    BY DEF DraftInv, DraftOK, ClientsOK, Range
  <2> QED
    BY <2>1, MenuNamesOf DEF DraftInv, ClientOK
<1>2. DraftInv /\ [Next]_vars => DraftInv'
  BY DraftStep
<1> QED
  BY <1>1, <1>2, InitDraft, PTL DEF Spec

\* A directory with bootforge.toml alone: after a session that saved, LoadDir accepts it
\* unless a menu or a machine is there twice; what edit starts with then boots every
\* machine the way the saved draft did, and saving it again writes the same file.
THEOREM SavedIsRead == Spec => []SavedComesBack
<1>1. Init => BackInv
  BY InitType, InitDraft DEF BackInv, SavedInv, Init
<1>2. BackInv /\ [Next]_vars => BackInv'
  BY BackStep
<1>3. BackInv => SavedComesBack
  BY BackSaved
<1> QED
  BY <1>1, <1>2, <1>3, PTL DEF Spec

\* README.md:331 holds of it: edit saves what can be loaded.  It does not hold of a
\* directory that was split by concern.
THEOREM EditLoads == Spec => [](SingleFile => EditKeepsLoadable)
<1>1. SavedComesBack => (SingleFile => EditKeepsLoadable)
  BY DEF SavedComesBack, EditKeepsLoadable
<1> QED
  BY <1>1, SavedIsRead, PTL
=============================================================================
