--------------------------- MODULE LogBuffer_proofs ---------------------------
(***************************************************************************)
(* Proofs about LogBuffer, for a ring of any size and any entries: the     *)
(* slots a reader sees have been written, Recent answers with the newest   *)
(* entries, and the ring is a log of the last entries.                     *)
(***************************************************************************)
EXTENDS LogBuffer, SequenceTheorems, WellFoundedInduction, TLAPS

-----------------------------------------------------------------------------
(* Induction, for the loops that are recursive functions.                  *)

\* The order of the naturals, as a set of pairs, has no infinite descent.
Less == {pair \in Nat \X Nat : pair[1] < pair[2]}
LEMMA LessWF == IsWellFoundedOn(Less, Nat)
<1>1. OpToRel(<, Nat) = Less
  BY DEF OpToRel, Less
<1> QED
  BY <1>1, NatLessThanWellFounded, Zenon

\* Induction over a set: the predicate of an induction is the set of the
\* naturals that have it, and a least natural outside cannot exist.
LEMMA Induction ==
  ASSUME NEW T, 0 \in T, \A n \in Nat : n \in T => n + 1 \in T
  PROVE  Nat \subseteq T
<1> DEFINE rest == Nat \ T
<1>1. SUFFICES ASSUME rest # {} PROVE FALSE
  OBVIOUS
<1>2. PICK x \in rest : \A y \in rest : <<y, x>> \notin Less
  <2>1. rest \subseteq Nat
    OBVIOUS
  <2> HIDE DEF rest
  <2> QED
    BY <1>1, <2>1, LessWF, WFMin
<1>3. x \in Nat /\ x # 0
  BY <1>2
<1>4. x - 1 \in Nat /\ <<x - 1, x>> \in Less
  BY <1>3 DEF Less
<1> QED
  BY <1>2, <1>3, <1>4

\* g is a run of a loop of n rounds that starts with c; step[i] is round i.
LoopRun(g, n, S, c, step) ==
  /\ g \in [0..n -> S]
  /\ g[0] = c
  /\ \A i \in 1..n : g[i] = step[i][g[i-1]]

\* Every loop has a run.
LEMMA LoopRuns ==
  ASSUME NEW n \in Nat, NEW S, NEW c \in S, NEW step \in [1..n -> [S -> S]]
  PROVE  \E g : LoopRun(g, n, S, c, step)
<1> DEFINE T == {m \in Nat : m <= n => \E g : LoopRun(g, m, S, c, step)}
<1>1. 0 \in T
  <2>1. LoopRun([i \in 0..0 |-> c], 0, S, c, step)
    BY DEF LoopRun
  <2> QED
    BY <2>1
<1>2. ASSUME NEW m \in Nat, m \in T PROVE m + 1 \in T
  <2> SUFFICES ASSUME m + 1 <= n PROVE \E h : LoopRun(h, m + 1, S, c, step)
    OBVIOUS
  <2>1. PICK g : LoopRun(g, m, S, c, step)
    BY <1>2
  <2> DEFINE h == [i \in 0..m+1 |-> IF i <= m THEN g[i] ELSE step[m + 1][g[m]]]
  <2>2. g[m] \in S /\ step[m + 1] \in [S -> S]
    BY <2>1 DEF LoopRun
  <2>3. h \in [0..m+1 -> S] /\ h[0] = c
    BY <2>1, <2>2 DEF LoopRun
  <2>4. ASSUME NEW i \in 1..m+1 PROVE h[i] = step[i][h[i-1]]
    <3>1. h[i-1] = g[i-1]
      OBVIOUS
    <3>2. CASE i <= m
      BY <2>1, <3>1, <3>2 DEF LoopRun
    <3>3. CASE i = m + 1
      BY <3>1, <3>3
    <3> QED
      BY <3>2, <3>3
  <2>5. LoopRun(h, m + 1, S, c, step)
    BY <2>3, <2>4 DEF LoopRun
  <2> QED
    BY <2>5
<1>3. n \in T
  <2> HIDE DEF T
  <2> QED
    BY <1>1, <1>2, Induction
<1> QED
  BY <1>3

-----------------------------------------------------------------------------
(* The index arithmetic.                                                   *)

LEMMA SizeType == size \in Nat /\ size > 0
<1>1. Requested \in Int
  BY LogAssumption
<1> QED
  BY <1>1 DEF size

\* The index arithmetic of the ring: positions wrap once at most.
LEMMA Wrap ==
  ASSUME NEW n \in Nat, n > 0, NEW a \in Int, 0 <= a, a < 2 * n
  PROVE  a % n = IF a < n THEN a ELSE a - n
OBVIOUS

LEMMA EntryType ==
  ASSUME NEW s \in Service, NEW l \in Level, NEW x \in MAC \cup {None},
         NEW y \in MAC \cup {None}
  PROVE  [mac |-> LastMAC(x, y), service |-> s, level |-> l] \in Entry
BY DEF Entry, LastMAC

-----------------------------------------------------------------------------
(* Type correctness, with the ring invariant.                              *)

LEMMA InitRing == Init => RingInv
<1> SUFFICES ASSUME Init PROVE RingInv
  OBVIOUS
<1> USE SizeType
<1>1. TypeOK
  BY DEF Init, TypeOK
<1> QED
  BY <1>1 DEF Init, RingInv

\* Add by its effect: where the position and the count go.
LEMMA AddEffect ==
  ASSUME RingInv, NEW e \in Entry, Add(e)
  PROVE  /\ entries' = [entries EXCEPT ![pos] = e]
         /\ pos' = IF pos + 1 < size THEN pos + 1 ELSE 0
         /\ count' = IF count < size THEN count + 1 ELSE count
         /\ TypeOK'
<1> USE SizeType
<1>1. (pos + 1) % size = IF pos + 1 < size THEN pos + 1 ELSE pos + 1 - size
  BY Wrap DEF RingInv, TypeOK
<1>2. pos' = IF pos + 1 < size THEN pos + 1 ELSE 0
  BY <1>1 DEF Add, RingInv, TypeOK
<1>3. entries' \in [0..size-1 -> Entry \cup {ZeroEntry}]
  BY DEF Add, RingInv, TypeOK
<1>4. pos' \in 0..size-1 /\ count' \in 0..size
  BY <1>2 DEF Add, RingInv, TypeOK
<1> QED
  BY <1>2, <1>3, <1>4 DEF Add, TypeOK

LEMMA AddRing ==
  ASSUME RingInv, NEW e \in Entry, Add(e)
  PROVE  RingInv'
<1> USE SizeType
<1>1. count' < size => pos' = count'
  BY AddEffect DEF RingInv, TypeOK
<1>2. ASSUME NEW i \in 0..size-1, count' = size \/ i < count'
      PROVE  entries'[i] \in Entry
  <2>1. i = pos \/ (count = size \/ i < count)
    BY <1>2, AddEffect DEF RingInv, TypeOK
  <2>2. entries'[i] = IF i = pos THEN e ELSE entries[i]
    BY <1>2, AddEffect DEF RingInv, TypeOK
  <2> QED
    BY <1>2, <2>1, <2>2 DEF RingInv
<1> QED
  BY <1>1, <1>2, AddEffect DEF RingInv

LEMMA StepRing == RingInv /\ [Next]_vars => RingInv'
<1> SUFFICES ASSUME RingInv, [Next]_vars PROVE RingInv'
  OBVIOUS
<1>1. CASE Next
  BY <1>1, EntryType, AddRing DEF Next, Handle
<1>2. CASE UNCHANGED vars
  BY <1>2 DEF vars, RingInv, TypeOK
<1> QED
  BY <1>1, <1>2

\* Type correctness: positions stay in the ring, whatever is logged.
THEOREM TypeCorrect == Spec => []TypeOK
<1>1. RingInv => TypeOK
  BY DEF RingInv
<1> QED
  BY <1>1, InitRing, StepRing, PTL DEF Spec

-----------------------------------------------------------------------------
(* The readers.                                                            *)

\* The entry i places back is the one the window has there.
LEMMA BackIsWindow ==
  ASSUME RingInv, NEW i \in Nat, i < count
  PROVE  Back(i) = Window[count - i] /\ Slot(count - i) \in 0..size-1
<1> USE SizeType
<1>1. /\ 0 <= pos - 1 - i + size
      /\ pos - 1 - i + size < 2 * size
  BY DEF RingInv, TypeOK
<1>2. (pos - 1 - i + size) % size =
        IF pos - 1 - i + size < size THEN pos - 1 - i + size ELSE pos - 1 - i
  BY <1>1, Wrap DEF RingInv, TypeOK
<1>3. Slot(count - i) = (pos - 1 - i + size) % size
  <2>1. CASE count < size
    BY <1>2, <2>1 DEF Slot, RingInv, TypeOK
  <2>2. CASE count = size
    BY <1>2, <2>2 DEF Slot, RingInv, TypeOK
  <2> QED
    BY <2>1, <2>2 DEF RingInv, TypeOK
<1>4. Slot(count - i) \in 0..size-1
  BY <1>2, <1>3 DEF RingInv, TypeOK
<1>5. count - i \in 1..count
  BY DEF RingInv, TypeOK
<1> QED
  BY <1>3, <1>4, <1>5 DEF Back, Window

\* The window is a sequence of entries that were logged: no unwritten slot.
LEMMA WindowType ==
  ASSUME RingInv
  PROVE  /\ Window \in Seq(Entry)
         /\ Len(Window) = count
         /\ \A i \in 1..count : Slot(i) \in 0..size-1 /\ Window[i] = entries[Slot(i)]
<1> USE SizeType
<1>1. ASSUME NEW i \in 1..count PROVE Slot(i) \in 0..size-1 /\ entries[Slot(i)] \in Entry
  <2>1. CASE count < size
    BY <2>1 DEF Slot, RingInv, TypeOK
  <2>2. CASE count = size
    <3>1. Slot(i) \in 0..size-1
      BY <2>2 DEF Slot, RingInv, TypeOK
    <3> QED
      BY <2>2, <3>1 DEF RingInv
  <2> QED
    BY <2>1, <2>2 DEF RingInv, TypeOK
<1>2. count \in Nat
  BY DEF RingInv, TypeOK
<1> QED
  BY <1>1, <1>2 DEF Window

\* Recent answers with the newest entries, newest first, and with nothing that
\* was never logged (LogBuffer.Recent).
THEOREM RecentIsNewest == Spec => []RecentAnswers
<1>1. RingInv => RecentAnswers
  <2> SUFFICES ASSUME RingInv, NEW n \in 0..size+1
               PROVE  Recent(n) = AtMost(n, NewestFirst(Window))
    BY DEF RecentAnswers
  <2> DEFINE k == IF n > count THEN count ELSE n
  <2>1. k \in Nat /\ k <= count /\ count \in Nat /\ n \in Nat
    BY SizeType DEF RingInv, TypeOK
  <2>2. Len(Window) = count /\ Window \in Seq(Entry)
    BY WindowType
  <2>3. /\ NewestFirst(Window) \in Seq(Entry)
        /\ Len(NewestFirst(Window)) = count
        /\ \A i \in 1..count : NewestFirst(Window)[i] = Window[count + 1 - i]
    BY <2>1, <2>2 DEF NewestFirst
  <2>4. (IF n < Len(NewestFirst(Window)) THEN n ELSE Len(NewestFirst(Window))) = k
    BY <2>1, <2>3
  <2>5. AtMost(n, NewestFirst(Window)) = [i \in 1..k |-> Window[count + 1 - i]]
    <3>1. AtMost(n, NewestFirst(Window)) = SubSeq(NewestFirst(Window), 1, k)
      BY <2>4 DEF AtMost
    <3> HIDE DEF k
    <3>2. SubSeq(NewestFirst(Window), 1, k) = [i \in 1..k |-> NewestFirst(Window)[i]]
      BY <2>1, <2>3
    <3>3. \A i \in 1..k : NewestFirst(Window)[i] = Window[count + 1 - i]
      BY <2>1, <2>3
    <3> QED
      BY <3>1, <3>2, <3>3
  <2>6. \A i \in 1..k : Back(i - 1) = Window[count + 1 - i]
    <3> SUFFICES ASSUME NEW i \in 1..k PROVE Back(i - 1) = Window[count + 1 - i]
      OBVIOUS
    <3>1. i - 1 \in Nat /\ i - 1 < count /\ count - (i - 1) = count + 1 - i
      BY <2>1
    <3>2. Back(i - 1) = Window[count - (i - 1)]
      BY <3>1, BackIsWindow
    <3> QED
      BY <3>1, <3>2
  <2>7. Recent(n) = [i \in 1..k |-> Back(i - 1)]
    BY DEF Recent
  <2> QED
    BY <2>5, <2>6, <2>7
<1> QED
  BY <1>1, InitRing, StepRing, PTL DEF Spec

-----------------------------------------------------------------------------
(* Filter: what its loop has found after i of the newest entries.          *)

\* The loop's equations, and that it only ever keeps entries that were logged.
LEMMA FoundType ==
  ASSUME RingInv, NEW f, NEW most \in Int
  PROVE  /\ Found(f, most) \in [0..count -> Seq(Entry)]
         /\ Found(f, most)[0] = <<>>
         /\ \A i \in 1..count :
              Found(f, most)[i] = Look(f, most, Found(f, most)[i-1], i)
<1> DEFINE S == Seq(Entry)
           step == [i \in 1..count |-> [x \in S |-> Look(f, most, x, i)]]
<1>0. count \in Nat
  BY DEF RingInv, TypeOK
<1>1. ASSUME NEW i \in 1..count, NEW x \in S PROVE Look(f, most, x, i) \in S
  <2>1. i - 1 \in Nat /\ i - 1 < count
    BY <1>0
  <2>2. count - (i - 1) \in 1..count
    BY <1>0
  <2>3. Back(i - 1) \in Entry
    BY <1>0, <2>1, <2>2, BackIsWindow, WindowType
  <2> QED
    BY <2>3 DEF Look
<1>2. step \in [1..count -> [S -> S]]
  BY <1>1
<1>3. <<>> \in S
  OBVIOUS
<1>4. PICK g : LoopRun(g, count, S, <<>>, step)
  <2> HIDE DEF S, step
  <2> QED
    BY <1>0, <1>2, <1>3, LoopRuns
<1>5. \A i \in 1..count : g[i-1] \in S /\ g[i] = Look(f, most, g[i-1], i)
  <2> SUFFICES ASSUME NEW i \in 1..count
               PROVE  g[i-1] \in S /\ g[i] = Look(f, most, g[i-1], i)
    OBVIOUS
  <2>1. i - 1 \in 0..count
    BY <1>0
  <2>2. g[i-1] \in S
    BY <1>4, <2>1 DEF LoopRun
  <2> HIDE DEF S
  <2> QED
    BY <1>4, <2>2 DEF LoopRun
<1>6. g = [i \in 0..count |-> IF i = 0 THEN <<>> ELSE Look(f, most, g[i-1], i)]
  <2>1. \A i \in 0..count : g[i] = IF i = 0 THEN <<>> ELSE Look(f, most, g[i-1], i)
    BY <1>0, <1>4, <1>5 DEF LoopRun
  <2> QED
    BY <1>4, <2>1 DEF LoopRun
<1>7. Found(f, most) =
        [i \in 0..count |-> IF i = 0 THEN <<>> ELSE Look(f, most, Found(f, most)[i-1], i)]
  BY <1>6 DEF Found
<1> DEFINE h == Found(f, most)
<1>8. /\ h[0] = <<>>
      /\ \A i \in 1..count : h[i] = Look(f, most, h[i-1], i)
  BY <1>0, <1>7
<1>9. \A i \in 0..count : h[i] \in S
  <2> HIDE DEF h, S
  <2> DEFINE T == {i \in Nat : i <= count => h[i] \in S}
  <2>1. 0 \in T
    BY <1>3, <1>8
  <2>2. ASSUME NEW i \in Nat, i \in T PROVE i + 1 \in T
    <3> SUFFICES ASSUME i + 1 <= count PROVE h[i + 1] \in S
      OBVIOUS
    <3>1. i + 1 \in 1..count /\ (i + 1) - 1 = i
      BY <1>0
    <3>2. h[i] \in S
      BY <1>0, <2>2
    <3> QED
      BY <1>1, <1>8, <3>1, <3>2
  <2>3. Nat \subseteq T
    <3> HIDE DEF T
    <3> QED
      BY <2>1, <2>2, Induction
  <2> QED
    BY <1>0, <2>3
<1> QED
  BY <1>7, <1>8, <1>9

\* The loop's invariant: r is right for the i newest entries.
Places(p, r, s, f, n, i) ==
  /\ p \in [1..Len(r) -> 1..i]
  /\ \A k \in 1..Len(r) : r[k] = s[p[k]] /\ Matches(f, r[k]) /\ k <= p[k]
  /\ \A j, k \in 1..Len(r) : j < k => p[j] < p[k]
  /\ \A j \in 1..i : Matches(f, s[j]) =>
       \/ \E k \in 1..Len(r) : p[k] = j
       \/ Len(r) = n /\ \A k \in 1..n : p[k] < j
Partly(r, s, f, n, i) ==
  Len(r) <= i /\ Len(r) <= n /\ \E p : Places(p, r, s, f, n, i)

\* One more round of the loop keeps it, whether the entry is taken or not.
LEMMA LookKeeps ==
  ASSUME RingInv, NEW s \in Seq(Entry), Len(s) = count,
         NEW f, NEW n \in Nat, NEW i \in Nat, i + 1 <= count,
         s[i + 1] = Back(i), NEW r \in Seq(Entry), Partly(r, s, f, n, i)
  PROVE  Partly(Look(f, n, r, i + 1), s, f, n, i + 1)
<1> DEFINE m == Len(r)
<1>0. m \in Nat /\ m <= i /\ m <= n /\ count \in Nat
  BY DEF Partly, RingInv, TypeOK
<1>1. PICK p : Places(p, r, s, f, n, i)
  BY DEF Partly
<1> HIDE DEF m
<1>2. (i + 1) - 1 = i /\ \A k \in 1..m : p[k] \in 1..i /\ p[k] <= i
  BY <1>1 DEF Places, m
<1>3. CASE m < n /\ Matches(f, s[i + 1])
  <2> DEFINE t == Append(r, s[i + 1])
             q == [k \in 1..m+1 |-> IF k <= m THEN p[k] ELSE i + 1]
  <2>1. Look(f, n, r, i + 1) = t
    BY <1>2, <1>3 DEF Look, m
  <2>2. /\ s[i + 1] \in Entry
        /\ t \in Seq(Entry) /\ Len(t) = m + 1 /\ t[m + 1] = s[i + 1]
        /\ \A k \in 1..m : t[k] = r[k]
    BY <1>0 DEF m
  <2>3. q \in [1..m+1 -> 1..i+1] /\ q[m + 1] = i + 1 /\ \A k \in 1..m : q[k] = p[k]
    BY <1>0, <1>2
  <2> HIDE DEF t, q
  <2>4. \A k \in 1..m+1 : t[k] = s[q[k]] /\ Matches(f, t[k]) /\ k <= q[k]
    <3> SUFFICES ASSUME NEW k \in 1..m+1
                 PROVE  t[k] = s[q[k]] /\ Matches(f, t[k]) /\ k <= q[k]
      OBVIOUS
    <3>1. CASE k \in 1..m
      BY <1>1, <2>2, <2>3, <3>1 DEF Places, m
    <3>2. CASE k = m + 1
      BY <1>0, <1>3, <2>2, <2>3, <3>2
    <3> QED
      BY <1>0, <3>1, <3>2
  <2>5. \A j, k \in 1..m+1 : j < k => q[j] < q[k]
    <3> SUFFICES ASSUME NEW j \in 1..m+1, NEW k \in 1..m+1, j < k PROVE q[j] < q[k]
      OBVIOUS
    <3>1. j \in 1..m
      BY <1>0
    <3>2. CASE k \in 1..m
      BY <1>1, <2>3, <3>1, <3>2 DEF Places, m
    <3>3. CASE k = m + 1
      BY <1>2, <2>3, <3>1, <3>3
    <3> QED
      BY <1>0, <3>2, <3>3
  <2>6. ASSUME NEW j \in 1..i+1, Matches(f, s[j])
        PROVE  \E k \in 1..m+1 : q[k] = j
    <3>1. CASE j \in 1..i
      <4>1. PICK k \in 1..m : p[k] = j
        BY <1>0, <1>1, <1>3, <2>6, <3>1 DEF Places, m
      <4> QED
        BY <1>0, <2>3, <4>1
    <3>2. CASE j = i + 1
      BY <1>0, <2>3, <3>2
    <3> QED
      BY <3>1, <3>2
  <2>7. m + 1 <= i + 1 /\ m + 1 <= n
    BY <1>0, <1>3
  <2>8. Places(q, t, s, f, n, i + 1)
    BY <2>2, <2>3, <2>4, <2>5, <2>6 DEF Places
  <2> QED
    BY <2>1, <2>2, <2>7, <2>8 DEF Partly
<1>4. CASE ~(m < n /\ Matches(f, s[i + 1]))
  <2>1. Look(f, n, r, i + 1) = r
    BY <1>2, <1>4 DEF Look, m
  <2>2. p \in [1..m -> 1..i+1]
    BY <1>1, <1>2 DEF Places, m
  <2>3. ASSUME NEW j \in 1..i+1, Matches(f, s[j])
        PROVE  \/ \E k \in 1..m : p[k] = j
               \/ m = n /\ \A k \in 1..n : p[k] < j
    <3>1. CASE j \in 1..i
      BY <1>1, <2>3, <3>1 DEF Places, m
    <3>2. CASE j = i + 1
      <4>1. m = n
        BY <1>0, <1>4, <2>3, <3>2
      <4>2. \A k \in 1..n : p[k] < j
        BY <1>2, <3>2, <4>1
      <4> QED
        BY <4>1, <4>2
    <3> QED
      BY <3>1, <3>2
  <2>4. Places(p, r, s, f, n, i + 1)
    BY <1>1, <2>2, <2>3 DEF Places, m
  <2> QED
    BY <1>0, <2>1, <2>4 DEF Partly, m
<1> QED
  BY <1>3, <1>4

\* Filter answers with the newest matching entries, newest first, up to the
\* limit, for every filter and limit (LogBuffer.Filter).
THEOREM FilterIsFirstMatches == Spec => []FilterAnswers
<1>1. RingInv => FilterAnswers
  <2> SUFFICES ASSUME RingInv, NEW f \in Filters, NEW limit \in -1..size+1
               PROVE  FirstMatches(Filter(f, limit), NewestFirst(Window), f,
                                   IF limit <= 0 THEN size ELSE limit)
    BY DEF FilterAnswers
  <2> DEFINE n == IF limit <= 0 THEN count ELSE limit
             s == NewestFirst(Window)
             h == Found(f, n)
  <2>1. n \in Nat /\ limit \in Int /\ count \in Nat /\ count <= size /\ size \in Nat
    BY SizeType DEF RingInv, TypeOK
  <2>2. /\ s \in Seq(Entry) /\ Len(s) = count
        /\ \A i \in 1..count : s[i] = Window[count + 1 - i]
    BY WindowType, <2>1 DEF NewestFirst
  <2>3. ASSUME NEW i \in Nat, i + 1 <= count PROVE s[i + 1] = Back(i)
    <3>1. i + 1 \in 1..count /\ count + 1 - (i + 1) = count - i /\ i < count
      BY <2>1, <2>3
    <3> QED
      BY <2>2, <3>1, BackIsWindow
  <2>4. /\ h \in [0..count -> Seq(Entry)]
        /\ h[0] = <<>>
        /\ \A i \in 1..count : h[i] = Look(f, n, h[i-1], i)
    BY <2>1, FoundType
  <2>5. Filter(f, limit) = h[count]
    BY DEF Filter
  <2> HIDE DEF h, s
  <2> DEFINE T == {i \in Nat : i <= count => Partly(h[i], s, f, n, i)}
  <2>6. 0 \in T
    <3> HIDE DEF n
    <3>1. Len(h[0]) = 0
      BY <2>4
    <3>2. Places([k \in 1..0 |-> k], h[0], s, f, n, 0)
      BY <3>1 DEF Places
    <3>3. Partly(h[0], s, f, n, 0)
      BY <2>1, <3>1, <3>2 DEF Partly
    <3> QED
      BY <3>3
  <2>7. ASSUME NEW i \in Nat, i \in T PROVE i + 1 \in T
    <3> HIDE DEF n
    <3> SUFFICES ASSUME i + 1 <= count PROVE Partly(h[i + 1], s, f, n, i + 1)
      OBVIOUS
    <3>1. h[i] \in Seq(Entry) /\ Partly(h[i], s, f, n, i)
      BY <2>1, <2>4, <2>7
    <3>2. h[i + 1] = Look(f, n, h[i], i + 1)
      <4>1. i + 1 \in 1..count /\ (i + 1) - 1 = i
        BY <2>1
      <4> QED
        BY <2>4, <4>1
    <3>3. s[i + 1] = Back(i)
      BY <2>3
    <3> QED
      BY <2>1, <2>2, <3>1, <3>2, <3>3, LookKeeps
  <2>8. Partly(h[count], s, f, n, count)
    <3>1. Nat \subseteq T
      <4> HIDE DEF T
      <4> QED
        BY <2>6, <2>7, Induction
    <3> QED
      BY <2>1, <3>1
  <2>9. FirstMatches(h[count], s, f, n)
    BY <2>2, <2>8 DEF Partly, Places, FirstMatches
  <2>10. CASE limit > 0
    BY <2>1, <2>5, <2>9, <2>10 DEF s
  <2>11. CASE limit <= 0
    <3> DEFINE r == h[count]
    <3>1. r \in Seq(Entry) /\ Len(r) \in Nat /\ Len(r) <= count /\ n = count
      BY <2>1, <2>4, <2>8, <2>11 DEF Partly
    <3>2. PICK p : Places(p, r, s, f, n, count)
      BY <2>8 DEF Partly
    <3> HIDE DEF r, n
    \* With room for every entry nothing is left out: the last of count results
    \* cannot come before entry i.
    <3>3. ASSUME NEW i \in 1..count, Matches(f, s[i]) PROVE \E k \in 1..Len(r) : p[k] = i
      <4>1. SUFFICES ASSUME Len(r) = count, \A k \in 1..count : p[k] < i PROVE FALSE
        BY <3>1, <3>2, <3>3 DEF Places
      <4>2. count \in 1..Len(r) /\ count <= p[count] /\ p[count] \in 1..count
        BY <2>1, <3>2, <4>1 DEF Places
      <4>3. p[count] < i
        BY <2>1, <4>1
      <4> QED
        BY <2>1, <4>2, <4>3
    <3>4. Len(r) <= size
      BY <2>1, <3>1
    <3>5. FirstMatches(r, s, f, size)
      BY <2>2, <3>2, <3>3, <3>4 DEF FirstMatches, Places
    <3> QED
      BY <2>5, <2>11, <3>5 DEF r, s
  <2> QED
    BY <2>1, <2>10, <2>11
<1> QED
  BY <1>1, InitRing, StepRing, PTL DEF Spec

-----------------------------------------------------------------------------
(* Refinement.                                                             *)

\* An Add to the ring is an Add to the log of the last entries.
LEMMA AddRefines ==
  ASSUME RingInv, NEW e \in Entry, Add(e)
  PROVE  Abstract!Add(e)
<1> USE SizeType
<1>0. RingInv'
  BY AddRing
<1>1. /\ Window \in Seq(Entry) /\ Len(Window) = count
      /\ count \in Nat /\ count <= size /\ pos \in 0..size-1
  BY WindowType DEF RingInv, TypeOK
<1>2. \A i \in 1..count : Slot(i) \in 0..size-1 /\ Window[i] = entries[Slot(i)]
  BY WindowType
<1>3. /\ count' \in Nat
      /\ Window' = [i \in 1..count' |-> entries'[Slot(i)']]
  BY <1>0 DEF Window, RingInv, TypeOK
<1> DEFINE long == Append(Window, e)
<1>4. /\ long \in Seq(Entry) /\ Len(long) = count + 1
      /\ \A i \in 1..count : long[i] = Window[i]
      /\ long[count + 1] = e
  BY <1>1
<1> HIDE DEF long
<1>5. CASE count < size
  <2>1. count' = count + 1
    BY <1>5, AddEffect
  <2>2. Abstract!Trim(long) = long
    BY <1>1, <1>4, <1>5 DEF Abstract!Trim
  <2>3. ASSUME NEW i \in 1..count+1 PROVE entries'[Slot(i)'] = long[i]
    <3>1. Slot(i)' = i - 1
      <4>1. CASE count + 1 < size
        BY <2>1, <4>1 DEF Slot
      <4>2. CASE count + 1 = size
        <5>1. pos' = 0
          BY <1>5, <4>2, AddEffect DEF RingInv, TypeOK
        <5> QED
          BY <2>1, <4>2, <5>1, <1>1 DEF Slot
      <4> QED
        BY <1>1, <1>5, <4>1, <4>2
    <3>2. pos = count
      BY <1>5 DEF RingInv
    <3>3. i - 1 \in 0..size-1
      BY <1>1, <1>5
    <3>4. entries'[i - 1] = IF i - 1 = count THEN e ELSE entries[i - 1]
      BY <3>2, <3>3, AddEffect DEF RingInv, TypeOK
    <3>5. CASE i = count + 1
      BY <3>1, <3>4, <3>5, <1>4, <1>1
    <3>6. CASE i \in 1..count
      <4>1. Slot(i) = i - 1
        BY <1>5 DEF Slot
      <4>2. entries'[i - 1] = entries[Slot(i)]
        BY <1>1, <3>4, <3>6, <4>1
      <4> QED
        BY <3>1, <3>6, <4>2, <1>2, <1>4
    <3> QED
      BY <1>1, <3>5, <3>6
  <2>4. Window' = long
    BY <1>1, <1>3, <1>4, <2>1, <2>3
  <2> QED
    BY <2>2, <2>4 DEF Abstract!Add, long
<1>6. CASE count = size
  <2>1. count' = count
    BY <1>6, AddEffect
  <2>2. Abstract!Trim(long) = Tail(long)
    BY <1>1, <1>4, <1>6 DEF Abstract!Trim
  <2>3. /\ Tail(long) \in Seq(Entry) /\ Len(Tail(long)) = count
        /\ \A i \in 1..count : Tail(long)[i] = long[i + 1] /\ long[i + 1] \in Entry
    BY <1>1, <1>4, HeadTailProperties
  <2>4. ASSUME NEW i \in 1..count PROVE entries'[Slot(i)'] = long[i + 1]
    <3>1. pos' = IF pos + 1 < size THEN pos + 1 ELSE 0
      BY AddEffect
    <3>2. Slot(i)' = IF pos' + i - 1 < size THEN pos' + i - 1 ELSE pos' + i - 1 - size
      BY <1>6, <2>1 DEF Slot
    <3>3. CASE i = count
      <4>1. Slot(i)' = pos
        BY <1>1, <1>6, <3>1, <3>2, <3>3
      <4>2. entries'[pos] = e
        BY <1>1, AddEffect DEF RingInv, TypeOK
      <4> QED
        BY <1>4, <3>3, <4>1, <4>2
    <3>4. CASE i \in 1..count-1
      <4>1. /\ i + 1 \in 1..count
            /\ Slot(i + 1) = IF pos + i < size THEN pos + i ELSE pos + i - size
        BY <1>1, <1>6, <3>4 DEF Slot
      <4>2. Slot(i)' = Slot(i + 1)
        BY <1>1, <1>6, <3>1, <3>2, <3>4, <4>1
      <4>3. Slot(i + 1) # pos /\ Slot(i + 1) \in 0..size-1
        BY <1>1, <1>6, <3>4, <4>1
      <4>4. entries'[Slot(i + 1)] = entries[Slot(i + 1)]
        BY <4>3, AddEffect DEF RingInv, TypeOK
      <4> QED
        BY <1>2, <1>4, <4>1, <4>2, <4>4
    <3> QED
      BY <1>1, <3>3, <3>4
  <2>5. Window' = Tail(long)
    <3>1. Window' = [i \in 1..count |-> long[i + 1]]
      BY <1>3, <2>1, <2>4
    <3>2. Window' \in Seq(Entry) /\ Len(Window') = count
      BY <1>1, <2>3, <3>1
    <3> QED
      BY <2>3, <3>1, <3>2, SeqEqual
  <2> QED
    BY <2>2, <2>5 DEF Abstract!Add, long
<1> QED
  BY <1>1, <1>5, <1>6

\* The ring implements the log of the last entries: what is dropped is always
\* the oldest entry, and only when the ring is full (LogBuffer.Add).
THEOREM Refinement == Spec => ImplementsRecentEntries
<1>1. Init => Abstract!Init
  <2> SUFFICES ASSUME Init PROVE Window = <<>>
    BY DEF Abstract!Init
  <2>1. Window \in Seq(Entry) /\ Len(Window) = 0
    BY InitRing, WindowType DEF Init
  <2> QED
    BY <2>1
<1>2. RingInv /\ [Next]_vars => [Abstract!Next]_Window
  <2> SUFFICES ASSUME RingInv, [Next]_vars PROVE Abstract!Next \/ UNCHANGED Window
    OBVIOUS
  <2>1. CASE Next
    <3>1. PICK e \in Entry : Add(e)
      BY <2>1, EntryType DEF Next, Handle
    <3> QED
      BY <3>1, AddRefines DEF Abstract!Next
  <2>2. CASE UNCHANGED vars
    BY <2>2 DEF vars, Window, Slot
  <2> QED
    BY <2>1, <2>2
<1> QED
  BY <1>1, <1>2, InitRing, StepRing, PTL
  DEF Spec, ImplementsRecentEntries, Abstract!Spec
=============================================================================
