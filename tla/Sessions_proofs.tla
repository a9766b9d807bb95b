---------------------------- MODULE Sessions_proofs ----------------------------
(***************************************************************************)
(* Proofs about Sessions, for any number of machines and sessions: types,  *)
(* the list of active sessions, and the story and the end of a session.    *)
(***************************************************************************)
EXTENDS Sessions, SequenceTheorems, WellFoundedInduction, TLAPS

-----------------------------------------------------------------------------
(* Induction, for the loops that are recursive functions.                  *)

\* The order of the naturals, as a set of pairs, has no infinite descent.
Less == {pair \in Nat \X Nat : pair[1] < pair[2]}
LEMMA LessWF == IsWellFoundedOn(Less, Nat)
<1>1. OpToRel(<, Nat) = Less
  BY DEF OpToRel, Less
<1> QED
  BY <1>1, NatLessThanWellFounded, Zenon

\* Induction over a set: the predicate of an induction is the set of the
\* naturals that have it, and a least natural outside cannot exist.
LEMMA Induction ==
  ASSUME NEW T, 0 \in T, \A n \in Nat : n \in T => n + 1 \in T
  PROVE  Nat \subseteq T
<1> DEFINE rest == Nat \ T
<1>1. SUFFICES ASSUME rest # {} PROVE FALSE
  OBVIOUS
<1>2. PICK x \in rest : \A y \in rest : <<y, x>> \notin Less
  <2>1. rest \subseteq Nat
    OBVIOUS
  <2> HIDE DEF rest
  <2> QED
    BY <1>1, <2>1, LessWF, WFMin
<1>3. x \in Nat /\ x # 0
  BY <1>2
<1>4. x - 1 \in Nat /\ <<x - 1, x>> \in Less
  BY <1>3 DEF Less
<1> QED
  BY <1>2, <1>3, <1>4

\* g is a run of a loop of n rounds that starts with c; step[i] is round i.
LoopRun(g, n, S, c, step) ==
  /\ g \in [0..n -> S]
  /\ g[0] = c
  /\ \A i \in 1..n : g[i] = step[i][g[i-1]]

\* Every loop has a run.
LEMMA LoopRuns ==
  ASSUME NEW n \in Nat, NEW S, NEW c \in S, NEW step \in [1..n -> [S -> S]]
  PROVE  \E g : LoopRun(g, n, S, c, step)
<1> DEFINE T == {m \in Nat : m <= n => \E g : LoopRun(g, m, S, c, step)}
<1>1. 0 \in T
  <2>1. LoopRun([i \in 0..0 |-> c], 0, S, c, step)
    BY DEF LoopRun
  <2> QED
    BY <2>1
<1>2. ASSUME NEW m \in Nat, m \in T PROVE m + 1 \in T
  <2> SUFFICES ASSUME m + 1 <= n PROVE \E h : LoopRun(h, m + 1, S, c, step)
    OBVIOUS
  <2>1. PICK g : LoopRun(g, m, S, c, step)
    BY <1>2
  <2> DEFINE h == [i \in 0..m+1 |-> IF i <= m THEN g[i] ELSE step[m + 1][g[m]]]
  <2>2. g[m] \in S /\ step[m + 1] \in [S -> S]
    BY <2>1 DEF LoopRun
  <2>3. h \in [0..m+1 -> S] /\ h[0] = c
    BY <2>1, <2>2 DEF LoopRun
  <2>4. ASSUME NEW i \in 1..m+1 PROVE h[i] = step[i][h[i-1]]
    <3>1. h[i-1] = g[i-1]
      OBVIOUS
    <3>2. CASE i <= m
      BY <2>1, <3>1, <3>2 DEF LoopRun
    <3>3. CASE i = m + 1
      BY <3>1, <3>3
    <3> QED
      BY <3>2, <3>3
  <2>5. LoopRun(h, m + 1, S, c, step)
    BY <2>3, <2>4 DEF LoopRun
  <2> QED
    BY <2>5
<1>3. n \in T
  <2> HIDE DEF T
  <2> QED
    BY <1>1, <1>2, Induction
<1> QED
  BY <1>3

-----------------------------------------------------------------------------
(* Transitions.                                                            *)

LEMMA TransitionType ==
  ASSUME NEW s \in States, NEW t \in validTransitions(s)
  PROVE  t \in States /\ t # "" /\ s \notin Terminal
BY DEF validTransitions, States, Terminal

-----------------------------------------------------------------------------
(* Type correctness, and what a driver is about to do.                     *)

\* A driver goes where a transition allows it; nobody writes an event
\* without a new state; what is not stored yet is as it will be started.
DriverInv ==
  \A i \in Ids : /\ i \notin Stored => ~moved[i] /\ next[i] = "" /\ state[i] = "discover"
                                       /\ events[i] = <<>> /\ error[i] = ""
                 /\ moved[i] => next[i] # "" /\ state[i] = next[i]
                 /\ next[i] # "" /\ ~moved[i] => next[i] \in validTransitions(state[i])

LEMMA InitType == Init => TypeOK /\ DriverInv
<1> SUFFICES ASSUME Init PROVE TypeOK /\ DriverInv
  OBVIOUS
<1>1. count \in 0..MaxSessions /\ scan \in 0..count
  <2>1. count = 0 /\ scan = 0
    BY DEF Init
  <2> QED
    BY <2>1, SessionsAssumption
<1>2. state \in [Ids -> States] /\ next \in [Ids -> States \cup {""}]
  BY DEF Init, States
<1>3. events \in [Ids -> Seq(States)] /\ mac \in [Ids -> MACs \cup {""}]
  <2>1. <<>> \in Seq(States)
    BY EmptySeq
  <2> QED
    BY <2>1 DEF Init
<1>4. /\ detail \in [Ids -> Details] /\ error \in [Ids -> Details]
      /\ moved \in [Ids -> BOOLEAN]
  BY DetailAssumption DEF Init
<1>5. TypeOK
  BY <1>1, <1>2, <1>3, <1>4 DEF Init, TypeOK
<1>6. DriverInv
  BY DEF Init, DriverInv
<1> QED
  BY <1>5, <1>6

LEMMA StoredInIds == ASSUME TypeOK PROVE Stored \subseteq Ids
<1>1. count \in 0..MaxSessions
  BY DEF TypeOK
<1> QED
  BY <1>1, SessionsAssumption DEF Stored, Ids

LEMMA StartInv ==
  ASSUME TypeOK, DriverInv, NEW m \in MACs, Start(m)
  PROVE  TypeOK' /\ DriverInv'
<1>0. count \in 0..MaxSessions /\ count < MaxSessions /\ count' = count + 1
  BY DEF TypeOK, Start
<1>1. count + 1 \in Ids /\ count' \in 0..MaxSessions /\ Stored \subseteq Stored'
  BY <1>0, SessionsAssumption DEF Stored, Ids
<1>2. mac' \in [Ids -> MACs \cup {""}]
  BY <1>1 DEF TypeOK, Start
<1>3. scan' \in 0..count'
  <2>1. scan \in 0..count /\ scan' = scan
    BY DEF TypeOK, Start, handler
  <2> QED
    BY <2>1, <1>0, SessionsAssumption
<1>5. TypeOK'
  BY <1>1, <1>2, <1>3 DEF TypeOK, Start, handler
<1>4. DriverInv'
  BY <1>1 DEF DriverInv, Start
<1> QED
  BY <1>4, <1>5

LEMMA CheckInv ==
  ASSUME TypeOK, DriverInv, NEW i \in Stored, NEW s \in States, Check(i, s)
  PROVE  TypeOK' /\ DriverInv'
<1>1. i \in Ids /\ state[i] \in States
  BY StoredInIds DEF TypeOK
<1>2. s # "" /\ s \in validTransitions(state[i])
  BY <1>1, TransitionType DEF Check
<1>3. next' \in [Ids -> States \cup {""}]
  BY DEF TypeOK, Check
<1>4. TypeOK'
  BY <1>3 DEF TypeOK, Check, session, handler, Stored
<1>5. ~moved[i] /\ Stored' = Stored
  BY <1>1 DEF DriverInv, Check, Stored
<1>6. DriverInv'
  BY <1>1, <1>2, <1>5 DEF DriverInv, Check, session, TypeOK
<1> QED
  BY <1>4, <1>6

LEMMA SetStateInv ==
  ASSUME TypeOK, DriverInv, NEW i \in Stored, SetState(i)
  PROVE  TypeOK' /\ DriverInv'
<1>1. i \in Ids /\ next[i] \in States /\ Stored' = Stored
  BY StoredInIds DEF TypeOK, SetState, Stored
<1>2. state' \in [Ids -> States] /\ moved' \in [Ids -> BOOLEAN]
  BY <1>1 DEF TypeOK, SetState
<1>3. TypeOK'
  BY <1>1, <1>2 DEF TypeOK, SetState, handler
<1>4. DriverInv'
  BY <1>1 DEF DriverInv, SetState, TypeOK
<1> QED
  BY <1>3, <1>4

LEMMA AddEventInv ==
  ASSUME TypeOK, DriverInv, NEW i \in Stored, AddEvent(i)
  PROVE  TypeOK' /\ DriverInv'
<1>1. i \in Ids /\ next[i] \in States /\ Stored' = Stored
  BY StoredInIds DEF TypeOK, AddEvent, Stored, DriverInv
<1>2. Append(events[i], next[i]) \in Seq(States)
  BY <1>1, AppendProperties DEF TypeOK
<1>3. /\ events' \in [Ids -> Seq(States)]
      /\ detail' \in [Ids -> Details] /\ error' \in [Ids -> Details]
  <2>1. PICK d \in Details :
          /\ events' = [events EXCEPT ![i] = Append(@, next[i])]
          /\ detail' = [detail EXCEPT ![i] = d]
          /\ error' = IF next[i] = "failed" THEN [error EXCEPT ![i] = d] ELSE error
    BY DEF AddEvent
  <2> QED
    BY <1>1, <1>2, <2>1 DEF TypeOK
<1>4. next' \in [Ids -> States \cup {""}] /\ moved' \in [Ids -> BOOLEAN]
  BY <1>1 DEF TypeOK, AddEvent
<1>5. TypeOK'
  BY <1>1, <1>3, <1>4 DEF TypeOK, AddEvent, handler
<1>6. DriverInv'
  BY <1>1 DEF DriverInv, AddEvent, TypeOK
<1> QED
  BY <1>5, <1>6

LEMMA HandlerInv ==
  ASSUME TypeOK, DriverInv, AskActive \/ LookAt \/ FindActive \/ Respond
  PROVE  TypeOK' /\ DriverInv'
<1>1. UNCHANGED <<count, mac, state, events, detail, error, next, moved>>
  BY DEF AskActive, LookAt, FindActive, Respond, session
<1>2. DriverInv'
  BY <1>1 DEF DriverInv, Stored
<1>3. /\ api' \in {"idle", "scan", "write"} /\ scan' \in 0..count
      /\ active' \subseteq Stored /\ before' \subseteq Stored
  <2>1. count \in Nat /\ scan \in 0..count /\ active \subseteq Stored /\ before \subseteq Stored
    <3>1. /\ count \in 0..MaxSessions /\ scan \in 0..count
          /\ active \subseteq Stored /\ before \subseteq Stored
      BY DEF TypeOK
    <3> QED
      BY <3>1, SessionsAssumption
  <2>2. CASE AskActive
    BY <2>1, <2>2 DEF AskActive
  <2>3. CASE LookAt
    <3>1. scan + 1 \in Stored /\ scan' \in 0..count
      BY <2>1, <2>3 DEF LookAt, Stored
    <3> QED
      BY <2>1, <2>3, <3>1 DEF LookAt, TypeOK
  <2>4. CASE FindActive \/ Respond
    BY <2>1, <2>4 DEF FindActive, Respond
  <2> QED
    BY <2>2, <2>3, <2>4
<1>4. TypeOK'
  BY <1>1, <1>3 DEF TypeOK, Stored
<1> QED
  BY <1>2, <1>4

LEMMA NextInv == TypeOK /\ DriverInv /\ [Next]_vars => TypeOK' /\ DriverInv'
<1> SUFFICES ASSUME TypeOK, DriverInv, [Next]_vars PROVE TypeOK' /\ DriverInv'
  OBVIOUS
<1>1. ASSUME NEW m \in MACs, Start(m) PROVE TypeOK' /\ DriverInv'
  BY <1>1, StartInv
<1>2. ASSUME NEW i \in Stored, SetState(i) PROVE TypeOK' /\ DriverInv'
  BY <1>2, SetStateInv
<1>3. ASSUME NEW i \in Stored, AddEvent(i) PROVE TypeOK' /\ DriverInv'
  BY <1>3, AddEventInv
<1>4. ASSUME NEW i \in Stored, NEW s \in States, Check(i, s) PROVE TypeOK' /\ DriverInv'
  BY <1>4, CheckInv
<1>5. CASE AskActive \/ LookAt \/ FindActive \/ Respond
  BY <1>5, HandlerInv
<1>6. CASE UNCHANGED vars
  BY <1>6 DEF vars, session, handler, TypeOK, DriverInv, Stored
<1> QED
  BY <1>1, <1>2, <1>3, <1>4, <1>5, <1>6 DEF Next

-----------------------------------------------------------------------------
(* The list of active sessions.                                            *)

\* While the sessions are looked at, one that is active was so before, and what has been
\* looked at has been noted if it is still active.
ScanInv ==
  /\ api = "idle" => scan = 0 /\ active = {}
  /\ api = "scan" =>
       /\ \A i \in Stored : state[i] \notin Terminal => i \in before
       /\ \A i \in before : i <= scan /\ state[i] \notin Terminal => i \in active
       /\ active \subseteq before
  /\ RightSessions

\* No step of a driver takes a session from its end, and the handler takes none anywhere.
EndsStay == /\ Stored \subseteq Stored'
            /\ \A i \in Stored : state[i] \in Terminal => state'[i] = state[i]

LEMMA StepEndsStay == ASSUME TypeOK, DriverInv, [Next]_vars PROVE EndsStay
<1>1. ASSUME NEW m \in MACs, Start(m) PROVE EndsStay
  <2>1. count \in Nat /\ count' = count + 1 /\ state' = state
    <3>1. count \in 0..MaxSessions
      BY DEF TypeOK
    <3> QED
      BY <1>1, <3>1, SessionsAssumption DEF Start
  <2> QED
    BY <2>1 DEF EndsStay, Stored
<1>2. ASSUME NEW i \in Stored, SetState(i) PROVE EndsStay
  <2>0. i \in Ids /\ state[i] \in States /\ next[i] \in validTransitions(state[i])
    BY <1>2, StoredInIds DEF SetState, DriverInv, TypeOK
  <2>1. /\ i \in Ids /\ state[i] \notin Terminal /\ count' = count
        /\ state' = [state EXCEPT ![i] = next[i]]
    BY <1>2, <2>0, TransitionType DEF SetState
  <2>2. Stored' = Stored /\ Stored \subseteq Ids /\ state \in [Ids -> States]
    BY <2>1, StoredInIds DEF Stored, TypeOK
  <2>3. \A j \in Stored : j # i => state'[j] = state[j]
    BY <2>1, <2>2
  <2> QED
    BY <2>1, <2>2, <2>3 DEF EndsStay
<1>3. CASE UNCHANGED <<count, state>>
  BY <1>3 DEF EndsStay, Stored
<1>4. ASSUME NEW i \in Stored, AddEvent(i) PROVE EndsStay
  BY <1>3, <1>4 DEF AddEvent
<1>5. ASSUME NEW i \in Stored, NEW s \in States, Check(i, s) PROVE EndsStay
  BY <1>3, <1>5 DEF Check, session
<1>6. CASE AskActive \/ LookAt \/ FindActive \/ Respond
  BY <1>3, <1>6 DEF AskActive, LookAt, FindActive, Respond, session
<1>7. CASE UNCHANGED vars
  BY <1>3, <1>7 DEF vars, session
<1> QED
  BY <1>1, <1>2, <1>4, <1>5, <1>6, <1>7 DEF Next

\* A step that leaves the handler alone, and stores nothing while it scans.
LEMMA OthersScan ==
  ASSUME TypeOK, ScanInv, EndsStay, UNCHANGED handler, api = "scan" => count' = count,
         state' \in [Ids -> States]
  PROVE  ScanInv'
<1>1. UNCHANGED <<scan, active, api, before>>
  BY DEF handler
<1>2. before \subseteq Stored
  BY DEF TypeOK
<1>3. \A i \in Stored : state'[i] \notin Terminal => state[i] \notin Terminal
  BY DEF EndsStay
<1>4. api = "scan" => Stored' = Stored
  BY DEF Stored
<1>5. RightSessions'
  BY <1>1, <1>2, <1>3 DEF ScanInv, RightSessions
<1> QED
  BY <1>1, <1>2, <1>3, <1>4, <1>5 DEF ScanInv

LEMMA HandlerScan ==
  ASSUME TypeOK, ScanInv, AskActive \/ LookAt \/ FindActive \/ Respond
  PROVE  ScanInv'
<1>1. UNCHANGED <<count, state>> /\ Stored' = Stored
  BY DEF AskActive, LookAt, FindActive, Respond, session, Stored
<1>2. count \in Nat /\ scan \in Nat /\ before \subseteq Stored /\ active \subseteq Stored
  <2>1. /\ count \in 0..MaxSessions /\ scan \in 0..count
        /\ before \subseteq Stored /\ active \subseteq Stored
    BY DEF TypeOK
  <2> QED
    BY <2>1, SessionsAssumption
<1>3. \A i \in Stored : i \in Nat /\ i >= 1 /\ i <= count
  BY <1>2 DEF Stored
<1>4. CASE AskActive
  <2>1. /\ api' = "scan" /\ before' = {i \in Stored : state[i] \notin Terminal}
        /\ scan' = scan /\ active' = active
    BY <1>4 DEF AskActive
  <2>2. scan = 0 /\ active = {}
    BY <1>4 DEF AskActive, ScanInv
  <2>3. \A i \in before' : ~(i <= scan')
    BY <1>3, <2>1, <2>2
  <2>4. \A i \in Stored' : state'[i] \notin Terminal => i \in before'
    BY <1>1, <2>1
  <2> QED
    BY <2>1, <2>2, <2>3, <2>4 DEF ScanInv, RightSessions
<1>5. CASE LookAt
  <2>1. /\ api = "scan" /\ api' = "scan" /\ scan' = scan + 1 /\ before' = before
        /\ scan + 1 \in Stored
        /\ active' = IF Active(state[scan + 1]) THEN active \cup {scan + 1} ELSE active
    BY <1>2, <1>5 DEF LookAt, Stored
  <2>2. Active(state[scan + 1]) <=> state[scan + 1] \notin Terminal
    BY DEF Active, Terminal
  <2>3. active' \subseteq before
    BY <2>1, <2>2 DEF ScanInv
  <2>4. \A i \in before : i <= scan + 1 /\ state[i] \notin Terminal => i \in active'
    <3> SUFFICES ASSUME NEW i \in before, i <= scan + 1, state[i] \notin Terminal
                 PROVE  i \in active'
      OBVIOUS
    <3>1. i \in Nat
      BY <1>2, <1>3
    <3>2. CASE i = scan + 1
      BY <2>1, <2>2, <3>2
    <3>3. CASE i # scan + 1
      <4>1. i <= scan
        BY <1>2, <3>1, <3>3
      <4> QED
        BY <2>1, <4>1 DEF ScanInv
    <3> QED
      BY <3>2, <3>3
  <2> QED
    BY <1>1, <2>1, <2>3, <2>4 DEF ScanInv, RightSessions
<1>6. CASE FindActive
  <2>1. api = "scan" /\ scan = count /\ api' = "write" /\ UNCHANGED <<active, before>>
    BY <1>6 DEF FindActive
  <2>2. \A i \in before : state[i] \notin Terminal => i \in active
    BY <1>2, <1>3, <2>1 DEF ScanInv
  <2> QED
    BY <1>1, <2>1, <2>2 DEF ScanInv, RightSessions
<1>7. CASE Respond
  BY <1>7 DEF Respond, ScanInv, RightSessions
<1> QED
  BY <1>4, <1>5, <1>6, <1>7

-----------------------------------------------------------------------------
(* The story of a session.                                                 *)

\* How far a session has come; a transition only goes forward.
Rank(s) == CASE s = "discover" -> 0 [] s = "offer" -> 1 [] s = "tftp" -> 2
             [] s = "ipxe" -> 3 [] s = "menu" -> 4 [] s = "boot" -> 5 [] OTHER -> 6

LEMMA RankType == ASSUME NEW s PROVE Rank(s) \in Int
BY DEF Rank

LEMMA Forward ==
  ASSUME NEW s \in States, NEW t \in validTransitions(s)
  PROVE  Rank(s) < Rank(t) /\ s \notin Terminal /\ t # "discover"
BY DEF validTransitions, States, Terminal, Rank

\* Between its two writes a session has come further than its events, none of them an
\* end, and has not failed yet.
StateTold(i) == state[i] = IF events[i] = <<>> THEN "discover" ELSE Last(events[i])
ErrorTold(i) == error[i] = IF state[i] = "failed" THEN detail[i] ELSE ""
SessionStory(i) ==
  /\ ~moved[i] => StateTold(i) /\ ErrorTold(i)
  /\ moved[i] => /\ error[i] = ""
                 /\ \A k \in DOMAIN events[i] : /\ Rank(events[i][k]) < Rank(next[i])
                                                /\ events[i][k] \notin Terminal
  /\ \A j, k \in DOMAIN events[i] :
       j < k => Rank(events[i][j]) < Rank(events[i][k]) /\ events[i][j] \notin Terminal
StoryInv == \A i \in Ids : SessionStory(i)

LEMMA StoryInit == Init => StoryInv
<1> SUFFICES ASSUME Init, NEW i \in Ids PROVE SessionStory(i)
  BY DEF StoryInv
<1>1. /\ state[i] = "discover" /\ events[i] = <<>> /\ error[i] = "" /\ ~moved[i]
      /\ state[i] # "failed"
  BY DEF Init
<1>2. DOMAIN events[i] = {}
  <2>1. events[i] = <<>>
    BY <1>1
  <2> QED
    BY <2>1
<1>3. StateTold(i)
  BY <1>1, Zenon DEF StateTold
<1>4. ErrorTold(i)
  BY <1>1, Zenon DEF ErrorTold
<1>5. \A j, k \in DOMAIN events[i] :
        j < k => Rank(events[i][j]) < Rank(events[i][k]) /\ events[i][j] \notin Terminal
  BY <1>2
<1> QED
  BY <1>1, <1>3, <1>4, <1>5, Zenon DEF SessionStory

LEMMA StoryImplies == TypeOK /\ StoryInv => Story
<1> SUFFICES ASSUME TypeOK, StoryInv, NEW i \in Stored
             PROVE  /\ ~moved[i] => state[i] = IF events[i] = <<>> THEN "discover"
                                               ELSE Last(events[i])
                    /\ ~moved[i] => error[i] = IF state[i] = "failed" THEN detail[i] ELSE ""
                    /\ \A j, k \in DOMAIN events[i] :
                         j < k => events[i][j] # events[i][k] /\ events[i][j] \notin Terminal
  BY DEF Story
<1>1. SessionStory(i)
  BY StoredInIds DEF StoryInv
<1>2. ASSUME NEW j \in DOMAIN events[i], NEW k \in DOMAIN events[i], j < k
      PROVE  events[i][j] # events[i][k]
  <2>1. Rank(events[i][j]) < Rank(events[i][k])
    BY <1>1, <1>2 DEF SessionStory
  <2> QED
    BY <2>1, RankType
<1>3. ~moved[i] => StateTold(i) /\ ErrorTold(i)
  BY <1>1 DEF SessionStory
<1>4. \A j, k \in DOMAIN events[i] :
        j < k => events[i][j] # events[i][k] /\ events[i][j] \notin Terminal
  BY <1>1, <1>2 DEF SessionStory
<1> QED
  BY <1>3, <1>4, Zenon DEF StateTold, ErrorTold

\* A session whose fields a step leaves alone keeps its story.
LEMMA StoryKept ==
  ASSUME NEW i, SessionStory(i), state'[i] = state[i], events'[i] = events[i],
         detail'[i] = detail[i], error'[i] = error[i], moved'[i] = moved[i],
         moved[i] => next'[i] = next[i]
  PROVE  SessionStory(i)'
BY DEF SessionStory, StateTold, ErrorTold

LEMMA StorySetState ==
  ASSUME TypeOK, DriverInv, StoryInv, NEW i \in Stored, SetState(i)
  PROVE  StoryInv'
<1>1. i \in Ids /\ state[i] \in States /\ next[i] \in validTransitions(state[i])
  BY StoredInIds DEF SetState, DriverInv, TypeOK
<1>2. Rank(state[i]) < Rank(next[i]) /\ state[i] \notin Terminal
  BY <1>1, Forward
<1>3. events[i] \in Seq(States) /\ SessionStory(i) /\ moved[i] = FALSE
  BY <1>1 DEF TypeOK, StoryInv, SetState
<1>4. ASSUME NEW k \in DOMAIN events[i]
      PROVE  Rank(events[i][k]) < Rank(next[i]) /\ events[i][k] \notin Terminal
  <2>1. k \in 1..Len(events[i]) /\ Len(events[i]) \in Nat
    BY <1>3, <1>4
  <2>2. state[i] = events[i][Len(events[i])]
    <3>1. StateTold(i)
      BY <1>3, Zenon DEF SessionStory
    <3>2. events[i] # <<>>
      BY <2>1
    <3> QED
      BY <3>1, <3>2 DEF StateTold, Last
  <2>3. CASE k = Len(events[i])
    BY <1>2, <2>2, <2>3
  <2>4. CASE k # Len(events[i])
    <3>1. k < Len(events[i]) /\ Len(events[i]) \in DOMAIN events[i]
      BY <1>3, <2>1, <2>4
    <3>2. Rank(events[i][k]) < Rank(state[i]) /\ events[i][k] \notin Terminal
      BY <1>3, <1>4, <2>2, <3>1 DEF SessionStory
    <3> QED
      BY <1>2, <3>2, RankType
  <2> QED
    BY <2>3, <2>4
<1>5. error[i] = ""
  <2>1. error[i] = IF state[i] = "failed" THEN detail[i] ELSE ""
    BY <1>3 DEF SessionStory, ErrorTold
  <2>2. state[i] # "failed"
    BY <1>1, <1>2 DEF Terminal
  <2> QED
    BY <2>1, <2>2
<1>6. UNCHANGED <<events, detail, error, next>> /\ moved'[i] = TRUE
  BY <1>1 DEF SetState, TypeOK
<1>7. SessionStory(i)'
  BY <1>3, <1>4, <1>5, <1>6 DEF SessionStory
<1>8. ASSUME NEW j \in Ids, j # i PROVE SessionStory(j)'
  <2>1. state'[j] = state[j] /\ moved'[j] = moved[j]
    BY <1>1, <1>8 DEF SetState, TypeOK
  <2>2. SessionStory(j)
    BY DEF StoryInv
  <2> QED
    BY <1>6, <2>1, <2>2, StoryKept
<1> QED
  BY <1>7, <1>8 DEF StoryInv

LEMMA StoryAddEvent ==
  ASSUME TypeOK, DriverInv, StoryInv, NEW i \in Stored, AddEvent(i)
  PROVE  StoryInv'
<1>1. /\ i \in Ids /\ state[i] = next[i] /\ next[i] \in States
      /\ events[i] \in Seq(States) /\ SessionStory(i)
  BY StoredInIds DEF AddEvent, DriverInv, TypeOK, StoryInv
<1>2. /\ moved'[i] = FALSE /\ state' = state
      /\ events'[i] = Append(events[i], next[i])
  BY <1>1 DEF AddEvent, TypeOK
<1>3. /\ error[i] = ""
      /\ \A k \in DOMAIN events[i] : /\ Rank(events[i][k]) < Rank(next[i])
                                     /\ events[i][k] \notin Terminal
  BY <1>1 DEF AddEvent, SessionStory
<1>4. ErrorTold(i)'
  <2>1. PICK d \in Details :
          /\ detail' = [detail EXCEPT ![i] = d]
          /\ error' = IF next[i] = "failed" THEN [error EXCEPT ![i] = d] ELSE error
    BY DEF AddEvent
  <2>2. detail'[i] = d
    BY <1>1, <2>1 DEF TypeOK
  <2>3. error'[i] = IF next[i] = "failed" THEN d ELSE error[i]
    BY <1>1, <2>1 DEF TypeOK
  <2>4. state'[i] = next[i]
    BY <1>1, <1>2
  <2> QED
    BY <1>3, <2>2, <2>3, <2>4, Zenon DEF ErrorTold
<1> DEFINE n == Len(events[i]) + 1
<1>5. /\ n \in Nat /\ Len(events'[i]) = n /\ DOMAIN events'[i] = 1..n
      /\ DOMAIN events[i] = 1..(n - 1) /\ events'[i][n] = next[i]
      /\ \A k \in 1..(n - 1) : events'[i][k] = events[i][k]
  BY <1>1, <1>2, AppendProperties, LenProperties
<1> HIDE DEF n
<1>6. state'[i] = Last(events'[i]) /\ events'[i] # <<>>
  <2>1. n \in DOMAIN events'[i]
    <3>1. n >= 1
      BY <1>1 DEF n
    <3> QED
      BY <1>5, <3>1
  <2>2. events'[i] # <<>>
    BY <1>5, <2>1
  <2>3. Last(events'[i]) = next[i]
    BY <1>5 DEF Last
  <2> QED
    BY <1>1, <1>2, <2>2, <2>3
<1>7. ASSUME NEW j \in DOMAIN events'[i], NEW k \in DOMAIN events'[i], j < k
      PROVE  /\ Rank(events'[i][j]) < Rank(events'[i][k])
             /\ events'[i][j] \notin Terminal
  <2>1. j \in DOMAIN events[i] /\ events'[i][j] = events[i][j]
    BY <1>5, <1>7
  <2>2. CASE k = n
    BY <1>3, <1>5, <2>1, <2>2
  <2>3. CASE k # n
    <3>1. k \in DOMAIN events[i] /\ events'[i][k] = events[i][k]
      BY <1>5, <1>7, <2>3
    <3> QED
      BY <1>1, <1>7, <2>1, <3>1 DEF SessionStory
  <2> QED
    BY <2>2, <2>3
<1>8. SessionStory(i)'
  <2>1. StateTold(i)'
    BY <1>6 DEF StateTold
  <2> QED
    BY <1>2, <1>4, <1>7, <2>1 DEF SessionStory
<1>9. ASSUME NEW j \in Ids, j # i PROVE SessionStory(j)'
  <2>1. /\ state'[j] = state[j] /\ moved'[j] = moved[j] /\ events'[j] = events[j]
        /\ next'[j] = next[j]
    BY <1>1, <1>9 DEF AddEvent, TypeOK
  <2>2. detail'[j] = detail[j] /\ error'[j] = error[j]
    BY <1>1, <1>9 DEF AddEvent, TypeOK
  <2>3. SessionStory(j)
    BY DEF StoryInv
  <2> QED
    BY <2>1, <2>2, <2>3, StoryKept
<1> QED
  BY <1>8, <1>9 DEF StoryInv

-----------------------------------------------------------------------------
(* The history of a MAC.                                                   *)

\* The loop's equations, and that its answers are sequences of places.
LEMMA FoundType ==
  ASSUME TypeOK, NEW m, NEW limit \in Nat
  PROVE  /\ Found(m, limit) \in [0..count -> Seq(Nat)]
         /\ Found(m, limit)[0] = <<>>
         /\ \A n \in 1..count :
              Found(m, limit)[n] = Take(m, limit, Found(m, limit)[n-1], count + 1 - n)
<1> DEFINE S == Seq(Nat)
           step == [n \in 1..count |-> [x \in S |-> Take(m, limit, x, count + 1 - n)]]
<1>0. count \in Nat
  <2>1. count \in 0..MaxSessions
    BY DEF TypeOK
  <2> QED
    BY <2>1, SessionsAssumption
<1>1. ASSUME NEW n \in 1..count, NEW x \in S PROVE Take(m, limit, x, count + 1 - n) \in S
  <2>1. count + 1 - n \in Nat
    BY <1>0
  <2>2. Append(x, count + 1 - n) \in S
    BY <2>1
  <2> QED
    BY <2>2 DEF Take
<1>2. step \in [1..count -> [S -> S]]
  BY <1>1
<1>3. <<>> \in S
  OBVIOUS
<1>4. PICK g : LoopRun(g, count, S, <<>>, step)
  <2> HIDE DEF S, step
  <2> QED
    BY <1>0, <1>2, <1>3, LoopRuns
<1>5. \A n \in 1..count : g[n-1] \in S /\ g[n] = Take(m, limit, g[n-1], count + 1 - n)
  <2> SUFFICES ASSUME NEW n \in 1..count
               PROVE  g[n-1] \in S /\ g[n] = Take(m, limit, g[n-1], count + 1 - n)
    OBVIOUS
  <2>1. n - 1 \in 0..count
    BY <1>0
  <2>2. g[n-1] \in S
    BY <1>4, <2>1 DEF LoopRun
  <2> HIDE DEF S
  <2> QED
    BY <1>4, <2>2 DEF LoopRun
<1>6. g = [n \in 0..count |-> IF n = 0 THEN <<>>
                                     ELSE Take(m, limit, g[n-1], count + 1 - n)]
  <2>1. \A n \in 0..count : g[n] = IF n = 0 THEN <<>>
                                   ELSE Take(m, limit, g[n-1], count + 1 - n)
    BY <1>0, <1>4, <1>5 DEF LoopRun
  <2> QED
    BY <1>4, <2>1 DEF LoopRun
<1> DEFINE h == Found(m, limit)
<1>7. h = [n \in 0..count |-> IF n = 0 THEN <<>>
                                     ELSE Take(m, limit, h[n-1], count + 1 - n)]
  BY <1>6 DEF Found
<1>8. /\ h[0] = <<>>
      /\ \A n \in 1..count : h[n] = Take(m, limit, h[n-1], count + 1 - n)
  BY <1>0, <1>7
<1>9. \A n \in 0..count : h[n] \in S
  <2> HIDE DEF h, S
  <2> DEFINE T == {n \in Nat : n <= count => h[n] \in S}
  <2>1. 0 \in T
    BY <1>3, <1>8
  <2>2. ASSUME NEW n \in Nat, n \in T PROVE n + 1 \in T
    <3> SUFFICES ASSUME n + 1 <= count PROVE h[n + 1] \in S
      OBVIOUS
    <3>1. n + 1 \in 1..count /\ (n + 1) - 1 = n
      BY <1>0
    <3>2. h[n] \in S
      BY <1>0, <2>2
    <3> QED
      BY <1>1, <1>8, <3>1, <3>2
  <2>3. Nat \subseteq T
    <3> HIDE DEF T
    <3> QED
      BY <2>1, <2>2, Induction
  <2> QED
    BY <1>0, <2>3
<1> QED
  BY <1>7, <1>8, <1>9

\* The loop's invariant: h is right for the sessions from place first on.
From(h, m, limit, first) ==
  /\ Len(h) <= limit
  /\ \A k \in 1..Len(h) : h[k] \in first..count /\ mac[h[k]] = m
  /\ \A j, k \in 1..Len(h) : j < k => h[j] > h[k]
  /\ \A i \in first..count : mac[i] = m =>
       \/ \E k \in 1..Len(h) : h[k] = i
       \/ Len(h) = limit /\ \A k \in 1..Len(h) : h[k] > i

\* One more round keeps it.
LEMMA TakeKeeps ==
  ASSUME NEW m, NEW limit \in Nat, NEW h \in Seq(Nat), count \in Nat,
         NEW i \in 1..count, From(h, m, limit, i + 1)
  PROVE  From(Take(m, limit, h, i), m, limit, i)
<1> DEFINE l == Len(h)
<1>0. l \in Nat /\ l <= limit /\ i \in Nat
  BY DEF From
<1>1. \A k \in 1..l : h[k] \in i..count /\ h[k] > i /\ mac[h[k]] = m
  BY DEF From
<1> HIDE DEF l
<1>2. CASE l < limit /\ mac[i] = m
  <2> DEFINE t == Append(h, i)
  <2>1. Take(m, limit, h, i) = t
    BY <1>2 DEF Take, l
  <2>2. /\ Len(t) = l + 1 /\ t[l + 1] = i
        /\ \A k \in 1..l : t[k] = h[k]
    BY <1>0 DEF l
  <2> HIDE DEF t
  <2>3. \A k \in 1..l+1 : t[k] \in i..count /\ mac[t[k]] = m
    <3> SUFFICES ASSUME NEW k \in 1..l+1 PROVE t[k] \in i..count /\ mac[t[k]] = m
      OBVIOUS
    <3>1. CASE k \in 1..l
      BY <1>1, <2>2, <3>1
    <3>2. CASE k = l + 1
      BY <1>2, <2>2, <3>2
    <3> QED
      BY <1>0, <3>1, <3>2
  <2>4. \A j, k \in 1..l+1 : j < k => t[j] > t[k]
    <3> SUFFICES ASSUME NEW j \in 1..l+1, NEW k \in 1..l+1, j < k PROVE t[j] > t[k]
      OBVIOUS
    <3>1. j \in 1..l
      BY <1>0
    <3>2. CASE k \in 1..l
      BY <2>2, <3>1, <3>2 DEF From, l
    <3>3. CASE k = l + 1
      BY <1>1, <2>2, <3>1, <3>3
    <3> QED
      BY <1>0, <3>2, <3>3
  <2>5. ASSUME NEW n \in i..count, mac[n] = m PROVE \E k \in 1..l+1 : t[k] = n
    <3>1. CASE n = i
      BY <1>0, <2>2, <3>1
    <3>2. CASE n \in i+1..count
      <4>1. PICK k \in 1..l : h[k] = n
        BY <1>0, <1>2, <2>5, <3>2 DEF From, l
      <4> QED
        BY <1>0, <2>2, <4>1
    <3> QED
      BY <3>1, <3>2
  <2> QED
    BY <1>0, <1>2, <2>1, <2>2, <2>3, <2>4, <2>5 DEF From
<1>3. CASE ~(l < limit /\ mac[i] = m)
  <2>1. Take(m, limit, h, i) = h
    BY <1>3 DEF Take, l
  <2>2. ASSUME NEW n \in i..count, mac[n] = m
        PROVE  \/ \E k \in 1..l : h[k] = n
               \/ l = limit /\ \A k \in 1..l : h[k] > n
    <3>1. CASE n = i
      BY <1>0, <1>1, <1>3, <2>2, <3>1
    <3>2. CASE n \in i+1..count
      BY <2>2, <3>2 DEF From, l
    <3> QED
      BY <3>1, <3>2
  <2> QED
    BY <1>0, <1>1, <2>1, <2>2 DEF From, l
<1> QED
  BY <1>2, <1>3

\* History is right for all the sessions that are stored.
LEMMA HistoryRight ==
  ASSUME TypeOK, NEW m, NEW limit \in Nat
  PROVE  History(m, limit) \in Seq(Nat) /\ From(History(m, limit), m, limit, 1)
<1> DEFINE h == Found(m, limit)
           T == {n \in Nat : n <= count => From(h[n], m, limit, count + 1 - n)}
<1>0. count \in Nat
  <2>1. count \in 0..MaxSessions
    BY DEF TypeOK
  <2> QED
    BY <2>1, SessionsAssumption
<1>1. /\ h \in [0..count -> Seq(Nat)]
      /\ h[0] = <<>>
      /\ \A n \in 1..count : h[n] = Take(m, limit, h[n-1], count + 1 - n)
  BY FoundType
<1> HIDE DEF h
<1>2. 0 \in T
  <2>1. Len(h[0]) = 0
    BY <1>1
  <2>2. From(h[0], m, limit, count + 1)
    BY <1>0, <2>1 DEF From
  <2> QED
    BY <1>0, <2>2
<1>3. ASSUME NEW n \in Nat, n \in T PROVE n + 1 \in T
  <2> SUFFICES ASSUME n + 1 <= count PROVE From(h[n + 1], m, limit, count + 1 - (n + 1))
    OBVIOUS
  <2>1. h[n] \in Seq(Nat) /\ From(h[n], m, limit, count + 1 - n)
    BY <1>0, <1>1, <1>3
  <2>2. n + 1 \in 1..count /\ (n + 1) - 1 = n /\ count + 1 - (n + 1) = count - n
    BY <1>0
  <2>3. h[n + 1] = Take(m, limit, h[n], count - n)
    BY <1>1, <2>2
  <2>4. count - n \in 1..count /\ count + 1 - n = (count - n) + 1
    BY <1>0
  <2> QED
    BY <1>0, <2>1, <2>2, <2>3, <2>4, TakeKeeps
<1>4. Nat \subseteq T
  <2> HIDE DEF T
  <2> QED
    BY <1>2, <1>3, Induction
<1>5. From(h[count], m, limit, 1)
  BY <1>0, <1>4
<1> QED
  BY <1>0, <1>1, <1>5 DEF History, h

LEMMA HistoriesRight == TypeOK => NewestFirst
<1> SUFFICES ASSUME TypeOK, NEW m \in MACs, NEW limit \in 0..MaxLimit
             PROVE  LET h == History(m, limit) IN
                      /\ Len(h) <= limit
                      /\ \A j, k \in DOMAIN h : j < k => h[j] > h[k]
                      /\ \A i \in Stored : mac[i] = m /\ i \notin Range(h) =>
                           Len(h) = limit /\ \A k \in DOMAIN h : h[k] > i
                      /\ \A k \in DOMAIN h : mac[h[k]] = m
  BY DEF NewestFirst
<1> DEFINE h == History(m, limit)
<1>0. limit \in Nat
  BY SessionsAssumption
<1>1. h \in Seq(Nat) /\ From(h, m, limit, 1)
  BY <1>0, HistoryRight
<1> HIDE DEF h
<1>3. DOMAIN h = 1..Len(h)
  BY <1>1
<1>4. ASSUME NEW i \in Stored, mac[i] = m, i \notin Range(h)
      PROVE  Len(h) = limit /\ \A k \in DOMAIN h : h[k] > i
  <2>1. ~\E k \in 1..Len(h) : h[k] = i
    BY <1>3, <1>4 DEF Range
  <2> QED
    BY <1>1, <1>3, <1>4, <2>1 DEF From, Stored
<1> QED
  BY <1>1, <1>3, <1>4 DEF From, h

-----------------------------------------------------------------------------
(* What follows.                                                           *)

Inv == TypeOK /\ DriverInv /\ ScanInv /\ StoryInv

LEMMA InitInv == Init => Inv
<1>1. Init => ScanInv
  BY DEF Init, ScanInv, RightSessions
<1> QED
  BY <1>1, InitType, StoryInit DEF Inv

LEMMA StepInv == Inv /\ [Next]_vars => Inv'
<1> SUFFICES ASSUME Inv, [Next]_vars PROVE ScanInv' /\ StoryInv'
  BY NextInv DEF Inv
<1>1. /\ TypeOK /\ DriverInv /\ ScanInv /\ StoryInv
      /\ EndsStay /\ state' \in [Ids -> States]
  <2>1. TypeOK' /\ EndsStay
    BY NextInv, StepEndsStay DEF Inv
  <2> QED
    BY <2>1 DEF Inv, TypeOK
<1>2. ASSUME UNCHANGED <<state, events, detail, error, moved>>, \A i \in Ids : moved[i] => next'[i] = next[i]
      PROVE  StoryInv'
  BY <1>1, <1>2, StoryKept DEF StoryInv
<1>3. ASSUME NEW m \in MACs, Start(m) PROVE ScanInv' /\ StoryInv'
  <2>1. StoryInv'
    BY <1>2, <1>3 DEF Start
  <2> QED
    BY <1>1, <1>3, <2>1, OthersScan DEF Start
<1>4. ASSUME NEW i \in Stored, SetState(i) PROVE ScanInv' /\ StoryInv'
  BY <1>1, <1>4, StorySetState, OthersScan DEF SetState
<1>5. ASSUME NEW i \in Stored, AddEvent(i) PROVE ScanInv' /\ StoryInv'
  BY <1>1, <1>5, StoryAddEvent, OthersScan DEF AddEvent
<1>6. ASSUME NEW i \in Stored, NEW s \in States, Check(i, s) PROVE ScanInv' /\ StoryInv'
  <2>1. i \in Ids /\ ~moved[i]
    BY <1>1, <1>6, StoredInIds DEF Check, DriverInv
  <2>2. \A j \in Ids : moved[j] => next'[j] = next[j]
    BY <1>1, <1>6, <2>1 DEF Check, TypeOK
  <2>3. StoryInv'
    BY <1>2, <1>6, <2>2 DEF Check, session
  <2> QED
    BY <1>1, <1>6, <2>3, OthersScan DEF Check
<1>7. CASE AskActive \/ LookAt \/ FindActive \/ Respond
  <2>1. StoryInv'
    BY <1>2, <1>7 DEF AskActive, LookAt, FindActive, Respond, session
  <2> QED
    BY <1>1, <1>7, <2>1, HandlerScan
<1>8. CASE UNCHANGED vars
  <2>1. StoryInv'
    BY <1>2, <1>8 DEF vars, session
  <2> QED
    BY <1>1, <1>8, <2>1, OthersScan DEF vars
<1> QED
  BY <1>3, <1>4, <1>5, <1>6, <1>7, <1>8 DEF Next

LEMMA InvAlways == Spec => []Inv
BY InitInv, StepInv, PTL DEF Spec

\* Every variable keeps its type.
THEOREM TypeCorrect == Spec => []TypeOK
<1>1. Inv => TypeOK
  BY DEF Inv
<1> QED
  BY <1>1, InvAlways, PTL

\* handleSessions names the right sessions, however many of them change meanwhile.
THEOREM RightList == Spec => []RightSessions
<1>1. Inv => RightSessions
  BY DEF Inv, ScanInv
<1> QED
  BY <1>1, InvAlways, PTL

\* State and events of a session agree, its error is the detail it failed with, and it
\* ends once (Session.Transition).
THEOREM TrueStory == Spec => []Story
<1>1. Inv => Story
  BY StoryImplies DEF Inv
<1> QED
  BY <1>1, InvAlways, PTL

\* The history of a machine is its newest sessions, newest first
\* (MemorySessionStore.History).
THEOREM HistoryNewestFirst == Spec => []NewestFirst
<1>1. Inv => NewestFirst
  BY HistoriesRight DEF Inv
<1> QED
  BY <1>1, InvAlways, PTL

\* No session comes back from its end, or goes from the store.
THEOREM EndsForGood == Spec => EndIsEnd
<1>1. Inv /\ [Next]_vars => [EndsStay]_vars
  BY StepEndsStay DEF Inv
<1>2. Spec => [][EndsStay]_vars
  BY <1>1, InvAlways, PTL DEF Spec
<1> QED
  BY <1>2 DEF EndIsEnd, EndsStay
=============================================================================
