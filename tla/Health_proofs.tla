---------------------------- MODULE Health_proofs ----------------------------
(***************************************************************************)
(* Proofs about Health, for any number of probes, of requested runs and    *)
(* any capacity of the store: types, honest results, and the store as a    *)
(* log of the last results.                                                *)
(***************************************************************************)
EXTENDS Health, SequenceTheorems, TLAPS

LEMMA CapacityType == maxSize \in Nat /\ maxSize > 0
BY HealthAssumption DEF maxSize

LEMMA TickerIsRunner == Ticker \in Runners /\ Ticker \notin Testers
BY HealthAssumption DEF Runners

LEMMA NoRunType == NoRun \in Result
BY HealthAssumption DEF NoRun, Result

-----------------------------------------------------------------------------
(* aggregate.                                                              *)

\* The worst check exists: it is one of the checks, or OK.
LEMMA WorstIsWorst ==
  ASSUME NEW cs \in Seq(Status)
  PROVE  /\ Worst(cs) \in {OK, Warn, Fail}
         /\ Worst(cs) \in {OK} \cup {cs[i] : i \in DOMAIN cs}
         /\ \A i \in DOMAIN cs : cs[i] <= Worst(cs)
<1> DEFINE found == {OK} \cup {cs[i] : i \in DOMAIN cs}
<1>1. \A i \in DOMAIN cs : cs[i] \in {OK, Warn, Fail}
  BY HealthAssumption
<1>2. found \subseteq {OK, Warn, Fail}
  BY <1>1
<1>3. \E s \in found : \A i \in DOMAIN cs : cs[i] <= s
  <2>1. CASE \E i \in DOMAIN cs : cs[i] = Fail
    BY <1>1, <2>1 DEF OK, Warn, Fail
  <2>2. CASE /\ \A i \in DOMAIN cs : cs[i] # Fail
             /\ \E i \in DOMAIN cs : cs[i] = Warn
    BY <1>1, <2>2 DEF OK, Warn, Fail
  <2>3. CASE \A i \in DOMAIN cs : cs[i] \notin {Warn, Fail}
    BY <1>1, <2>3 DEF OK, Warn, Fail
  <2> QED
    BY <2>1, <2>2, <2>3
<1>4. Worst(cs) \in found /\ \A i \in DOMAIN cs : cs[i] <= Worst(cs)
  BY <1>3 DEF Worst
<1> QED
  BY <1>2, <1>4

-----------------------------------------------------------------------------
(* Type correctness.                                                       *)

LEMMA InitType == Init => TypeOK
<1> SUFFICES ASSUME Init PROVE TypeOK
  OBVIOUS
<1>1. results \in Seq(Result) /\ Len(results) <= maxSize
  BY CapacityType DEF Init
<1>2. checks \in [Runners -> Seq(Status)] /\ \A r \in Runners : Len(checks[r]) <= Targets
  BY HealthAssumption DEF Init
<1>3. hr \in [Runners -> Result]
  BY NoRunType DEF Init
<1>4. seen \in [Runners -> [Probes -> SUBSET Status]]
  BY DEF Init
<1>5. now \in 0..MaxTime
  BY HealthAssumption DEF Init
<1>6. pc \in [Runners -> PC] /\ \A t \in Testers : pc[t] \notin {"select", "stopped"}
  BY TickerIsRunner DEF Init, PC, Runners
<1> QED
  BY <1>1, <1>2, <1>3, <1>4, <1>5, <1>6 DEF Init, TypeOK

\* A run that begins, whoever begins it.
LEMMA BeginType ==
  ASSUME TypeOK, NEW r \in Runners, Begin(r)
  PROVE  /\ pc' \in [Runners -> PC]
         /\ \A t \in Testers : pc'[t] \notin {"select", "stopped"}
         /\ checks' \in [Runners -> Seq(Status)]
         /\ \A q \in Runners : Len(checks'[q]) <= Targets
         /\ seen' \in [Runners -> [Probes -> SUBSET Status]]
<1>1. <<>> \in Seq(Status) /\ Len(<<>>) <= Targets
  BY HealthAssumption
<1>2. checks' \in [Runners -> Seq(Status)] /\ \A q \in Runners : Len(checks'[q]) <= Targets
  BY <1>1 DEF Begin, TypeOK
<1>3. [k \in Probes |-> {target[k]}] \in [Probes -> SUBSET Status]
  BY DEF TypeOK
<1>4. seen' \in [Runners -> [Probes -> SUBSET Status]]
  BY <1>3 DEF Begin, TypeOK
<1>5. /\ pc' \in [Runners -> PC]
      /\ \A t \in Testers : pc'[t] \notin {"select", "stopped"}
  BY DEF Begin, TypeOK, PC, Runners
<1> QED
  BY <1>2, <1>4, <1>5

LEMMA StoreType ==
  ASSUME TypeOK, NEW e \in Result, Store(e)
  PROVE  results' \in Seq(Result) /\ Len(results') <= maxSize
<1>1. CASE Len(results) >= maxSize
  <2>1. results # <<>> /\ results \in Seq(Result) /\ Len(results) = maxSize
    BY <1>1, CapacityType DEF TypeOK
  <2>2. Tail(results) \in Seq(Result) /\ Len(Tail(results)) = maxSize - 1
    BY <2>1, HeadTailProperties
  <2>3. results' = Append(Tail(results), e)
    BY <1>1 DEF Store
  <2> QED
    BY <2>2, <2>3, CapacityType
<1>2. CASE ~(Len(results) >= maxSize)
  <2>1. results' = Append(results, e)
    BY <1>2 DEF Store
  <2> QED
    BY <1>2, <2>1, CapacityType DEF TypeOK
<1> QED
  BY <1>1, <1>2

LEMMA StepType == TypeOK /\ [Next]_vars => TypeOK'
<1> SUFFICES ASSUME TypeOK, [Next]_vars PROVE TypeOK'
  OBVIOUS
<1> USE TickerIsRunner
<1>1. ASSUME NEW r \in Runners, Check(r) PROVE TypeOK'
  <2>1. /\ checks[r] \in Seq(Status) /\ Len(checks[r]) < Targets
        /\ checks' = [checks EXCEPT ![r] = Append(@, target[Len(@) + 1])]
    BY <1>1 DEF Check, TypeOK
  <2>2. target[Len(checks[r]) + 1] \in Status
    BY <2>1, HealthAssumption DEF TypeOK, Probes
  <2>3. /\ Append(checks[r], target[Len(checks[r]) + 1]) \in Seq(Status)
        /\ Len(Append(checks[r], target[Len(checks[r]) + 1])) <= Targets
    BY <2>1, <2>2, HealthAssumption
  <2>4. checks' \in [Runners -> Seq(Status)]
        /\ \A q \in Runners : Len(checks'[q]) <= Targets
    BY <2>1, <2>3 DEF TypeOK
  <2> QED
    BY <1>1, <2>4 DEF Check, TypeOK
<1>2. ASSUME NEW r \in Runners, Aggregate(r) PROVE TypeOK'
  <2>1. Worst(checks[r]) \in {OK, Warn, Fail}
    BY WorstIsWorst DEF TypeOK
  <2>2. [status |-> Worst(checks[r]), at |-> now] \in Result
    BY <2>1 DEF Result, TypeOK
  <2>3. hr' \in [Runners -> Result]
    BY <1>2, <2>2 DEF Aggregate, TypeOK
  <2>4. <<>> \in Seq(Status) /\ Len(<<>>) <= Targets
    BY HealthAssumption
  <2>5. checks' \in [Runners -> Seq(Status)]
        /\ \A q \in Runners : Len(checks'[q]) <= Targets
    BY <1>2, <2>4 DEF Aggregate, TypeOK
  <2>6. /\ pc' \in [Runners -> PC]
        /\ \A t \in Testers : pc'[t] \notin {"select", "stopped"}
    BY <1>2 DEF Aggregate, TypeOK, PC, Runners
  <2> QED
    BY <1>2, <2>3, <2>5, <2>6 DEF Aggregate, TypeOK
<1>3. ASSUME NEW r \in Runners, Add(r) PROVE TypeOK'
  <2>1. results' \in Seq(Result) /\ Len(results') <= maxSize
    BY <1>3, StoreType DEF Add, TypeOK
  <2>2. hr' \in [Runners -> Result]
    BY <1>3, NoRunType DEF Add, TypeOK
  <2>3. seen' \in [Runners -> [Probes -> SUBSET Status]]
    BY <1>3 DEF Add, TypeOK
  <2>4. /\ pc' \in [Runners -> PC]
        /\ \A t \in Testers : pc'[t] \notin {"select", "stopped"}
    BY <1>3 DEF Add, TypeOK, PC, Runners
  <2>5. ticking' \in BOOLEAN
    BY <1>3 DEF Add, TypeOK
  <2> QED
    BY <1>3, <2>1, <2>2, <2>3, <2>4, <2>5 DEF Add, TypeOK
<1>4. ASSUME NEW t \in Testers, handleTest(t) PROVE TypeOK'
  <2>1. t \in Runners /\ Begin(t)
    BY <1>4 DEF handleTest, Runners
  <2> QED
    BY <1>4, <2>1, BeginType DEF handleTest, TypeOK
<1>5. CASE Tick
  BY <1>5 DEF Tick, runs, TypeOK
<1>6. CASE SelectTick
  BY <1>6, BeginType DEF SelectTick, TypeOK
<1>7. CASE SelectDone
  <2>1. /\ pc' \in [Runners -> PC]
        /\ \A t \in Testers : pc'[t] \notin {"select", "stopped"}
    BY <1>7 DEF SelectDone, TypeOK, PC, Runners
  <2> QED
    BY <1>7, <2>1 DEF SelectDone, TypeOK
<1>8. CASE Cancel
  BY <1>8 DEF Cancel, runs, TypeOK
<1>9. CASE Clock
  BY <1>9, HealthAssumption DEF Clock, runs, TypeOK
<1>10. CASE Change
  <2>1. PICK k \in Probes, s \in Status :
          /\ target' = [target EXCEPT ![k] = s]
          /\ seen' = [r \in Runners |-> IF pc[r] = "probing"
                                        THEN [seen[r] EXCEPT ![k] = @ \cup {s}]
                                        ELSE seen[r]]
    BY <1>10 DEF Change
  <2>2. target' \in [Probes -> Status]
    BY <2>1 DEF TypeOK
  <2>3. ASSUME NEW r \in Runners
        PROVE  /\ [seen[r] EXCEPT ![k] = @ \cup {s}] \in [Probes -> SUBSET Status]
               /\ seen[r] \in [Probes -> SUBSET Status]
    BY DEF TypeOK
  <2>4. seen' \in [Runners -> [Probes -> SUBSET Status]]
    BY <2>1, <2>3
  <2> QED
    BY <1>10, <2>2, <2>4 DEF Change, runs, TypeOK
<1>11. CASE UNCHANGED vars
  BY <1>11 DEF vars, runs, TypeOK
<1> QED
  BY <1>1, <1>2, <1>3, <1>4, <1>5, <1>6, <1>7, <1>8, <1>9, <1>10, <1>11
  DEF Next, RunStep

\* Type correctness; in particular the store never outgrows its capacity.
THEOREM TypeCorrect == Spec => []TypeOK
BY InitType, StepType, PTL DEF Spec

-----------------------------------------------------------------------------
(* Honest results.                                                         *)

\* While a run looks at its targets, it knows of each what it is now; and what
\* it has noted was so during the run.
RunInv(r) ==
  pc[r] = "probing" =>
    /\ \A k \in Probes : target[k] \in seen[r][k]
    /\ \A i \in DOMAIN checks[r] : checks[r][i] \in seen[r][i]

RunsInv == \A r \in Runners : RunInv(r) /\ (pc[r] = "add" => Honest(r))

LEMMA InitRuns == Init => RunsInv
<1> SUFFICES ASSUME Init, NEW r \in Runners
             PROVE  RunInv(r) /\ (pc[r] = "add" => Honest(r))
  BY DEF RunsInv
<1>1. pc[r] = "probing" => r = Ticker
  BY DEF Init
<1>2. checks[r] = <<>> /\ pc[r] # "add"
  BY DEF Init
<1>3. r = Ticker => \A k \in Probes : seen[r][k] = {target[k]}
  BY DEF Init
<1> QED
  BY <1>1, <1>2, <1>3 DEF RunInv

\* What a run knows stays so when the step is none of its own and its targets
\* do not change.
LEMMA OtherRun ==
  ASSUME NEW r \in Runners, RunInv(r), pc[r] = "add" => Honest(r),
         pc'[r] = pc[r], checks'[r] = checks[r], hr'[r] = hr[r], seen'[r] = seen[r],
         target' = target
  PROVE  RunInv(r)' /\ (pc'[r] = "add" => Honest(r)')
BY DEF RunInv, Honest

\* A run that begins knows its targets and has noted nothing.
LEMMA BeginRuns ==
  ASSUME TypeOK, RunsInv, NEW r \in Runners, Begin(r), UNCHANGED <<target, hr>>
  PROVE  RunsInv'
<1> SUFFICES ASSUME NEW q \in Runners
             PROVE  RunInv(q)' /\ (pc'[q] = "add" => Honest(q)')
  BY DEF RunsInv
<1>1. CASE q = r
  <2>1. pc'[q] = "probing" /\ checks'[q] = <<>>
    BY <1>1 DEF Begin, TypeOK
  <2>2. \A k \in Probes : target'[k] \in seen'[q][k]
    BY <1>1 DEF Begin, TypeOK
  <2> QED
    BY <2>1, <2>2 DEF RunInv
<1>2. CASE q # r
  <2>1. pc'[q] = pc[q] /\ checks'[q] = checks[q] /\ seen'[q] = seen[q]
    BY <1>2 DEF Begin, TypeOK
  <2> QED
    BY <2>1, OtherRun DEF RunsInv
<1> QED
  BY <1>1, <1>2

LEMMA StepRuns == TypeOK /\ RunsInv /\ [Next]_vars => RunsInv'
<1> SUFFICES ASSUME TypeOK, RunsInv, [Next]_vars PROVE RunsInv'
  OBVIOUS
<1>1. ASSUME NEW r \in Runners, Check(r) PROVE RunsInv'
  <2> SUFFICES ASSUME NEW q \in Runners
               PROVE  RunInv(q)' /\ (pc'[q] = "add" => Honest(q)')
    BY DEF RunsInv
  <2>1. CASE q = r
    <3> DEFINE n == Len(checks[r]) + 1
    <3>1. /\ pc[r] = "probing" /\ checks[r] \in Seq(Status) /\ n \in Probes
          /\ checks'[r] = Append(checks[r], target[n])
          /\ UNCHANGED <<target, pc, hr, seen>>
      BY <1>1, HealthAssumption DEF Check, TypeOK, Probes
    <3>2. RunInv(r)
      BY DEF RunsInv
    <3>3. target[n] \in seen[r][n]
      BY <3>1, <3>2 DEF RunInv
    <3>4. \A i \in DOMAIN checks[r] : checks[r][i] \in seen[r][i]
      BY <3>1, <3>2 DEF RunInv
    <3>5. /\ DOMAIN checks'[r] = 1..n /\ checks'[r][n] = target[n]
          /\ \A i \in 1..n-1 : i \in DOMAIN checks[r] /\ checks'[r][i] = checks[r][i]
          /\ n \in Nat
      BY <3>1
    <3> HIDE DEF n
    <3>6. \A i \in DOMAIN checks'[r] : checks'[r][i] \in seen[r][i]
      <4> SUFFICES ASSUME NEW i \in 1..n PROVE checks'[r][i] \in seen[r][i]
        BY <3>5
      <4>1. i = n \/ i \in 1..n-1
        BY <3>5
      <4> QED
        BY <3>3, <3>4, <3>5, <4>1
    <3> QED
      BY <2>1, <3>1, <3>2, <3>6 DEF RunInv
  <2>2. CASE q # r
    <3>1. checks'[q] = checks[q] /\ UNCHANGED <<target, pc, hr, seen>>
      BY <1>1, <2>2 DEF Check, TypeOK
    <3> QED
      BY <3>1, OtherRun DEF RunsInv
  <2> QED
    BY <2>1, <2>2
<1>2. ASSUME NEW r \in Runners, Aggregate(r) PROVE RunsInv'
  <2> SUFFICES ASSUME NEW q \in Runners
               PROVE  RunInv(q)' /\ (pc'[q] = "add" => Honest(q)')
    BY DEF RunsInv
  <2>1. CASE q = r
    <3> DEFINE worst == Worst(checks[r])
    <3>1. /\ pc[r] = "probing" /\ Len(checks[r]) >= Targets
          /\ pc'[r] = "add" /\ hr'[r].status = worst /\ seen' = seen
      BY <1>2 DEF Aggregate, TypeOK
    <3>2. /\ worst \in {OK} \cup {checks[r][i] : i \in DOMAIN checks[r]}
          /\ \A i \in DOMAIN checks[r] : checks[r][i] <= worst
      BY WorstIsWorst DEF TypeOK
    <3>3. \A i \in DOMAIN checks[r] : checks[r][i] \in seen[r][i]
      BY <3>1 DEF RunsInv, RunInv
    <3>4. DOMAIN checks[r] = Probes
      BY <3>1, HealthAssumption DEF TypeOK, Probes
    <3>5. \A k \in Probes : \E s \in seen[r][k] : s <= worst
      BY <3>2, <3>3, <3>4
    <3>6. worst = OK \/ \E k \in Probes : worst \in seen[r][k]
      BY <3>2, <3>3, <3>4
    <3> HIDE DEF worst
    <3> QED
      BY <2>1, <3>1, <3>5, <3>6 DEF Honest, RunInv
  <2>2. CASE q # r
    <3>1. /\ pc'[q] = pc[q] /\ checks'[q] = checks[q] /\ hr'[q] = hr[q]
          /\ UNCHANGED <<target, seen>>
      BY <1>2, <2>2 DEF Aggregate, TypeOK
    <3> QED
      BY <3>1, OtherRun DEF RunsInv
  <2> QED
    BY <2>1, <2>2
<1>3. ASSUME NEW r \in Runners, Add(r) PROVE RunsInv'
  <2> SUFFICES ASSUME NEW q \in Runners
               PROVE  RunInv(q)' /\ (pc'[q] = "add" => Honest(q)')
    BY DEF RunsInv
  <2>1. CASE q = r
    <3>1. pc'[q] \in {"select", "idle"}
      BY <1>3, <2>1 DEF Add, TypeOK
    <3> QED
      BY <3>1 DEF RunInv
  <2>2. CASE q # r
    <3>1. /\ pc'[q] = pc[q] /\ hr'[q] = hr[q] /\ seen'[q] = seen[q]
          /\ UNCHANGED <<target, checks>>
      BY <1>3, <2>2 DEF Add, TypeOK
    <3> QED
      BY <3>1, OtherRun DEF RunsInv
  <2> QED
    BY <2>1, <2>2
<1>4. ASSUME NEW t \in Testers, handleTest(t) PROVE RunsInv'
  BY <1>4, BeginRuns DEF handleTest, Runners
<1>5. CASE SelectTick
  BY <1>5, TickerIsRunner, BeginRuns DEF SelectTick
<1>6. CASE SelectDone
  <2> SUFFICES ASSUME NEW q \in Runners
               PROVE  RunInv(q)' /\ (pc'[q] = "add" => Honest(q)')
    BY DEF RunsInv
  <2>1. CASE q = Ticker
    <3>1. pc'[q] = "stopped"
      BY <1>6, <2>1 DEF SelectDone, TypeOK
    <3> QED
      BY <3>1 DEF RunInv
  <2>2. CASE q # Ticker
    <3>1. pc'[q] = pc[q] /\ UNCHANGED <<target, checks, hr, seen>>
      BY <1>6, <2>2 DEF SelectDone, TypeOK
    <3> QED
      BY <3>1, OtherRun DEF RunsInv
  <2> QED
    BY <2>1, <2>2
<1>7. CASE Change
  <2> SUFFICES ASSUME NEW q \in Runners
               PROVE  RunInv(q)' /\ (pc'[q] = "add" => Honest(q)')
    BY DEF RunsInv
  <2>1. PICK k \in Probes, s \in Status :
          /\ target' = [target EXCEPT ![k] = s]
          /\ seen' = [r \in Runners |-> IF pc[r] = "probing"
                                        THEN [seen[r] EXCEPT ![k] = @ \cup {s}]
                                        ELSE seen[r]]
          /\ UNCHANGED runs
    BY <1>7 DEF Change
  <2>2. pc' = pc /\ checks' = checks /\ hr' = hr
    BY <2>1 DEF runs
  <2>3. CASE pc[q] = "probing"
    <3>1. seen'[q] = [seen[q] EXCEPT ![k] = @ \cup {s}]
      BY <2>1, <2>3
    <3>2. \A j \in Probes : /\ seen[q][j] \subseteq seen'[q][j]
                            /\ j = k => s \in seen'[q][j]
      BY <3>1 DEF TypeOK
    <3>3. /\ \A j \in Probes : target[j] \in seen[q][j]
          /\ \A i \in DOMAIN checks[q] : checks[q][i] \in seen[q][i]
      BY <2>3 DEF RunsInv, RunInv
    <3>4. \A j \in Probes : target'[j] \in seen'[q][j]
      BY <2>1, <3>2, <3>3 DEF TypeOK
    <3>5. DOMAIN checks[q] \subseteq Probes
      BY HealthAssumption DEF TypeOK, Probes
    <3> QED
      BY <2>2, <2>3, <3>2, <3>3, <3>4, <3>5 DEF RunInv
  <2>4. CASE pc[q] # "probing"
    <3>1. seen'[q] = seen[q]
      BY <2>1, <2>4
    <3>2. pc[q] = "add" => Honest(q)
      BY DEF RunsInv
    <3> QED
      BY <2>2, <2>4, <3>1, <3>2 DEF RunInv, Honest
  <2> QED
    BY <2>3, <2>4
<1>8. CASE Tick \/ Cancel \/ Clock \/ UNCHANGED vars
  <2>1. UNCHANGED <<target, pc, checks, hr, seen>>
    BY <1>8 DEF Tick, Cancel, Clock, vars, runs
  <2> QED
    BY <2>1, OtherRun DEF RunsInv
<1> QED
  BY <1>1, <1>2, <1>3, <1>4, <1>5, <1>6, <1>7, <1>8 DEF Next, RunStep

\* A result is never better than what a target was throughout the run and
\* never worse than what one was during it, whatever changes meanwhile.
THEOREM Honesty == Spec => []HonestResults
<1>1. RunsInv => HonestResults
  BY DEF RunsInv, HonestResults
<1> QED
  BY <1>1, InitType, StepType, InitRuns, StepRuns, PTL DEF Spec

-----------------------------------------------------------------------------
(* The store.                                                              *)

LEMMA StoreRefines ==
  ASSUME TypeOK, NEW e \in Result, Store(e)
  PROVE  Abstract!Add(e)
<1>1. results \in Seq(Result) /\ Len(results) <= maxSize
  BY DEF TypeOK
<1>2. Len(Append(results, e)) = Len(results) + 1
  BY <1>1
<1>3. CASE Len(results) >= maxSize
  <2>1. results # <<>>
    BY <1>1, <1>3, CapacityType
  <2>2. Tail(Append(results, e)) = Append(Tail(results), e)
    BY <1>1, <2>1, HeadTailAppend
  <2>3. Abstract!Trim(Append(results, e)) = Tail(Append(results, e))
    BY <1>1, <1>2, <1>3, CapacityType DEF Abstract!Trim
  <2> QED
    BY <1>3, <2>2, <2>3 DEF Store, Abstract!Add
<1>4. CASE ~(Len(results) >= maxSize)
  <2>1. Abstract!Trim(Append(results, e)) = Append(results, e)
    BY <1>1, <1>2, <1>4, CapacityType DEF Abstract!Trim
  <2> QED
    BY <1>4, <2>1 DEF Store, Abstract!Add
<1> QED
  BY <1>3, <1>4

\* The store of a checker is the log of its last results: runs that end at the
\* same time lose none, and the oldest result goes first.
THEOREM Refinement == Spec => ImplementsRecentEntries
<1>1. Init => Abstract!Init
  BY DEF Init, Abstract!Init
<1>2. TypeOK /\ [Next]_vars => [Abstract!Next]_results
  <2> SUFFICES ASSUME TypeOK, [Next]_vars PROVE Abstract!Next \/ UNCHANGED results
    OBVIOUS
  <2>1. ASSUME NEW r \in Runners, Add(r) PROVE Abstract!Next
    <3>1. hr[r] \in Result /\ Store(hr[r])
      BY <2>1 DEF Add, TypeOK
    <3>2. PICK e \in Result : e = hr[r]
      BY <3>1
    <3>3. Abstract!Add(e)
      BY <3>1, <3>2, StoreRefines
    <3> QED
      BY <3>3 DEF Abstract!Next
  <2>2. ASSUME NEW r \in Runners, Check(r) \/ Aggregate(r) PROVE UNCHANGED results
    BY <2>2 DEF Check, Aggregate
  <2>3. ASSUME \/ \E t \in Testers : handleTest(t)
               \/ Tick \/ SelectTick \/ SelectDone \/ Cancel
               \/ Clock \/ Change \/ UNCHANGED vars
        PROVE  UNCHANGED results
    BY <2>3 DEF handleTest, Tick, SelectTick, SelectDone, Cancel, Clock, Change, vars
  <2> QED
    BY <2>1, <2>2, <2>3 DEF Next, RunStep
<1> QED
  BY <1>1, <1>2, InitType, StepType, PTL
  DEF Spec, ImplementsRecentEntries, Abstract!Spec
=============================================================================
