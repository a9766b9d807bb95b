-------------------------------- MODULE Health --------------------------------
(***************************************************************************)
(* The health checker: Checker.Start runs all probes at once and then at   *)
(* every tick, POST /api/v1/test runs them on demand, GET /api/v1/status   *)
(* reports the latest result.  Every run is a goroutine of its own; runs   *)
(* share nothing but the ResultStore, whose methods hold its lock.         *)
(*                                                                         *)
(* A probe sees its target (a file, a disk, the HTTP server) as it is at   *)
(* the moment of the Check.  Targets change at any time.                   *)
(***************************************************************************)
EXTENDS Naturals, Sequences

CONSTANTS Targets,      \* how many probes there are: the probes are 1..Targets
          Status,       \* what a probe can find: OK = 0, Warn = 1, Fail = 2
          Testers,      \* goroutines that answer POST /api/v1/test
          Ticker,       \* the goroutine of Checker.Start
          Capacity,     \* ResultStore.maxSize
          MaxTime       \* bound: the clock stops there

OK == 0
Warn == 1
Fail == 2

ASSUME HealthAssumption ==
  /\ Targets \in Nat
  /\ Status \subseteq {OK, Warn, Fail}
  /\ Ticker \notin Testers
  /\ MaxTime \in Nat
  /\ Capacity \in Nat

Probes == 1..Targets
Runners == Testers \cup {Ticker}

\* NewResultStore's capacity.
maxSize == IF Capacity = 0 THEN 100 ELSE Capacity

\* A domain.HealthResult without the list of its checks.
Result == [status : {OK, Warn, Fail}, at : 0..MaxTime]

VARIABLES
  target,     \* what each probe would find now
  now,        \* the clock
  results,    \* ResultStore.results, oldest first
  pc, checks, hr,   \* a run: where it is, the checks so far, the aggregate
  ticking,    \* the ticker exists
  tick,       \* there is a tick in the ticker's channel, which holds one
  cancelled   \* the context of Start is cancelled

\* History: what each target has been while a run was under way.
VARIABLE seen

runs == <<pc, checks, hr>>
vars == <<target, now, results, runs, ticking, tick, cancelled, seen>>

\* "idle": no request, "select": Start waits, "stopped": Start has returned.
PC == {"idle", "probing", "add", "select", "stopped"}

NoRun == [status |-> OK, at |-> 0]          \* hr of a runner without a result

Init == /\ target \in [Probes -> Status]
        /\ now = 0
        /\ results = <<>>
        /\ pc = [r \in Runners |-> IF r = Ticker THEN "probing" ELSE "idle"]
        /\ checks = [r \in Runners |-> <<>>]
        /\ hr = [r \in Runners |-> NoRun]
        /\ ticking = FALSE /\ tick = FALSE /\ cancelled = FALSE
        /\ seen = [r \in Runners |-> [k \in Probes |->
                     IF r = Ticker THEN {target[k]} ELSE {}]]

-----------------------------------------------------------------------------
(* Checker.RunOnce.                                                        *)

\* A run begins, with no checks.
Begin(r) == /\ pc' = [pc EXCEPT ![r] = "probing"]
            /\ checks' = [checks EXCEPT ![r] = <<>>]
            /\ seen' = [seen EXCEPT ![r] = [k \in Probes |-> {target[k]}]]

\* The next probe looks at its target.
Check(r) == /\ pc[r] = "probing" /\ Len(checks[r]) < Targets
            /\ checks' = [checks EXCEPT ![r] = Append(@, target[Len(@) + 1])]
            /\ UNCHANGED <<target, now, results, pc, hr, ticking, tick, cancelled, seen>>

\* Slip: the last check decides.
LastOne(cs) == IF cs = <<>> THEN OK ELSE cs[Len(cs)]

\* aggregate: the worst of the checks, OK if there are none.
Worst(cs) == CHOOSE s \in {OK} \cup {cs[i] : i \in DOMAIN cs} :
               \A i \in DOMAIN cs : cs[i] <= s

Aggregate(r) == /\ pc[r] = "probing" /\ Len(checks[r]) >= Targets
                /\ hr' = [hr EXCEPT ![r] = [status |-> Worst(checks[r]), at |-> now]]
                /\ pc' = [pc EXCEPT ![r] = "add"]
                /\ checks' = [checks EXCEPT ![r] = <<>>]      \* moved into hr
                /\ UNCHANGED <<target, now, results, ticking, tick, cancelled, seen>>

\* Slip: the store is full one result too late.
StoreOneMore(result) ==
  results' = Append(IF Len(results) > maxSize THEN Tail(results) ELSE results, result)

\* Slip: the newest result makes room.
StoreNewestGoes(result) ==
  results' = Append(IF Len(results) >= maxSize THEN SubSeq(results, 1, maxSize - 1) ELSE results,
                    result)

\* ResultStore.Add, under the write lock.
Store(result) ==
  results' = Append(IF Len(results) >= maxSize THEN Tail(results) ELSE results, result)

\* The run ends: the API handler answers, Start goes (back) to its select.
Add(r) == /\ pc[r] = "add"
          /\ Store(hr[r])
          /\ pc' = [pc EXCEPT ![r] = IF r = Ticker THEN "select" ELSE "idle"]
          /\ ticking' = (ticking \/ r = Ticker)
          /\ hr' = [hr EXCEPT ![r] = NoRun]
          /\ seen' = [seen EXCEPT ![r] = [k \in Probes |-> {}]]
          /\ UNCHANGED <<target, now, checks, tick, cancelled>>

RunStep(r) == Check(r) \/ Aggregate(r) \/ Add(r)

-----------------------------------------------------------------------------
(* Checker.Start and handleTest.                                           *)

\* The interval has passed; a tick nobody has taken is not doubled.
Tick == /\ ticking /\ ~tick
        /\ tick' = TRUE
        /\ UNCHANGED <<target, now, results, runs, ticking, cancelled, seen>>

\* Slip: Start returns after the first tick.
SelectTickOnce == /\ pc[Ticker] = "select" /\ tick
                  /\ tick' = FALSE /\ ticking' = FALSE
                  /\ pc' = [pc EXCEPT ![Ticker] = "stopped"]
                  /\ UNCHANGED <<target, now, results, checks, hr, cancelled, seen>>

SelectTick == /\ pc[Ticker] = "select" /\ tick
              /\ tick' = FALSE
              /\ Begin(Ticker)
              /\ UNCHANGED <<target, now, results, hr, ticking, cancelled>>

\* Slip: the context is looked at only when there is no tick.
SelectDoneIdle == /\ pc[Ticker] = "select" /\ cancelled /\ ~tick
                  /\ pc' = [pc EXCEPT ![Ticker] = "stopped"]
                  /\ ticking' = FALSE
                  /\ UNCHANGED <<target, now, results, checks, hr, tick, cancelled, seen>>

\* When a tick and the end of the context are both there, select may take
\* either of them.
SelectDone == /\ pc[Ticker] = "select" /\ cancelled
              /\ pc' = [pc EXCEPT ![Ticker] = "stopped"]
              /\ ticking' = FALSE
              /\ UNCHANGED <<target, now, results, checks, hr, tick, cancelled, seen>>

handleTest(t) == /\ pc[t] = "idle"
                 /\ Begin(t)
                 /\ UNCHANGED <<target, now, results, hr, ticking, tick, cancelled>>

\* runServe's cancel, after a signal.
Cancel == /\ ~cancelled
          /\ cancelled' = TRUE
          /\ UNCHANGED <<target, now, results, runs, ticking, tick, seen>>

-----------------------------------------------------------------------------
(* The surroundings.                                                       *)

Clock == /\ now < MaxTime
         /\ now' = now + 1
         /\ UNCHANGED <<target, results, runs, ticking, tick, cancelled, seen>>

Change == \E k \in Probes, s \in Status :
  /\ s # target[k]
  /\ target' = [target EXCEPT ![k] = s]
  /\ seen' = [r \in Runners |-> IF pc[r] = "probing"
                                THEN [seen[r] EXCEPT ![k] = @ \cup {s}]
                                ELSE seen[r]]
  /\ UNCHANGED <<now, results, runs, ticking, tick, cancelled>>

Next == \/ \E r \in Runners : RunStep(r)
        \/ \E t \in Testers : handleTest(t)
        \/ Tick \/ SelectTick \/ SelectDone \/ Cancel
        \/ Clock \/ Change

\* Probes return (they have timeouts), the ticker ticks, a select that can go
\* on does, and one that finds both channels ready again and again takes each
\* of them some time: Go's select chooses at random.
Fairness == /\ \A r \in Runners : WF_vars(RunStep(r))
            /\ WF_vars(Tick)
            /\ WF_vars(SelectTick)
            /\ SF_vars(SelectDone)

Spec == Init /\ [][Next]_vars
FairSpec == Spec /\ Fairness

-----------------------------------------------------------------------------
(* Properties.                                                             *)

TypeOK == /\ target \in [Probes -> Status]
          /\ now \in 0..MaxTime
          /\ results \in Seq(Result) /\ Len(results) <= maxSize
          /\ pc \in [Runners -> PC]
          /\ \A t \in Testers : pc[t] \notin {"select", "stopped"}
          /\ checks \in [Runners -> Seq(Status)]
          /\ \A r \in Runners : Len(checks[r]) <= Targets
          /\ hr \in [Runners -> Result]
          /\ ticking \in BOOLEAN /\ tick \in BOOLEAN /\ cancelled \in BOOLEAN
          /\ seen \in [Runners -> [Probes -> SUBSET Status]]

\* The probes look one after the other, and targets change in between: a
\* result need not be true of any one moment.  It is never better than what a
\* target was throughout the run, and never worse than what one was during it.
Honest(r) ==
  /\ \A k \in Probes : \E s \in seen[r][k] : s <= hr[r].status
  /\ hr[r].status = OK \/ \E k \in Probes : hr[r].status \in seen[r][k]
HonestResults == \A r \in Runners : pc[r] = "add" => Honest(r)

\* The result store is a log of the last results: the oldest one goes first.
Abstract == INSTANCE RecentEntries
              WITH window <- results, Entry <- Result, Size <- maxSize
ImplementsRecentEntries == Abstract!Spec

\* ResultStore.Latest and ResultStore.Recent.
Latest == results[Len(results)]
Recent(n) == [i \in 1..(IF n > Len(results) THEN Len(results) ELSE n) |->
                results[Len(results) + 1 - i]]

\* README.md:402, "catches missing files, disk space issues, and service failures
\* before users notice": a target that fails for good ends up in the status
\* GET /api/v1/status reports, and stays there, whatever slow tests file late.
Reported == results # <<>> /\ Latest.status = Fail
FaultReported ==
  \A k \in Probes : (<>[](target[k] = Fail) /\ []~cancelled) => <>[]Reported

\* The checker's goroutine ends after the shutdown has cancelled its context.
CheckerStops == cancelled ~> pc[Ticker] = "stopped"
=============================================================================
