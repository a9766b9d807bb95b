--------------------------------- MODULE Sessions ---------------------------------
(***************************************************************************)
(* Boot sessions: SessionManager, its store in memory, and the handler of  *)
(* the API that lists the active ones.  A session is driven by the one     *)
(* goroutine that started it, as the manager is meant to be used; nothing  *)
(* in the program starts one yet.  The store hands out the sessions        *)
(* themselves: they change while the store's lock is held by a reader.     *)
(***************************************************************************)
EXTENDS Naturals, SequencesExt

CONSTANTS MACs,
          Details,      \* what a transition may be given as its detail, or nothing: ""
          MaxSessions,  \* bound: sessions that are started, the store forgets none
          MaxLimit      \* bound: how many sessions of a MAC are asked for

ASSUME SessionsAssumption == MaxSessions \in Nat /\ MaxLimit \in Nat
ASSUME DetailAssumption == "" \in Details

\* The store: count sessions, in the order they were started, and what is in each. Of an
\* event events has the State; detail is the Detail of a session's last one.
VARIABLES count, mac, state, events, detail, error,
          next,      \* the state a session's driver has found allowed, "" when idle
          moved,     \* the State of a session is written and its event is not
          scan,      \* FindActive: how many sessions it has looked at
          active,    \* what it has found so far
          api        \* the handler: "idle", "scan", or "write" its answer

\* History: the sessions that were active when the handler asked.
VARIABLE before

session == <<mac, state, events, detail, error>>
handler == <<scan, active, api, before>>
vars == <<count, session, next, moved, handler>>

Ids == 1..MaxSessions
Stored == 1..count

States == {"discover", "offer", "tftp", "ipxe", "menu", "boot", "done", "failed"}
validTransitions(s) ==
  CASE s = "discover" -> {"offer", "failed"}
    [] s = "offer"    -> {"tftp", "failed"}
    [] s = "tftp"     -> {"ipxe", "failed"}
    [] s = "ipxe"     -> {"menu", "boot", "failed"}
    [] s = "menu"     -> {"boot", "failed"}
    [] s = "boot"     -> {"done", "failed"}
    [] OTHER          -> {}

\* "StateDone and StateFailed are terminal states".
Terminal == {"done", "failed"}

\* Slip: one of the two is forgotten.
ActiveNotDone(s) == s # "done"
\* What FindActive takes for not terminal.
Active(s) == s \notin {"done", "failed"}

-----------------------------------------------------------------------------
(* Answers of the store: sessions are named by their place in it.          *)

\* History's loop from the newest session back: Found(m, limit)[n] is the answer
\* after n sessions have been looked at.
Take(m, limit, found, i) ==
  IF Len(found) < limit /\ mac[i] = m THEN Append(found, i) ELSE found
Found(m, limit) ==
  LET found[n \in 0..count] ==
        IF n = 0 THEN <<>> ELSE Take(m, limit, found[n-1], count + 1 - n)
  IN  found
\* Slip: one more.
HistoryOneMore(m, limit) == Found(m, limit + 1)[count]
\* The newest of a MAC first, up to a limit.
History(m, limit) == Found(m, limit)[count]

-----------------------------------------------------------------------------
(* Sessions.                                                               *)

\* Create waits for a reader to let go of the lock.
Start(m) ==
  /\ count < MaxSessions /\ api # "scan"
  /\ count' = count + 1 /\ mac' = [mac EXCEPT ![count + 1] = m]
  /\ UNCHANGED <<state, events, detail, error, next, moved, handler>>

\* Slip: any state but the one it is in.
CheckNot(i, s) ==
  /\ next[i] = "" /\ s # state[i]
  /\ next' = [next EXCEPT ![i] = s]
  /\ UNCHANGED <<count, session, moved, handler>>

\* Session.Transition: the check (an error changes nothing); the new State; its event.
\* Update puts the session where it is already.
Check(i, s) ==
  /\ next[i] = "" /\ s \in validTransitions(state[i])
  /\ next' = [next EXCEPT ![i] = s]
  /\ UNCHANGED <<count, session, moved, handler>>
SetState(i) ==
  /\ next[i] # "" /\ ~moved[i]
  /\ state' = [state EXCEPT ![i] = next[i]] /\ moved' = [moved EXCEPT ![i] = TRUE]
  /\ UNCHANGED <<count, mac, events, detail, error, next, handler>>
\* Slip: the detail is kept as the error whatever the state.
AddEventError(i) ==
  \E d \in Details :
    /\ moved[i] /\ events' = [events EXCEPT ![i] = Append(@, next[i])]
    /\ detail' = [detail EXCEPT ![i] = d]
    /\ error' = [error EXCEPT ![i] = d]
    /\ next' = [next EXCEPT ![i] = ""] /\ moved' = [moved EXCEPT ![i] = FALSE]
    /\ UNCHANGED <<count, mac, state, handler>>
AddEvent(i) ==
  \E d \in Details :
    /\ moved[i] /\ events' = [events EXCEPT ![i] = Append(@, next[i])]
    /\ detail' = [detail EXCEPT ![i] = d]
    /\ error' = IF next[i] = "failed" THEN [error EXCEPT ![i] = d] ELSE error
    /\ next' = [next EXCEPT ![i] = ""] /\ moved' = [moved EXCEPT ![i] = FALSE]
    /\ UNCHANGED <<count, mac, state, handler>>

-----------------------------------------------------------------------------
(* handleSessions.                                                         *)

\* FindActive looks at one session after the other.
AskActive ==
  /\ api = "idle" /\ api' = "scan"
  /\ before' = {i \in Stored : state[i] \notin Terminal}
  /\ UNCHANGED <<count, session, next, moved, scan, active>>
LookAt ==
  /\ api = "scan" /\ scan < count
  /\ scan' = scan + 1
  /\ active' = IF Active(state[scan + 1]) THEN active \cup {scan + 1} ELSE active
  /\ UNCHANGED <<count, session, next, moved, api, before>>
FindActive ==
  /\ api = "scan" /\ scan = count /\ api' = "write"
  /\ UNCHANGED <<count, session, next, moved, scan, active, before>>
\* What is written of each is what it is by now: the lock is released.
Respond ==
  /\ api = "write" /\ api' = "idle"
  /\ scan' = 0 /\ active' = {} /\ before' = {}
  /\ UNCHANGED <<count, session, next, moved>>

\* What has not been started has the fields it will be started with.
Init == /\ count = 0 /\ mac = [i \in Ids |-> ""]
        /\ state = [i \in Ids |-> "discover"] /\ events = [i \in Ids |-> <<>>]
        /\ detail = [i \in Ids |-> ""] /\ error = [i \in Ids |-> ""]
        /\ next = [i \in Ids |-> ""] /\ moved = [i \in Ids |-> FALSE]
        /\ scan = 0 /\ active = {} /\ api = "idle" /\ before = {}

Next == \/ \E m \in MACs : Start(m)
        \/ \E i \in Stored : SetState(i) \/ AddEvent(i) \/ \E s \in States : Check(i, s)
        \/ AskActive \/ LookAt \/ FindActive \/ Respond

Spec == Init /\ [][Next]_vars

-----------------------------------------------------------------------------
(* Properties.                                                             *)

TypeOK ==
  /\ count \in 0..MaxSessions /\ mac \in [Ids -> MACs \cup {""}] /\ state \in [Ids -> States]
  /\ events \in [Ids -> Seq(States)] /\ detail \in [Ids -> Details] /\ error \in [Ids -> Details]
  /\ next \in [Ids -> States \cup {""}] /\ moved \in [Ids -> BOOLEAN]
  /\ api \in {"idle", "scan", "write"} /\ scan \in 0..count
  /\ active \subseteq Stored /\ before \subseteq Stored

\* Once an answer is put together it names every session that is still active of those
\* that were when the question came, and none that had ended by then, although sessions
\* go on while they are looked at one by one.
RightSessions ==
  api = "write" =>
    /\ {i \in before : state[i] \notin Terminal} \subseteq active
    /\ active \subseteq before

\* A session tells its own story: its state is where its events have led, unless its
\* driver is between two writes; its error is the detail it has failed with, which may be
\* empty, and it has none before; no state comes twice, and none after the end.
Story ==
  \A i \in Stored :
    /\ ~moved[i] => state[i] = IF events[i] = <<>> THEN "discover" ELSE Last(events[i])
    /\ ~moved[i] => error[i] = IF state[i] = "failed" THEN detail[i] ELSE ""
    /\ \A j, k \in DOMAIN events[i] :
         j < k => events[i][j] # events[i][k] /\ events[i][j] \notin Terminal

\* History gives the newest sessions of a MAC, newest first, never more than asked for
\* and none left out that there is room for.
NewestFirst ==
  \A m \in MACs : \A limit \in 0..MaxLimit :
    LET h == History(m, limit) IN
      /\ Len(h) <= limit
      /\ \A j, k \in DOMAIN h : j < k => h[j] > h[k]
      /\ \A i \in Stored : mac[i] = m /\ i \notin Range(h) =>
           Len(h) = limit /\ \A k \in DOMAIN h : h[k] > i
      /\ \A k \in DOMAIN h : mac[h[k]] = m

\* The end of a session is the end: no step takes it from done or failed, or takes it
\* from the store.
EndIsEnd ==
  [][/\ Stored \subseteq Stored'
     /\ \A i \in Stored : state[i] \in Terminal => state'[i] = state[i]]_vars
=============================================================================
