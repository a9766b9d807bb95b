------------------------------- MODULE EventBus -------------------------------
(***************************************************************************)
(* The in-process event bus (server/eventbus.go).  Publishers (the DHCP    *)
(* handlers, one goroutine per packet) hold the read lock while they offer *)
(* an event to one subscriber after the other; Subscribe and the goroutine *)
(* that ends a subscription take the write lock.                           *)
(*                                                                         *)
(* A slice is an array, which other slices may share, and a length.  The   *)
(* RWMutex: one writer at a time announces itself; readers that come after *)
(* are blocked, and those inside are waited for; when the writer is done   *)
(* the blocked readers are let in before the next writer.                  *)
(***************************************************************************)
EXTENDS Integers, Sequences

CONSTANTS Publishers,   \* goroutines that publish, again and again
          Subscribers,  \* subscriptions: each is made once and ends once
          Requested,    \* the buffer size NewEventBus is asked for
          Nobody,       \* no subscription
          Last          \* bound: from the Last[p]-th on (0: all) the events of a
                        \* publisher p, of which there is no end, have one number

ASSUME BusAssumption == /\ Requested \in Int /\ Last \in [Publishers -> Nat]
                        /\ Nobody \notin Subscribers

\* NewEventBus's buffer size.
bufferSize == IF Requested < 1 THEN 64 ELSE Requested

\* The n-th event of publisher by.
Event == [by : Publishers, n : Nat]

VARIABLES
  arrays,           \* what slices are made of: its capacity and the slots written
  subscribers,      \* EventBus.subscribers; a channel is named by its subscription
  channel, closed,  \* each subscription's channel
  writer,           \* who has announced itself, or Nobody
  sub,              \* a subscription: where its calls are
  done,             \* the subscriptions whose context is cancelled
  pc, count,        \* a publisher: where it is, how many events it has published
  list, turn,       \* the slice it ranges over, the turns it has made
  panicked          \* the process died of a send on a closed channel

\* History, read by the properties only: the last event of each publisher a
\* subscriber has received, and who has yet to be offered a publisher's event,
\* of those who were subscribed when it called Publish.
VARIABLES got, due

bus == <<arrays, subscribers, channel, closed>>
subscription == <<writer, sub, done>>
publisher == <<pc, count, list, turn>>
history == <<got, due>>
vars == <<bus, subscription, publisher, panicked, history>>

\* "joining" and "leaving": it has called Lock.  "blocked": it has called RLock; "in": it
\* holds the read lock.
SubPC == {"none", "joining", "subscribed", "leaving", "left"}
PC == {"idle", "blocked", "in", "loop"}

Nil == [array |-> 1, len |-> 0]

Init == /\ arrays = << [cap |-> 0, slots |-> <<>>] >>
        /\ subscribers = Nil
        /\ channel = [s \in Subscribers |-> <<>>]
        /\ closed = [s \in Subscribers |-> FALSE]
        /\ writer = Nobody
        /\ sub = [s \in Subscribers |-> "none"]
        /\ done = {}
        /\ pc = [p \in Publishers |-> "idle"]
        /\ count = [p \in Publishers |-> 0]
        /\ list = [p \in Publishers |-> Nil]
        /\ turn = [p \in Publishers |-> 0]
        /\ panicked = FALSE
        /\ got = [s \in Subscribers |-> [p \in Publishers |-> 0]]
        /\ due = [p \in Publishers |-> {}]

\* EventBus.mu.
NoReader == \A p \in Publishers : pc[p] \notin {"in", "loop"}
HasLock(s) == writer = s /\ NoReader
Unlock == writer' = Nobody /\ pc' = [p \in Publishers |-> IF pc[p] = "blocked" THEN "in" ELSE pc[p]]

-----------------------------------------------------------------------------
(* EventBus.Publish.                                                       *)

\* Publish is called, and calls RLock.
Call(p, next) == /\ ~panicked /\ pc[p] = "idle"
                 /\ pc' = [pc EXCEPT ![p] = next]
                 /\ count' = [count EXCEPT ![p] = IF @ < Last[p] THEN @ + 1 ELSE @]
                 /\ due' = [due EXCEPT ![p] = {s \in Subscribers \ done : sub[s] = "subscribed"}]
                 /\ UNCHANGED <<bus, subscription, list, turn, panicked, got>>
\* Slip: readers do not wait for a writer that waits.
PublishBarging(p) == Call(p, "in")
Publish(p) == Call(p, IF writer = Nobody THEN "in" ELSE "blocked")

event(p) == [by |-> p, n |-> count[p]]

\* The range expression: the slice is copied, its array is not.
Enter(p) == /\ ~panicked /\ pc[p] = "in"
            /\ pc' = [pc EXCEPT ![p] = "loop"]
            /\ list' = [list EXCEPT ![p] = subscribers]
            /\ turn' = [turn EXCEPT ![p] = 0]
            /\ UNCHANGED <<bus, subscription, count, panicked, history>>

\* Slip: the capacity is off by one.
HasRoomOneMore(s) == Len(channel[s]) <= bufferSize

HasRoom(s) == Len(channel[s]) < bufferSize

\* The outcomes of the select in one turn of the loop; s is the subscriber.
Put(p, s) == /\ HasRoom(s)
             /\ channel' = [channel EXCEPT ![s] = Append(@, event(p))]
             /\ turn' = [turn EXCEPT ![p] = @ + 1]

\* Slip: a full channel ends the loop.
DropBreaking(p, s) == /\ ~HasRoom(s)
                      /\ turn' = [turn EXCEPT ![p] = list[p].len]
                      /\ UNCHANGED channel

\* Slip: there is no default case.
DropWaiting(p, s) == FALSE /\ UNCHANGED <<channel, turn>>

Drop(p, s) == /\ ~HasRoom(s)
              /\ turn' = [turn EXCEPT ![p] = @ + 1]
              /\ UNCHANGED channel

\* One turn of the loop: select { case ch <- event: default: }.  On a closed
\* channel it panics, full or not; what it leaves then is of no account.
Send(p) ==
  /\ ~panicked /\ pc[p] = "loop" /\ turn[p] < list[p].len
  /\ LET s == arrays[list[p].array].slots[turn[p] + 1]
     IN  /\ panicked' = closed[s] /\ (Put(p, s) \/ Drop(p, s))
         /\ due' = [due EXCEPT ![p] = @ \ {s}]
  /\ UNCHANGED <<arrays, subscribers, closed, subscription, pc, count, list, got>>

\* RUnlock and return.
RUnlock(p) ==
  /\ ~panicked /\ pc[p] = "loop" /\ turn[p] = list[p].len
  /\ pc' = [pc EXCEPT ![p] = "idle"]
  /\ list' = [list EXCEPT ![p] = Nil] /\ turn' = [turn EXCEPT ![p] = 0]
  /\ UNCHANGED <<bus, subscription, count, panicked, history>>

-----------------------------------------------------------------------------
(* EventBus.Subscribe and the end of a subscription.                       *)

Subscribe(s) == /\ ~panicked /\ sub[s] = "none"
                /\ sub' = [sub EXCEPT ![s] = "joining"]
                /\ UNCHANGED <<bus, writer, done, publisher, panicked, history>>

\* Lock, as far as the other writers go.
Lock(s) == /\ ~panicked /\ sub[s] \in {"joining", "leaving"} /\ writer = Nobody
           /\ writer' = s
           /\ UNCHANGED <<bus, sub, done, publisher, panicked, history>>

\* append(subs, s): in the slot after the last, or in a copy with more room (Go doubles
\* small arrays).
Slots == arrays[subscribers.array].slots
Write(slots, i, s) == [j \in 1..Len(slots) \cup {i} |-> IF j = i THEN s ELSE slots[j]]
AppendOne(s) ==
  LET n == subscribers.len
  IN  IF n < arrays[subscribers.array].cap
      THEN /\ arrays' = [arrays EXCEPT ![subscribers.array].slots = Write(Slots, n + 1, s)]
           /\ subscribers' = [subscribers EXCEPT !.len = n + 1]
      ELSE /\ arrays' = Append(arrays, [cap |-> IF n = 0 THEN 1 ELSE 2 * n,
                                        slots |-> Append(SubSeq(Slots, 1, n), s)])
           /\ subscribers' = [array |-> Len(arrays) + 1, len |-> n + 1]

\* The critical section of Subscribe.
Join(s) == /\ ~panicked /\ sub[s] = "joining" /\ HasLock(s) /\ Unlock
           /\ AppendOne(s)
           /\ sub' = [sub EXCEPT ![s] = "subscribed"]
           /\ UNCHANGED <<channel, closed, done, count, list, turn, panicked, history>>

\* The owner of the subscription cancels its context, at any time after the call.
Cancel(s) == /\ ~panicked /\ sub[s] # "none" /\ s \notin done
             /\ done' = done \cup {s}
             /\ due' = [p \in Publishers |-> due[p] \ {s}]
             /\ UNCHANGED <<bus, writer, sub, publisher, panicked, got>>

\* <-ctx.Done(), then Lock; the goroutine exists when Subscribe has returned.
Unsubscribe(s) == /\ ~panicked /\ sub[s] = "subscribed" /\ s \in done
                  /\ sub' = [sub EXCEPT ![s] = "leaving"]
                  /\ UNCHANGED <<bus, writer, done, publisher, panicked, history>>

\* append(subs[:i], subs[i+1:]...): in the array itself what is after i moves one down,
\* and the last slot stays as it is.
Remove(i) ==
  /\ arrays' = [arrays EXCEPT ![subscribers.array].slots =
                  [j \in DOMAIN Slots |->
                     IF i <= j /\ j < subscribers.len THEN Slots[j + 1] ELSE Slots[j]]]
  /\ subscribers' = [subscribers EXCEPT !.len = @ - 1]
FirstAt(s, i) == /\ i \in 1..subscribers.len /\ Slots[i] = s
                 /\ \A j \in 1..i-1 : Slots[j] # s

\* Slip: the readers inside are not waited for.
LeaveUnlocked(s) ==
  /\ ~panicked /\ sub[s] = "leaving" /\ writer = s /\ Unlock
  /\ \E i \in 1..subscribers.len : FirstAt(s, i) /\ Remove(i)
  /\ closed' = [closed EXCEPT ![s] = TRUE]
  /\ sub' = [sub EXCEPT ![s] = "left"]
  /\ UNCHANGED <<channel, done, count, list, turn, panicked, history>>

\* The critical section that ends the subscription: it removes and closes the
\* channel; what is in the channel can still be received.
Leave(s) ==
  /\ ~panicked /\ sub[s] = "leaving" /\ HasLock(s) /\ Unlock
  /\ \E i \in 1..subscribers.len : FirstAt(s, i) /\ Remove(i)
  /\ closed' = [closed EXCEPT ![s] = TRUE]
  /\ sub' = [sub EXCEPT ![s] = "left"]
  /\ UNCHANGED <<channel, done, count, list, turn, panicked, history>>

\* The owner takes an event from its channel, when it likes.
Receive(s) == /\ ~panicked /\ sub[s] \notin {"none", "joining"} /\ channel[s] # <<>>
              /\ LET e == Head(channel[s]) IN got' = [got EXCEPT ![s][e.by] = e.n]
              /\ channel' = [channel EXCEPT ![s] = Tail(@)]
              /\ UNCHANGED <<arrays, subscribers, closed, subscription, publisher, panicked, due>>

PublishStep(p) == Enter(p) \/ Send(p) \/ RUnlock(p)
SubscriptionStep(s) == Lock(s) \/ Join(s) \/ Unsubscribe(s) \/ Leave(s)

Next == \/ \E p \in Publishers : Publish(p) \/ PublishStep(p)
        \/ \E s \in Subscribers : \/ Subscribe(s) \/ Cancel(s) \/ Receive(s)
                                  \/ SubscriptionStep(s)

\* Goroutines that can run do; nobody has to publish, subscribe or receive.
Fairness == /\ \A p \in Publishers : WF_vars(PublishStep(p))
            /\ \A s \in Subscribers : WF_vars(SubscriptionStep(s))

Spec == Init /\ [][Next]_vars
FairSpec == Spec /\ Fairness

-----------------------------------------------------------------------------
(* Properties.                                                             *)

SliceType ==
  /\ arrays \in Seq([cap : Nat, slots : Seq(Subscribers)])
  /\ subscribers \in [array : DOMAIN arrays, len : Nat] /\ subscribers.len <= Len(Slots)
  /\ list \in [Publishers -> [array : DOMAIN arrays, len : Nat]] /\ turn \in [Publishers -> Nat]
LockType ==
  /\ writer \in Subscribers \cup {Nobody} /\ sub \in [Subscribers -> SubPC]
  /\ pc \in [Publishers -> PC] /\ done \subseteq Subscribers
  /\ writer # Nobody => sub[writer] \in {"joining", "leaving"}
EventType ==
  /\ channel \in [Subscribers -> Seq(Event)] /\ closed \in [Subscribers -> BOOLEAN]
  /\ \A s \in Subscribers : Len(channel[s]) <= bufferSize
  /\ count \in [Publishers -> Nat]
  /\ panicked \in BOOLEAN
  /\ got \in [Subscribers -> [Publishers -> Nat]] /\ due \in [Publishers -> SUBSET Subscribers]
TypeOK == SliceType /\ LockType /\ EventType

\* A publisher never sends on a channel that is closed, although subscriptions
\* end at any time: that would be a panic, the end of the server.
NeverPanics == ~panicked

\* Why: the slice holds the channels of the subscriptions that have begun and
\* not ended, each once; these are open; and a publisher in its loop ranges over
\* this slice, which nobody changes meanwhile.
BusInv ==
  /\ \A i, j \in 1..subscribers.len : Slots[i] = Slots[j] => i = j
  /\ \A s \in Subscribers : sub[s] \in {"subscribed", "leaving"}
                            <=> \E i \in 1..subscribers.len : Slots[i] = s
  /\ \A s \in Subscribers : closed[s] <=> sub[s] = "left"
  /\ \A p \in Publishers : pc[p] = "loop" => list[p] = subscribers /\ turn[p] <= subscribers.len

\* A subscription receives the events of one publisher in the order they were
\* published, and none twice, whatever else is published and whoever comes and
\* goes in between.
Before(p, m, n) == m < n \/ (m = Last[p] /\ n = Last[p])
InOrderOnce ==
  \A s \in Subscribers : \A j \in DOMAIN channel[s] :
    LET e == channel[s][j]
    IN  /\ Before(e.by, got[s][e.by], e.n)
        /\ \A i \in 1..j-1 : channel[s][i].by = e.by => Before(e.by, channel[s][i].n, e.n)

\* When Publish returns the event has been put into the channel of everybody who was
\* subscribed when it was called and still is, unless that channel was full: neither
\* another slow subscriber nor one that comes or goes makes anybody miss it.
NothingMissed == \A p \in Publishers : pc[p] = "idle" => due[p] = {}

\* Publish is non-blocking: it returns even if no subscriber ever receives.
PublishReturns == \A p \in Publishers : pc[p] # "idle" ~> pc[p] = "idle"

\* "The channel is closed when the context is cancelled", even if it is full
\* and its owner has gone, and however much is published, without end.
CancelCloses == \A s \in Subscribers : s \in done ~> closed[s]
=============================================================================
