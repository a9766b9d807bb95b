---------------------------- MODULE EventBus_proofs ----------------------------
(***************************************************************************)
(* Proofs about EventBus, for any number of publishers and subscriptions:  *)
(* the slice is exact in the array it shares with those who range over it, *)
(* nobody sends on a closed channel, nothing is missed because of another  *)
(* subscriber, and a channel holds the events of a publisher in order.     *)
(***************************************************************************)
EXTENDS EventBus, SequenceTheorems, TLAPS

LEMMA BufferType == bufferSize \in Nat /\ bufferSize > 0
<1>1. Requested \in Int
  BY BusAssumption
<1> QED
  BY <1>1 DEF bufferSize

-----------------------------------------------------------------------------
(* The slice in its array.                                                 *)

ArrayType ==
  /\ arrays \in Seq([cap : Nat, slots : Seq(Subscribers)])
  /\ subscribers \in [array : DOMAIN arrays, len : Nat]
  /\ subscribers.len <= Len(Slots)

Array == [cap : Nat, slots : Seq(Subscribers)]

LEMMA SliceFacts ==
  ASSUME ArrayType
  PROVE  /\ subscribers.len \in Nat /\ subscribers.array \in DOMAIN arrays
         /\ arrays[subscribers.array] \in Array
         /\ Slots \in Seq(Subscribers) /\ subscribers.len <= Len(Slots)
<1>1. /\ subscribers.len \in Nat /\ subscribers.array \in DOMAIN arrays
      /\ arrays \in Seq(Array) /\ subscribers.len <= Len(Slots)
  BY DEF ArrayType, Array
<1>2. arrays[subscribers.array] \in Array
  BY <1>1
<1> QED
  BY <1>1, <1>2 DEF Array, Slots

\* What append(subs, s) leaves: the elements as they were, and s after them.
Appended(s) ==
  /\ ArrayType' /\ subscribers'.len = subscribers.len + 1
  /\ \A i \in 1..subscribers.len : Slots'[i] = Slots[i]
  /\ Slots'[subscribers.len + 1] = s
  /\ DOMAIN arrays \subseteq DOMAIN arrays'

LEMMA AppendInPlace ==
  ASSUME ArrayType, NEW s \in Subscribers, AppendOne(s),
         subscribers.len < arrays[subscribers.array].cap
  PROVE  Appended(s)
<1> DEFINE n == subscribers.len  k == subscribers.array  w == Write(Slots, n + 1, s)
<1>1. /\ n \in Nat /\ k \in DOMAIN arrays /\ Slots \in Seq(Subscribers) /\ n <= Len(Slots)
      /\ arrays[k] \in [cap : Nat, slots : Seq(Subscribers)]
  BY SliceFacts DEF Array
<1>2. /\ arrays' = [arrays EXCEPT ![k] = [arrays[k] EXCEPT !.slots = w]]
      /\ subscribers' = [subscribers EXCEPT !.len = n + 1]
  BY DEF AppendOne
<1>3. /\ w \in Seq(Subscribers) /\ n + 1 <= Len(w) /\ w[n + 1] = s
      /\ \A i \in 1..n : w[i] = Slots[i]
  <2> DEFINE m == IF n = Len(Slots) THEN n + 1 ELSE Len(Slots)
  <2>1. Len(Slots) \in Nat
    BY <1>1
  <2>2. m \in Nat /\ 1..Len(Slots) \cup {n + 1} = 1..m /\ n + 1 <= m
    BY <1>1, <2>1
  <2>3. \A j \in 1..Len(Slots) : Slots[j] \in Subscribers
    BY <1>1
  <2> HIDE DEF m
  <2>4. w \in [1..m -> Subscribers]
    BY <2>2, <2>3 DEF Write
  <2>5. w \in Seq(Subscribers) /\ Len(w) = m
    BY <2>2, <2>4
  <2>6. w[n + 1] = s /\ \A i \in 1..n : w[i] = Slots[i]
    BY <1>1, <2>1, <2>2 DEF Write
  <2> QED
    BY <2>2, <2>5, <2>6
<1> HIDE DEF w
<1>4. [arrays[k] EXCEPT !.slots = w] \in [cap : Nat, slots : Seq(Subscribers)]
  BY <1>1, <1>3
<1>5. /\ arrays' \in Seq([cap : Nat, slots : Seq(Subscribers)]) /\ DOMAIN arrays' = DOMAIN arrays
      /\ arrays'[k].slots = w
  BY <1>1, <1>2, <1>4 DEF ArrayType
<1>6. subscribers'.array = k /\ subscribers'.len = n + 1 /\ subscribers' \in [array : DOMAIN arrays, len : Nat]
  BY <1>1, <1>2 DEF ArrayType
<1>7. Slots' = w
  BY <1>5, <1>6 DEF Slots
<1> QED
  BY <1>1, <1>3, <1>5, <1>6, <1>7 DEF Appended, ArrayType

LEMMA AppendCopied ==
  ASSUME ArrayType, NEW s \in Subscribers, AppendOne(s),
         ~(subscribers.len < arrays[subscribers.array].cap)
  PROVE  Appended(s)
<1> DEFINE n == subscribers.len  w == Append(SubSeq(Slots, 1, n), s)
           new == [cap |-> IF n = 0 THEN 1 ELSE 2 * n, slots |-> w]
<1>1. n \in Nat /\ Slots \in Seq(Subscribers) /\ n <= Len(Slots)
  BY SliceFacts
<1>2. arrays' = Append(arrays, new) /\ subscribers' = [array |-> Len(arrays) + 1, len |-> n + 1]
  BY DEF AppendOne
<1>3. /\ w \in Seq(Subscribers) /\ Len(w) = n + 1 /\ w[n + 1] = s
      /\ \A i \in 1..n : w[i] = Slots[i]
  BY <1>1
<1>4. w \in Seq(Subscribers) /\ n \in Nat
  BY <1>1, <1>3
<1>5. new \in [cap : Nat, slots : Seq(Subscribers)] /\ new.slots = w
  <2> HIDE DEF w, n
  <2> QED
    BY <1>4
<1> HIDE DEF new, w
<1>6. /\ arrays' \in Seq([cap : Nat, slots : Seq(Subscribers)]) /\ DOMAIN arrays \subseteq DOMAIN arrays'
      /\ Len(arrays) + 1 \in DOMAIN arrays' /\ arrays'[Len(arrays) + 1] = new
  BY <1>2, <1>5 DEF ArrayType
<1>7. subscribers'.array = Len(arrays) + 1 /\ subscribers'.len = n + 1
  BY <1>2
<1>8. subscribers' \in [array : DOMAIN arrays', len : Nat]
  BY <1>1, <1>2, <1>6
<1>9. Slots' = w
  BY <1>5, <1>6, <1>7 DEF Slots
<1>10. ArrayType'
  BY <1>1, <1>3, <1>6, <1>7, <1>8, <1>9 DEF ArrayType
<1> QED
  BY <1>3, <1>6, <1>7, <1>9, <1>10 DEF Appended

LEMMA AppendAdds ==
  ASSUME ArrayType, NEW s \in Subscribers, AppendOne(s) PROVE Appended(s)
BY AppendInPlace, AppendCopied

\* What append(subs[:i], subs[i+1:]...) leaves: the element at i is gone.
Removed(i) ==
  /\ ArrayType' /\ subscribers'.len = subscribers.len - 1
  /\ \A j \in 1..subscribers.len - 1 : Slots'[j] = IF j < i THEN Slots[j] ELSE Slots[j + 1]
  /\ DOMAIN arrays' = DOMAIN arrays

LEMMA RemoveRemoves ==
  ASSUME ArrayType, NEW i \in 1..subscribers.len, Remove(i) PROVE Removed(i)
<1> DEFINE n == subscribers.len  k == subscribers.array
           w == [j \in DOMAIN Slots |-> IF i <= j /\ j < n THEN Slots[j + 1] ELSE Slots[j]]
<1>1. /\ n \in Nat /\ k \in DOMAIN arrays /\ Slots \in Seq(Subscribers) /\ n <= Len(Slots)
      /\ arrays[k] \in [cap : Nat, slots : Seq(Subscribers)] /\ i \in 1..n
  BY SliceFacts DEF Array
<1>2. /\ arrays' = [arrays EXCEPT ![k] = [arrays[k] EXCEPT !.slots = w]]
      /\ subscribers' = [subscribers EXCEPT !.len = n - 1]
  BY DEF Remove, ArrayType
<1>3. w \in Seq(Subscribers) /\ Len(w) = Len(Slots)
  <2>1. DOMAIN Slots = 1..Len(Slots) /\ Len(Slots) \in Nat
    BY <1>1
  <2>2. \A j \in 1..Len(Slots) : Slots[j] \in Subscribers
    BY <1>1
  <2>3. ASSUME NEW j \in DOMAIN Slots PROVE w[j] \in Subscribers
    <3>1. i <= j /\ j < n => j + 1 \in 1..Len(Slots)
      BY <1>1, <2>1
    <3> QED
      BY <2>1, <2>2, <3>1
  <2> QED
    BY <2>1, <2>3
<1>4. \A j \in 1..n-1 : w[j] = IF j < i THEN Slots[j] ELSE Slots[j + 1]
  BY <1>1
<1> HIDE DEF w
<1>5. [arrays[k] EXCEPT !.slots = w] \in [cap : Nat, slots : Seq(Subscribers)]
  BY <1>1, <1>3
<1>6. /\ arrays' \in Seq([cap : Nat, slots : Seq(Subscribers)]) /\ DOMAIN arrays' = DOMAIN arrays
      /\ arrays'[k].slots = w
  BY <1>1, <1>2, <1>5 DEF ArrayType
<1>7. n - 1 \in Nat
  BY <1>1
<1>8. subscribers'.array = k /\ subscribers'.len = n - 1 /\ subscribers' \in [array : DOMAIN arrays, len : Nat]
  BY <1>1, <1>2, <1>7 DEF ArrayType
<1>9. Slots' = w
  BY <1>6, <1>8 DEF Slots
<1> QED
  BY <1>1, <1>3, <1>4, <1>6, <1>8, <1>9 DEF Removed, ArrayType

-----------------------------------------------------------------------------
(* Type correctness.                                                       *)

LoopType == /\ list \in [Publishers -> [array : DOMAIN arrays, len : Nat]]
            /\ turn \in [Publishers -> Nat]

LEMMA SliceParts == SliceType <=> ArrayType /\ LoopType
BY DEF SliceType, ArrayType, LoopType

LEMMA InitType == Init => TypeOK
<1> SUFFICES ASSUME Init PROVE TypeOK
  OBVIOUS
<1>1. SliceType
  <2>1. [cap |-> 0, slots |-> <<>>] \in [cap : Nat, slots : Seq(Subscribers)]
    OBVIOUS
  <2>2. /\ arrays \in Seq([cap : Nat, slots : Seq(Subscribers)]) /\ DOMAIN arrays = {1}
        /\ arrays[1].slots = <<>>
    BY <2>1 DEF Init
  <2>3. subscribers = Nil /\ Nil \in [array : DOMAIN arrays, len : Nat] /\ Nil.array = 1 /\ Nil.len = 0
    BY <2>2 DEF Init, Nil
  <2>4. subscribers.len <= Len(Slots)
    BY <2>2, <2>3 DEF Slots
  <2>5. LoopType
    BY <2>3 DEF Init, LoopType
  <2> QED
    BY <2>2, <2>3, <2>4, <2>5 DEF SliceType, LoopType
<1>2. LockType
  BY DEF Init, LockType, SubPC, PC
<1>3. EventType
  <2>0. /\ channel \in [Subscribers -> Seq(Event)] /\ count \in [Publishers -> Nat]
    BY DEF Init
  <2>1. /\ closed \in [Subscribers -> BOOLEAN] /\ panicked \in BOOLEAN
        /\ due \in [Publishers -> SUBSET Subscribers]
    BY Zenon DEF Init
  <2>2. \A s \in Subscribers : Len(channel[s]) <= bufferSize
    BY BufferType DEF Init
  <2>3. got \in [Subscribers -> [Publishers -> Nat]]
    <3>1. [p \in Publishers |-> 0] \in [Publishers -> Nat]
      OBVIOUS
    <3> QED
      BY <3>1 DEF Init
  <2> QED
    BY <2>0, <2>1, <2>2, <2>3 DEF EventType
<1> QED
  BY <1>1, <1>2, <1>3 DEF TypeOK

\* The subscriber a publisher in its loop is with.
At(p) == arrays[list[p].array].slots[turn[p] + 1]

LEMMA UnlockType == ASSUME LockType, Unlock PROVE pc' \in [Publishers -> PC]
BY DEF LockType, Unlock, PC

\* Who has the lock writes alone: no publisher is in its loop, before or after.
LEMMA Alone ==
  ASSUME NEW s \in Subscribers, Join(s) \/ Leave(s)
  PROVE  /\ Unlock /\ \A p \in Publishers : pc[p] # "loop" /\ pc'[p] # "loop"
         /\ \A p \in Publishers : pc'[p] = "idle" <=> pc[p] = "idle"
BY DEF Join, Leave, HasLock, NoReader, Unlock

LEMMA LeaveRemoves ==
  ASSUME ArrayType, NEW s \in Subscribers, Leave(s)
  PROVE  \E i \in 1..subscribers.len : Slots[i] = s /\ Removed(i)
<1>1. PICK i \in 1..subscribers.len : FirstAt(s, i) /\ Remove(i)
  BY DEF Leave
<1> QED
  BY <1>1, RemoveRemoves DEF FirstAt

LEMMA SliceStep == ASSUME TypeOK, [Next]_vars PROVE SliceType'
<1>0. ArrayType /\ LoopType
  BY SliceParts DEF TypeOK
<1> SUFFICES ArrayType' /\ LoopType'
  BY DEF SliceType, ArrayType, LoopType
<1>1. ASSUME NEW s \in Subscribers, Join(s) PROVE ArrayType' /\ LoopType'
  BY <1>0, <1>1, AppendAdds DEF Join, Appended, LoopType
<1>2. ASSUME NEW s \in Subscribers, Leave(s) PROVE ArrayType' /\ LoopType'
  BY <1>0, <1>2, LeaveRemoves DEF Leave, Removed, LoopType
<1>3. CASE arrays' = arrays /\ subscribers' = subscribers
  <2>1. ArrayType' /\ DOMAIN arrays' = DOMAIN arrays
    BY <1>0, <1>3 DEF ArrayType, Slots
  <2>2. CASE list' = list /\ turn' = turn
    BY <1>0, <2>1, <2>2 DEF LoopType
  <2>3. ASSUME NEW p \in Publishers, Enter(p) PROVE LoopType'
    <3>1. subscribers \in [array : DOMAIN arrays, len : Nat]
      BY <1>0 DEF ArrayType
    <3> QED
      BY <1>0, <2>1, <2>3, <3>1 DEF Enter, LoopType
  <2>4. ASSUME NEW p \in Publishers, Send(p) PROVE LoopType'
    <3>1. list' = list /\ \E s : Put(p, s) \/ Drop(p, s)
      BY <2>4 DEF Send
    <3>2. turn' = [turn EXCEPT ![p] = @ + 1] \/ turn' = [turn EXCEPT ![p] = list[p].len]
      BY <3>1 DEF Put, Drop
    <3> QED
      BY <1>0, <2>1, <3>1, <3>2 DEF LoopType
  <2>5. ASSUME NEW p \in Publishers, RUnlock(p) PROVE LoopType'
    <3>1. 1 \in DOMAIN arrays /\ Nil \in [array : DOMAIN arrays, len : Nat]
      BY <1>0, SliceFacts DEF ArrayType, Nil
    <3> QED
      BY <1>0, <2>1, <2>5, <3>1 DEF RUnlock, LoopType
  <2>6. CASE \E p \in Publishers : Publish(p)
    BY <2>2, <2>6 DEF Publish, Call
  <2>7. CASE \E s \in Subscribers : Subscribe(s) \/ Cancel(s) \/ Receive(s) \/ Lock(s) \/ Unsubscribe(s)
    BY <2>2, <2>7 DEF Subscribe, Cancel, Receive, Lock, Unsubscribe, publisher
  <2>8. CASE UNCHANGED vars
    BY <2>2, <2>8 DEF vars, publisher
  <2> QED
    BY <1>1, <1>2, <2>1, <2>3, <2>4, <2>5, <2>6, <2>7, <2>8 DEF Next, PublishStep, SubscriptionStep
<1>4. ASSUME NEW p \in Publishers, Publish(p) \/ PublishStep(p)
      PROVE  arrays' = arrays /\ subscribers' = subscribers
  BY <1>4 DEF PublishStep, Publish, Call, Enter, Send, RUnlock, bus
<1>5. ASSUME NEW s \in Subscribers,
             Subscribe(s) \/ Cancel(s) \/ Receive(s) \/ Lock(s) \/ Unsubscribe(s)
      PROVE  arrays' = arrays /\ subscribers' = subscribers
  BY <1>5 DEF Subscribe, Cancel, Receive, Lock, Unsubscribe, bus
<1>6. CASE UNCHANGED vars
  BY <1>3, <1>6 DEF vars, bus
<1> QED
  BY <1>1, <1>2, <1>3, <1>4, <1>5, <1>6 DEF Next, SubscriptionStep

LEMMA LockStep == ASSUME LockType, [Next]_vars PROVE LockType'
<1>1. ASSUME NEW p \in Publishers, Publish(p) \/ Enter(p) \/ Send(p) \/ RUnlock(p) PROVE LockType'
  <2>1. pc' \in [Publishers -> PC]
    <3>1. pc' = pc \/ \E x \in PC : pc' = [pc EXCEPT ![p] = x]
      BY <1>1 DEF Publish, Call, Enter, Send, RUnlock, PC
    <3> QED
      BY <3>1 DEF LockType
  <2>2. UNCHANGED subscription
    BY <1>1 DEF Publish, Call, Enter, Send, RUnlock
  <2> QED
    BY <2>1, <2>2 DEF LockType, subscription
<1>2. ASSUME NEW s \in Subscribers, Subscribe(s) \/ Cancel(s) \/ Receive(s) PROVE LockType'
  BY <1>2 DEF LockType, Subscribe, Cancel, Receive, publisher, subscription, SubPC
<1>3. ASSUME NEW s \in Subscribers, Lock(s) \/ Unsubscribe(s) PROVE LockType'
  BY <1>3 DEF LockType, Lock, Unsubscribe, publisher, SubPC
<1>4. ASSUME NEW s \in Subscribers, Join(s) \/ Leave(s) PROVE LockType'
  <2>1. writer' = Nobody /\ pc' \in [Publishers -> PC]
    BY <1>4, Alone, UnlockType DEF Unlock
  <2>2. sub' \in [Subscribers -> SubPC] /\ done' = done
    BY <1>4 DEF LockType, Join, Leave, SubPC
  <2> QED
    BY <2>1, <2>2 DEF LockType
<1>5. CASE UNCHANGED vars
  BY <1>5 DEF LockType, vars, subscription, publisher
<1> QED
  BY <1>1, <1>2, <1>3, <1>4, <1>5 DEF Next, PublishStep, SubscriptionStep

LEMMA EventOf == ASSUME EventType, NEW p \in Publishers PROVE event(p) \in Event
<1>1. count[p] \in Nat
  BY DEF EventType
<1> QED
  BY <1>1 DEF event, Event

\* A turn of the loop is with a subscriber of the slice.
LEMMA SendIs ==
  ASSUME NEW p \in Publishers, Send(p)
  PROVE  /\ panicked' = closed[At(p)] /\ (Put(p, At(p)) \/ Drop(p, At(p)))
         /\ due' = [due EXCEPT ![p] = @ \ {At(p)}]
BY DEF Send, At

LEMMA AtSubscriber ==
  ASSUME SliceType, NEW p \in Publishers, list[p] = subscribers, turn[p] < list[p].len
  PROVE  /\ turn[p] + 1 \in 1..subscribers.len /\ At(p) = Slots[turn[p] + 1]
         /\ At(p) \in Subscribers
<1>1. turn[p] \in Nat /\ ArrayType
  BY SliceParts DEF LoopType
<1>2. /\ subscribers.len \in Nat /\ Slots \in Seq(Subscribers) /\ subscribers.len <= Len(Slots)
  BY <1>1, SliceFacts
<1>3. turn[p] + 1 \in 1..subscribers.len /\ turn[p] + 1 \in 1..Len(Slots)
  BY <1>1, <1>2
<1>4. At(p) = Slots[turn[p] + 1]
  BY DEF At, Slots
<1> QED
  BY <1>2, <1>3, <1>4

LEMMA PutType ==
  ASSUME EventType, NEW p \in Publishers, NEW s \in Subscribers, Put(p, s)
  PROVE  /\ channel' \in [Subscribers -> Seq(Event)]
         /\ \A t \in Subscribers : Len(channel'[t]) <= bufferSize
<1>1. event(p) \in Event /\ channel \in [Subscribers -> Seq(Event)]
  BY EventOf DEF EventType
<1>2. /\ Append(channel[s], event(p)) \in Seq(Event)
      /\ Len(Append(channel[s], event(p))) = Len(channel[s]) + 1 /\ Len(channel[s]) \in Nat
  BY <1>1
<1>3. Len(channel[s]) + 1 <= bufferSize
  BY <1>2, BufferType DEF Put, HasRoom
<1> QED
  BY <1>1, <1>2, <1>3 DEF Put, EventType

LEMMA SendEvents ==
  ASSUME EventType, NEW p \in Publishers, Send(p), At(p) \in Subscribers PROVE EventType'
<1>1. /\ channel' \in [Subscribers -> Seq(Event)]
      /\ \A t \in Subscribers : Len(channel'[t]) <= bufferSize
  <2>1. CASE Put(p, At(p))
    BY <2>1, PutType
  <2>2. CASE Drop(p, At(p))
    BY <2>2 DEF Drop, EventType
  <2> QED
    BY <2>1, <2>2, SendIs
<1>2. panicked' \in BOOLEAN
  <2>1. panicked' = closed[At(p)] /\ closed \in [Subscribers -> BOOLEAN]
    BY SendIs DEF EventType
  <2> QED
    BY <2>1, Zenon
<1>3. due' \in [Publishers -> SUBSET Subscribers]
  BY SendIs DEF EventType
<1>4. UNCHANGED <<closed, count, got>>
  BY DEF Send
<1> QED
  BY <1>1, <1>2, <1>3, <1>4 DEF EventType

LEMMA ReceiveEvents ==
  ASSUME EventType, NEW s \in Subscribers, Receive(s) PROVE EventType'
<1> DEFINE e == Head(channel[s])
<1>1. /\ channel[s] \in Seq(Event) /\ channel[s] # <<>> /\ e \in Event
      /\ Tail(channel[s]) \in Seq(Event)
      /\ Len(Tail(channel[s])) = Len(channel[s]) - 1 /\ Len(channel[s]) \in Nat
  BY DEF Receive, EventType
<1>2. e.by \in Publishers /\ e.n \in Nat
  BY <1>1 DEF Event
<1>3. got' \in [Subscribers -> [Publishers -> Nat]]
  <2>1. got' = [got EXCEPT ![s] = [got[s] EXCEPT ![e.by] = e.n]]
    BY DEF Receive, EventType
  <2> QED
    BY <1>2, <2>1 DEF EventType
<1>4. /\ channel' \in [Subscribers -> Seq(Event)]
      /\ \A t \in Subscribers : Len(channel'[t]) <= bufferSize
  BY <1>1, BufferType DEF Receive, EventType
<1>5. UNCHANGED <<closed, count, panicked, due>>
  BY DEF Receive, publisher
<1> QED
  BY <1>3, <1>4, <1>5 DEF EventType

LEMMA PublisherEvents ==
  ASSUME EventType, NEW p \in Publishers, Publish(p) \/ Enter(p) \/ RUnlock(p) PROVE EventType'
<1>1. UNCHANGED <<channel, closed, panicked, got>>
  BY DEF Publish, Call, Enter, RUnlock, bus, history
<1>2. count' \in [Publishers -> Nat]
  BY DEF Publish, Call, Enter, RUnlock, EventType
<1>3. due' \in [Publishers -> SUBSET Subscribers]
  BY DEF Publish, Call, Enter, RUnlock, EventType, history
<1> QED
  BY <1>1, <1>2, <1>3 DEF EventType

LEMMA SubscriberEvents ==
  ASSUME EventType, NEW s \in Subscribers,
         Subscribe(s) \/ Cancel(s) \/ Lock(s) \/ Join(s) \/ Unsubscribe(s) \/ Leave(s)
  PROVE  EventType'
<1>1. UNCHANGED <<channel, count, panicked, got>>
  BY DEF Subscribe, Cancel, Lock, Join, Unsubscribe, Leave, bus, publisher, history
<1>2. closed' \in [Subscribers -> BOOLEAN]
  BY DEF Subscribe, Cancel, Lock, Join, Unsubscribe, Leave, bus, EventType
<1>3. due' \in [Publishers -> SUBSET Subscribers]
  BY DEF Subscribe, Cancel, Lock, Join, Unsubscribe, Leave, history, EventType
<1> QED
  BY <1>1, <1>2, <1>3 DEF EventType

-----------------------------------------------------------------------------
(* The slice is exact.                                                     *)

LEMMA BusStep == ASSUME TypeOK, BusInv, [Next]_vars PROVE BusInv'
<1> DEFINE n == subscribers.len  Listed(s) == \E i \in 1..n : Slots[i] = s
<1>0. ArrayType /\ n \in Nat /\ sub \in [Subscribers -> SubPC] /\ pc \in [Publishers -> PC]
  BY SliceParts, SliceFacts DEF TypeOK, LockType
<1>1. ASSUME NEW s \in Subscribers, Join(s) PROVE BusInv'
  <2>1. Appended(s)
    BY <1>0, <1>1, AppendAdds DEF Join
  <2>2. sub[s] = "joining" /\ sub' = [sub EXCEPT ![s] = "subscribed"] /\ closed' = closed
    BY <1>1 DEF Join
  <2>3. \A i \in 1..n : Slots[i] # s
    BY <2>2 DEF BusInv
  <2>4. \A i \in 1..n+1 : Slots'[i] = IF i = n + 1 THEN s ELSE Slots[i]
    BY <1>0, <2>1 DEF Appended
  <2>5. subscribers'.len = n + 1
    BY <2>1 DEF Appended
  <2>6. \A i, j \in 1..n+1 : Slots'[i] = Slots'[j] => i = j
    BY <1>0, <2>3, <2>4 DEF BusInv
  <2>7. ASSUME NEW t \in Subscribers
        PROVE  sub'[t] \in {"subscribed", "leaving"} <=> \E i \in 1..n+1 : Slots'[i] = t
    <3>1. CASE t = s
      <4>1. n + 1 \in 1..n+1 /\ Slots'[n + 1] = s
        BY <1>0, <2>4
      <4> QED
        BY <1>0, <2>2, <3>1, <4>1
    <3>2. CASE t # s
      <4>1. (\E i \in 1..n+1 : Slots'[i] = t) <=> Listed(t)
        BY <1>0, <2>4, <3>2
      <4> QED
        BY <1>0, <2>2, <3>2, <4>1 DEF BusInv
    <3> QED
      BY <3>1, <3>2
  <2>8. \A t \in Subscribers : closed'[t] <=> sub'[t] = "left"
    BY <1>0, <2>2 DEF BusInv
  <2> HIDE DEF n
  <2> QED
    BY <1>1, <2>5, <2>6, <2>7, <2>8, Alone DEF BusInv
<1>2. ASSUME NEW s \in Subscribers, Leave(s) PROVE BusInv'
  <2>1. PICK k \in 1..n : Slots[k] = s /\ Removed(k)
    BY <1>0, <1>2, LeaveRemoves
  <2>2. /\ sub[s] = "leaving" /\ sub' = [sub EXCEPT ![s] = "left"]
        /\ closed' = [closed EXCEPT ![s] = TRUE]
    BY <1>2 DEF Leave
  <2> DEFINE at(j) == IF j < k THEN j ELSE j + 1
  <2>3. subscribers'.len = n - 1
    BY <2>1 DEF Removed
  <2>4. \A j \in 1..n-1 : at(j) \in 1..n /\ at(j) # k /\ Slots'[j] = Slots[at(j)]
    BY <1>0, <2>1 DEF Removed
  <2>5. \A i, j \in 1..n-1 : at(i) = at(j) => i = j
    BY <1>0, <2>1
  <2>6. ASSUME NEW i \in 1..n, i # k PROVE \E j \in 1..n-1 : at(j) = i
    <3>1. CASE i < k
      BY <1>0, <2>1, <3>1
    <3>2. CASE i > k
      <4>1. i - 1 \in 1..n-1 /\ at(i - 1) = i
        BY <1>0, <2>1, <3>2
      <4> QED
        BY <4>1
    <3> QED
      BY <1>0, <2>1, <2>6, <3>1, <3>2
  <2> HIDE DEF at
  <2>7. \A i, j \in 1..n : Slots[i] = Slots[j] => i = j
    BY DEF BusInv
  <2>8. \A i, j \in 1..n-1 : Slots'[i] = Slots'[j] => i = j
    BY <2>4, <2>5, <2>7
  <2>9. ASSUME NEW t \in Subscribers
        PROVE  sub'[t] \in {"subscribed", "leaving"} <=> \E j \in 1..n-1 : Slots'[j] = t
    <3>1. CASE t = s
      <4>1. \A j \in 1..n-1 : Slots'[j] # s
        BY <2>1, <2>4, <2>7
      <4> QED
        BY <1>0, <2>2, <3>1, <4>1
    <3>2. CASE t # s
      <4>1. (\E j \in 1..n-1 : Slots'[j] = t) <=> Listed(t)
        BY <2>1, <2>4, <2>6, <3>2
      <4>2. sub'[t] = sub[t]
        BY <1>0, <2>2, <3>2
      <4> QED
        BY <4>1, <4>2 DEF BusInv
    <3> QED
      BY <3>1, <3>2
  <2>10. \A t \in Subscribers : closed'[t] <=> sub'[t] = "left"
    BY <1>0, <2>2 DEF BusInv, TypeOK, EventType
  <2> HIDE DEF n
  <2> QED
    BY <1>2, <2>3, <2>8, <2>9, <2>10, Alone DEF BusInv
<1> DEFINE Same == /\ UNCHANGED <<arrays, subscribers, closed>> /\ Slots' = Slots
           Loops == \A p \in Publishers : pc'[p] = "loop" =>
                      list'[p] = subscribers /\ turn'[p] <= subscribers.len
           Subs == \A t \in Subscribers :
                     /\ sub'[t] \in {"subscribed", "leaving"} <=> sub[t] \in {"subscribed", "leaving"}
                     /\ sub'[t] = "left" <=> sub[t] = "left"
<1>3. Same /\ Loops /\ Subs => BusInv'
  BY DEF BusInv
<1>4. ASSUME NEW p \in Publishers, Publish(p) \/ Enter(p) \/ RUnlock(p) PROVE BusInv'
  <2>1. Same /\ sub' = sub
    BY <1>4 DEF Publish, Call, Enter, RUnlock, bus, subscription, Slots
  <2>2. ASSUME NEW q \in Publishers, pc'[q] = "loop"
        PROVE  list'[q] = subscribers /\ turn'[q] <= subscribers.len
    <3>1. CASE Enter(p) /\ q = p
      BY <1>0, <3>1 DEF Enter, TypeOK, SliceType
    <3>2. CASE ~(Enter(p) /\ q = p)
      <4>1. pc[q] = "loop" /\ list'[q] = list[q] /\ turn'[q] = turn[q]
        BY <1>0, <1>4, <2>2, <3>2 DEF Publish, Call, Enter, RUnlock, TypeOK, SliceType
      <4> QED
        BY <4>1 DEF BusInv
    <3> QED
      BY <3>1, <3>2
  <2> QED
    BY <1>3, <2>1, <2>2
<1>5. ASSUME NEW p \in Publishers, Send(p) PROVE BusInv'
  <2>1. Same /\ sub' = sub /\ pc' = pc /\ list' = list
    BY <1>5 DEF Send, subscription, Slots
  <2>2. turn' = [turn EXCEPT ![p] = @ + 1]
    BY <1>5, SendIs DEF Put, Drop
  <2>3. turn[p] + 1 <= subscribers.len
    BY <1>0, <1>5, AtSubscriber DEF Send, BusInv, TypeOK
  <2>4. Loops
    BY <2>1, <2>2, <2>3 DEF BusInv, TypeOK, SliceType
  <2> QED
    BY <1>3, <2>1, <2>4
<1>6. ASSUME NEW s \in Subscribers,
             Subscribe(s) \/ Cancel(s) \/ Lock(s) \/ Unsubscribe(s) \/ Receive(s)
      PROVE  BusInv'
  <2>1. Same /\ UNCHANGED publisher
    BY <1>6 DEF Subscribe, Cancel, Lock, Unsubscribe, Receive, bus, Slots
  <2>2. Loops
    BY <2>1 DEF publisher, BusInv
  <2>3. Subs
    BY <1>0, <1>6 DEF Subscribe, Cancel, Lock, Unsubscribe, Receive, subscription
  <2> QED
    BY <1>3, <2>1, <2>2, <2>3
<1>7. CASE UNCHANGED vars
  <2>1. Same /\ UNCHANGED publisher /\ sub' = sub
    BY <1>7 DEF vars, bus, subscription, Slots
  <2> QED
    BY <1>3, <2>1 DEF publisher, BusInv
<1> QED
  BY <1>1, <1>2, <1>4, <1>5, <1>6, <1>7 DEF Next, PublishStep, SubscriptionStep

LEMMA SafeSend ==
  ASSUME TypeOK, BusInv, NEW p \in Publishers, Send(p) PROVE ~panicked'
<1>1. list[p] = subscribers /\ turn[p] < list[p].len
  BY DEF Send, BusInv
<1>2. /\ turn[p] + 1 \in 1..subscribers.len /\ At(p) = Slots[turn[p] + 1] /\ At(p) \in Subscribers
  BY <1>1, AtSubscriber DEF TypeOK
<1>3. sub[At(p)] \in {"subscribed", "leaving"}
  BY <1>2 DEF BusInv
<1>4. ~closed[At(p)]
  BY <1>2, <1>3 DEF BusInv
<1> QED
  BY <1>4, SendIs

SafeInv == TypeOK /\ BusInv /\ NeverPanics

LEMMA InitSafe == Init => SafeInv
<1> SUFFICES ASSUME Init PROVE SafeInv
  OBVIOUS
<1>1. subscribers.len = 0
  BY DEF Init, Nil
<1>2. BusInv
  BY <1>1 DEF Init, BusInv
<1> QED
  BY <1>2, InitType DEF SafeInv, Init, NeverPanics

LEMMA NextSafe == SafeInv /\ [Next]_vars => SafeInv'
<1> SUFFICES ASSUME SafeInv, [Next]_vars PROVE SafeInv'
  OBVIOUS
<1> USE DEF SafeInv
<1> DEFINE Kept == EventType' /\ NeverPanics'
<1>1. BusInv'
  BY BusStep
<1>2. ASSUME NEW p \in Publishers, Send(p) PROVE Kept
  <2>1. list[p] = subscribers /\ turn[p] < list[p].len
    BY <1>2 DEF Send, BusInv
  <2> QED
    BY <1>2, <2>1, AtSubscriber, SendEvents, SafeSend DEF TypeOK, NeverPanics
<1>3. ASSUME NEW p \in Publishers, Publish(p) \/ Enter(p) \/ RUnlock(p) PROVE Kept
  <2>1. panicked' = panicked
    BY <1>3 DEF Publish, Call, Enter, RUnlock
  <2> QED
    BY <1>3, <2>1, PublisherEvents DEF TypeOK, NeverPanics
<1>4. ASSUME NEW s \in Subscribers, Receive(s) PROVE Kept
  BY <1>4, ReceiveEvents DEF Receive, TypeOK, NeverPanics
<1>5. ASSUME NEW s \in Subscribers,
             Subscribe(s) \/ Cancel(s) \/ Lock(s) \/ Join(s) \/ Unsubscribe(s) \/ Leave(s)
      PROVE  Kept
  <2>1. panicked' = panicked
    BY <1>5 DEF Subscribe, Cancel, Lock, Join, Unsubscribe, Leave
  <2> QED
    BY <1>5, <2>1, SubscriberEvents DEF TypeOK, NeverPanics
<1>6. ASSUME UNCHANGED vars PROVE Kept
  <2>1. UNCHANGED <<channel, closed, count, panicked, got, due>>
    BY <1>6 DEF vars, bus, publisher, history
  <2> QED
    BY <2>1 DEF EventType, TypeOK, NeverPanics
<1> HIDE DEF Kept
<1>7. Kept
  BY <1>2, <1>3, <1>4, <1>5, <1>6 DEF Next, PublishStep, SubscriptionStep
<1> QED
  BY <1>1, <1>7, SliceStep, LockStep DEF TypeOK, Kept

LEMMA SafeAlways == Spec => []SafeInv
BY InitSafe, NextSafe, PTL DEF Spec

\* Every variable keeps its type and no channel holds more than its buffer, for
\* any number of publishers and subscriptions (EventBus).
THEOREM TypeCorrect == Spec => []TypeOK
<1>1. SafeInv => TypeOK
  BY DEF SafeInv
<1> QED
  BY <1>1, SafeAlways, PTL

\* The slice holds the channels of the subscriptions that have begun and not ended, each
\* once, although it is shortened in the array that publishers range over; and nobody
\* changes it while one does (EventBus.subscribers).
THEOREM SliceExact == Spec => []BusInv
<1>1. SafeInv => BusInv
  BY DEF SafeInv
<1> QED
  BY <1>1, SafeAlways, PTL

\* No publisher sends on a closed channel, in any order of publishing, subscribing
\* and cancelling (EventBus.Publish).
THEOREM NoPanic == Spec => []NeverPanics
<1>1. SafeInv => NeverPanics
  BY DEF SafeInv
<1> QED
  BY <1>1, SafeAlways, PTL

-----------------------------------------------------------------------------
(* How far a loop has come.                                                *)

\* The loop of p has been at s.
Passed(p, s) == pc[p] = "loop" /\ \A i \in turn[p]+1..subscribers.len : Slots[i] # s
Owes(p, s) == pc[p] # "idle" /\ ~Passed(p, s)

\* A turn of the loop passes the subscriber it is with, and nobody else.
LEMMA SendPasses ==
  ASSUME SafeInv, NEW p \in Publishers, Send(p), NEW h, h = At(p)
  PROVE  /\ h \in Subscribers /\ pc' = pc /\ pc[p] = "loop"
         /\ Owes(p, h) /\ ~Owes(p, h)'
         /\ \A q \in Publishers : \A s : q # p \/ s # h => (Owes(q, s)' <=> Owes(q, s))
<1> USE DEF SafeInv
<1>1. /\ pc[p] = "loop" /\ pc' = pc /\ subscribers' = subscribers /\ Slots' = Slots
      /\ list[p] = subscribers /\ turn[p] < list[p].len
  BY DEF Send, Slots, BusInv
<1>2. /\ turn[p] + 1 \in 1..subscribers.len /\ h = Slots[turn[p] + 1] /\ h \in Subscribers
  BY <1>1, AtSubscriber DEF TypeOK
<1>3. turn' = [turn EXCEPT ![p] = @ + 1]
  BY SendIs DEF Put, Drop
<1>4. turn \in [Publishers -> Nat] /\ subscribers.len \in Nat
  BY SliceParts, SliceFacts DEF TypeOK, LoopType
<1>5. turn[p] \in Nat /\ turn'[p] = turn[p] + 1
  BY <1>3, <1>4
<1>6. \A q \in Publishers : q # p => turn'[q] = turn[q]
  BY <1>3, <1>4
<1>7. \A i \in turn[p]+2..subscribers.len : Slots[i] # h
  BY <1>2, <1>4, <1>5 DEF BusInv
<1>8. Owes(p, h)
  <2>1. turn[p] + 1 \in turn[p]+1..subscribers.len /\ Slots[turn[p] + 1] = h
    BY <1>2, <1>5
  <2> QED
    BY <1>1, <2>1 DEF Owes, Passed
<1>9. ~Owes(p, h)'
  BY <1>1, <1>4, <1>5, <1>7 DEF Owes, Passed
<1>10. ASSUME NEW q \in Publishers, NEW s, q # p \/ s # h PROVE Owes(q, s)' <=> Owes(q, s)
  <2>1. CASE q # p
    BY <1>1, <1>6, <2>1 DEF Owes, Passed
  <2>2. CASE q = p
    <3>1. (\A i \in turn[p]+1..subscribers.len : Slots[i] # s)
           <=> (\A i \in turn[p]+1+1..subscribers.len : Slots[i] # s)
      BY <1>2, <1>4, <1>5, <1>10, <2>2
    <3> QED
      BY <1>1, <1>5, <2>2, <3>1 DEF Owes, Passed
  <2> QED
    BY <2>1, <2>2
<1> QED
  BY <1>1, <1>2, <1>8, <1>9, <1>10

\* The steps that call no publisher and make no turn owe nobody anything new.
LEMMA OwesNoMore ==
  ASSUME SafeInv, [Next]_vars, NEW p \in Publishers, ~Publish(p), ~Send(p), NEW s, Owes(p, s)'
  PROVE  Owes(p, s)
<1>1. SUFFICES ASSUME pc[p] = "loop", pc'[p] # "idle" PROVE Passed(p, s) => Passed(p, s)'
  <2>1. pc'[p] # "idle" => pc[p] # "idle"
    BY Alone DEF Next, PublishStep, SubscriptionStep, Call, Enter, RUnlock, Send, Publish, Subscribe,
       Cancel, Receive, Lock, Unsubscribe, vars, publisher, SafeInv, TypeOK, LockType
  <2> QED
    BY <1>1, <2>1 DEF Owes, Passed
<1>2. \A t \in Subscribers : ~Join(t) /\ ~Leave(t)
  BY <1>1, Alone
<1>3. subscribers' = subscribers /\ Slots' = Slots /\ pc'[p] = "loop" /\ turn'[p] = turn[p]
  <2> USE DEF SafeInv, TypeOK, LockType, SliceType
  <2>1. ASSUME NEW q \in Publishers, Publish(q) \/ Enter(q) \/ Send(q) \/ RUnlock(q)
        PROVE  /\ arrays' = arrays /\ subscribers' = subscribers
               /\ pc'[p] = "loop" /\ turn'[p] = turn[p]
    BY <1>1, <2>1 DEF Publish, Call, Enter, Send, Put, Drop, RUnlock, bus
  <2>2. ASSUME NEW t \in Subscribers,
               Subscribe(t) \/ Cancel(t) \/ Receive(t) \/ Lock(t) \/ Unsubscribe(t)
        PROVE  /\ arrays' = arrays /\ subscribers' = subscribers
               /\ pc'[p] = "loop" /\ turn'[p] = turn[p]
    BY <1>1, <2>2 DEF Subscribe, Cancel, Receive, Lock, Unsubscribe, bus, publisher
  <2>3. CASE UNCHANGED vars
    BY <1>1, <1>2, <2>3 DEF vars, bus, publisher, Slots
  <2> QED
    BY <1>2, <2>1, <2>2, <2>3 DEF Next, PublishStep, SubscriptionStep, Slots
<1> QED
  BY <1>3 DEF Passed

-----------------------------------------------------------------------------
(* In order, and once.                                                     *)

\* The numbers of the events of p that s has received or will.
Numbers(s, p) == {got[s][p]} \cup {channel[s][j].n : j \in {i \in DOMAIN channel[s] : channel[s][i].by = p}}

\* These are no later than p's last event, and earlier as long as p owes s this one.
OrderInv ==
  \A p \in Publishers :
    /\ count[p] <= Last[p]
    /\ \A s \in Subscribers : \A m \in Numbers(s, p) :
         m <= count[p] /\ (Owes(p, s) => Before(p, m, count[p]))

OrderSafe == SafeInv /\ OrderInv /\ InOrderOnce

LEMMA InitOrder == Init => OrderSafe
<1> SUFFICES ASSUME Init PROVE OrderInv /\ InOrderOnce
  BY InitSafe DEF OrderSafe
<1>1. \A p \in Publishers : pc[p] = "idle" /\ count[p] = 0 /\ Last[p] \in Nat
  BY BusAssumption DEF Init
<1>2. \A s \in Subscribers : DOMAIN channel[s] = {}
  BY DEF Init
<1>3. \A s \in Subscribers : \A p \in Publishers : Numbers(s, p) = {0}
  BY <1>2 DEF Init, Numbers
<1> QED
  BY <1>1, <1>2, <1>3 DEF OrderInv, InOrderOnce, Owes

LEMMA NumbersType ==
  ASSUME EventType, NEW s \in Subscribers, NEW p \in Publishers, NEW m \in Numbers(s, p)
  PROVE  m \in Nat
<1>1. got[s][p] \in Nat /\ channel[s] \in Seq(Event)
  BY DEF EventType
<1>2. \A j \in DOMAIN channel[s] : channel[s][j] \in Event
  BY <1>1
<1> QED
  BY <1>1, <1>2 DEF Numbers, Event

\* Steps that move no event.
LEMMA UnmovedOrder ==
  ASSUME OrderSafe, UNCHANGED <<channel, got, count>>,
         \A p \in Publishers : \A s \in Subscribers : Owes(p, s)' => Owes(p, s)
  PROVE  OrderInv' /\ InOrderOnce'
<1>1. \A p \in Publishers : \A s \in Subscribers : Numbers(s, p)' = Numbers(s, p)
  BY DEF Numbers
<1> QED
  BY <1>1 DEF OrderSafe, OrderInv, InOrderOnce, Before

LEMMA PublishOrder ==
  ASSUME OrderSafe, NEW p \in Publishers, Publish(p)
  PROVE  OrderInv' /\ InOrderOnce'
<1> USE DEF OrderSafe
<1>1. /\ channel' = channel /\ got' = got
      /\ count' = [count EXCEPT ![p] = IF @ < Last[p] THEN @ + 1 ELSE @]
      /\ UNCHANGED <<arrays, subscribers, list, turn>>
      /\ \A q \in Publishers : q # p => pc'[q] = pc[q]
  BY DEF Publish, Call, bus, SafeInv, TypeOK, LockType
<1>2. count \in [Publishers -> Nat] /\ Last \in [Publishers -> Nat]
  BY BusAssumption DEF SafeInv, TypeOK, EventType
<1>3. \A q \in Publishers : \A s \in Subscribers : Numbers(s, q)' = Numbers(s, q)
  BY <1>1 DEF Numbers
<1>4. InOrderOnce'
  BY <1>1 DEF InOrderOnce, Before
<1>5. ASSUME NEW q \in Publishers PROVE count'[q] <= Last[q]
  BY <1>1, <1>2, <1>5 DEF OrderInv
<1>6. ASSUME NEW q \in Publishers, NEW s \in Subscribers, NEW m \in Numbers(s, q)
      PROVE  m <= count'[q] /\ (Owes(q, s)' => Before(q, m, count'[q]))
  <2>1. m \in Nat /\ m <= count[q] /\ count[q] <= Last[q] /\ count[q] \in Nat /\ Last[q] \in Nat
    BY <1>2, NumbersType DEF OrderInv, SafeInv, TypeOK
  <2>2. CASE q = p
    <3>1. count'[q] = IF count[q] < Last[q] THEN count[q] + 1 ELSE count[q]
      BY <1>1, <1>2, <2>2
    <3> QED
      BY <2>1, <3>1 DEF Before
  <2>3. CASE q # p
    <3>1. count'[q] = count[q]
      BY <1>1, <1>2, <2>3
    <3>2. Owes(q, s)' <=> Owes(q, s)
      BY <1>1, <2>3 DEF Owes, Passed, Slots
    <3> QED
      BY <3>1, <3>2 DEF OrderInv
  <2> QED
    BY <2>2, <2>3
<1> QED
  BY <1>3, <1>4, <1>5, <1>6 DEF OrderInv, Before

\* What a turn of the loop puts into a channel is later than what is in it.
LEMMA PutOrder ==
  ASSUME OrderSafe, NEW p \in Publishers, Send(p), NEW h, h = At(p), Put(p, h)
  PROVE  OrderInv' /\ InOrderOnce'
<1> USE DEF OrderSafe, SafeInv
<1> DEFINE n == Len(channel[h])
<1>1. /\ h \in Subscribers /\ Owes(p, h) /\ ~Owes(p, h)'
      /\ \A q \in Publishers : \A s : q # p \/ s # h => (Owes(q, s)' <=> Owes(q, s))
  BY SendPasses
<1>2. channel \in [Subscribers -> Seq(Event)] /\ event(p) \in Event /\ UNCHANGED <<got, count>>
  BY EventOf DEF TypeOK, EventType, Send
<1>3. channel' = [channel EXCEPT ![h] = Append(channel[h], event(p))]
  BY DEF Put
<1>4. /\ n \in Nat /\ DOMAIN channel[h] = 1..n /\ DOMAIN channel'[h] = 1..n+1
      /\ channel'[h][n+1] = event(p)
      /\ \A i \in 1..n : channel'[h][i] = channel[h][i]
  BY <1>1, <1>2, <1>3
<1>5. \A s \in Subscribers : s # h => channel'[s] = channel[s]
  BY <1>2, <1>3
<1>6. event(p).by = p /\ event(p).n = count[p]
  BY DEF event
<1> HIDE DEF n
<1>7. \A m \in Numbers(h, p) : Before(p, m, count[p])
  BY <1>1 DEF OrderInv
<1>8. /\ Before(p, got[h][p], count[p])
      /\ \A i \in 1..n : channel[h][i].by = p => Before(p, channel[h][i].n, count[p])
  BY <1>4, <1>7 DEF Numbers
<1>9. InOrderOnce'
  <2> SUFFICES ASSUME NEW s \in Subscribers, NEW j \in DOMAIN channel'[s]
               PROVE  LET e == channel'[s][j]
                      IN  /\ Before(e.by, got[s][e.by], e.n)
                          /\ \A i \in 1..j-1 : channel'[s][i].by = e.by
                                              => Before(e.by, channel'[s][i].n, e.n)
    BY <1>2 DEF InOrderOnce, Before
  <2>1. CASE s # h
    BY <1>5, <2>1 DEF InOrderOnce
  <2>2. CASE s = h /\ j = n + 1
    <3>1. 1..j-1 = 1..n
      BY <1>4, <2>2
    <3> QED
      BY <1>4, <1>6, <1>8, <2>2, <3>1
  <2>3. CASE s = h /\ j # n + 1
    <3>1. j \in 1..n /\ 1..j-1 \subseteq 1..n
      BY <1>4, <2>3
    <3> QED
      BY <1>4, <2>3, <3>1 DEF InOrderOnce
  <2> QED
    BY <2>1, <2>2, <2>3
<1>10. ASSUME NEW q \in Publishers, NEW s \in Subscribers, NEW m \in Numbers(s, q)'
       PROVE  m <= count[q] /\ (Owes(q, s)' => Before(q, m, count[q]))
  <2>1. m \in Numbers(s, q) \/ (s = h /\ q = p /\ m = count[p])
    <3>1. CASE s # h
      BY <1>2, <1>5, <3>1 DEF Numbers
    <3>2. CASE s = h
      <4>1. CASE m = got[s][q]
        BY <4>1 DEF Numbers
      <4>2. CASE m # got[s][q]
        <5>1. PICK j \in DOMAIN channel'[s] : channel'[s][j].by = q /\ m = channel'[s][j].n
          BY <1>2, <4>2 DEF Numbers
        <5>2. CASE j = n + 1
          BY <1>4, <1>6, <3>2, <5>1, <5>2
        <5>3. CASE j # n + 1
          <6>1. j \in DOMAIN channel[s] /\ channel'[s][j] = channel[s][j]
            BY <1>4, <3>2, <5>3
          <6> QED
            BY <5>1, <6>1 DEF Numbers
        <5> QED
          BY <5>2, <5>3
      <4> QED
        BY <4>1, <4>2
    <3> QED
      BY <3>1, <3>2
  <2>2. count[q] \in Nat
    BY DEF TypeOK, EventType
  <2> QED
    BY <1>1, <2>1, <2>2 DEF OrderInv
<1> QED
  BY <1>2, <1>9, <1>10 DEF OrderInv, Before

LEMMA ReceiveOrder ==
  ASSUME OrderSafe, NEW s \in Subscribers, Receive(s)
  PROVE  OrderInv' /\ InOrderOnce'
<1> USE DEF OrderSafe, SafeInv
<1> DEFINE c == channel[s]  e == Head(c)  n == Len(c)
<1>1. channel \in [Subscribers -> Seq(Event)] /\ got \in [Subscribers -> [Publishers -> Nat]]
  BY DEF TypeOK, EventType
<1>2. c \in Seq(Event) /\ c # <<>>
  BY <1>1 DEF Receive
<1>3. /\ n \in Nat /\ DOMAIN c = 1..n /\ 1 \in 1..n /\ e = c[1] /\ e \in Event
      /\ DOMAIN Tail(c) = 1..n-1 /\ \A i \in 1..n-1 : Tail(c)[i] = c[i+1]
  BY <1>2, HeadTailProperties
<1>4. e.by \in Publishers /\ e.n \in Nat
  BY <1>3 DEF Event
<1>5. /\ channel'[s] = Tail(c) /\ got'[s] = [got[s] EXCEPT ![e.by] = e.n]
      /\ \A t \in Subscribers : t # s => channel'[t] = channel[t] /\ got'[t] = got[t]
  BY <1>1 DEF Receive
<1>6. \A q \in Publishers : got'[s][q] = IF q = e.by THEN e.n ELSE got[s][q]
  BY <1>1, <1>4, <1>5
<1>7. \A q \in Publishers : \A t \in Subscribers : (Owes(q, t)' <=> Owes(q, t)) /\ count' = count
  BY DEF Receive, publisher, Owes, Passed, Slots
<1> HIDE DEF c, e, n
<1>8. ASSUME NEW q \in Publishers, NEW t \in Subscribers, NEW m \in Numbers(t, q)'
      PROVE  m \in Numbers(t, q)
  <2>1. CASE t # s
    BY <1>5, <2>1 DEF Numbers
  <2>2. CASE t = s /\ m = got'[t][q]
    BY <1>3, <1>6, <2>2 DEF Numbers, c
  <2>3. CASE t = s /\ m # got'[t][q]
    <3>1. PICK j \in DOMAIN channel'[t] : channel'[t][j].by = q /\ m = channel'[t][j].n
      BY <2>3 DEF Numbers
    <3>2. j + 1 \in 1..n /\ channel'[t][j] = c[j + 1]
      BY <1>3, <1>5, <2>3, <3>1
    <3> QED
      BY <1>3, <2>3, <3>1, <3>2 DEF Numbers, c
  <2> QED
    BY <2>1, <2>2, <2>3
<1>9. InOrderOnce'
  <2> SUFFICES ASSUME NEW t \in Subscribers, NEW j \in DOMAIN channel'[t]
               PROVE  LET x == channel'[t][j]
                      IN  /\ Before(x.by, got'[t][x.by], x.n)
                          /\ \A i \in 1..j-1 : channel'[t][i].by = x.by
                                              => Before(x.by, channel'[t][i].n, x.n)
    BY DEF InOrderOnce, Before
  <2>1. CASE t # s
    BY <1>5, <2>1 DEF InOrderOnce
  <2>2. CASE t = s
    <3>1. j \in 1..n-1 /\ j + 1 \in 1..n /\ 1 \in 1..(j+1)-1
      BY <1>3, <1>5, <2>2
    <3>2. channel'[t][j] = c[j+1] /\ c[j+1] \in Event
      BY <1>2, <1>3, <1>5, <2>2, <3>1
    <3>3. c[j+1].by \in Publishers
      BY <3>2 DEF Event
    <3>4. /\ Before(c[j+1].by, got[s][c[j+1].by], c[j+1].n)
          /\ \A i \in 1..(j+1)-1 : c[i].by = c[j+1].by => Before(c[j+1].by, c[i].n, c[j+1].n)
      BY <1>3, <3>1 DEF InOrderOnce, c
    <3>5. Before(c[j+1].by, got'[t][c[j+1].by], c[j+1].n)
      BY <1>3, <1>6, <2>2, <3>1, <3>3, <3>4
    <3>6. ASSUME NEW i \in 1..j-1 PROVE channel'[t][i] = c[i+1] /\ i + 1 \in 1..(j+1)-1
      BY <1>3, <1>5, <2>2, <3>1
    <3> QED
      BY <3>2, <3>4, <3>5, <3>6
  <2> QED
    BY <2>1, <2>2
<1> QED
  BY <1>7, <1>8, <1>9 DEF OrderInv, Before

LEMMA NextOrder == OrderSafe /\ [Next]_vars => OrderSafe'
<1> SUFFICES ASSUME OrderSafe, [Next]_vars PROVE OrderInv' /\ InOrderOnce'
  BY NextSafe DEF OrderSafe
<1> DEFINE Kept == OrderInv' /\ InOrderOnce'
           Unmoved == UNCHANGED <<channel, got, count>>
<1>1. ASSUME NEW p \in Publishers, Publish(p) PROVE Kept
  BY <1>1, PublishOrder
<1>2. ASSUME NEW p \in Publishers, Send(p), NEW h, h = At(p), Put(p, h) PROVE Kept
  BY <1>2, PutOrder
<1>3. ASSUME NEW p \in Publishers, Send(p), NEW h, h = At(p), Drop(p, h) PROVE Kept
  <2>1. Unmoved
    BY <1>3 DEF Drop, Send
  <2>2. \A q \in Publishers : \A s \in Subscribers : Owes(q, s)' => Owes(q, s)
    BY <1>3, SendPasses DEF OrderSafe
  <2> QED
    BY <2>1, <2>2, UnmovedOrder
<1>4. ASSUME NEW p \in Publishers, Send(p) PROVE Kept
  BY <1>2, <1>3, <1>4, SendIs
<1>5. ASSUME NEW s \in Subscribers, Receive(s) PROVE Kept
  BY <1>5, ReceiveOrder
<1> HIDE DEF Kept
<1>6. ASSUME \A p \in Publishers : ~Publish(p) /\ ~Send(p), \A s \in Subscribers : ~Receive(s)
      PROVE  Kept
  <2>1. \A q \in Publishers : \A s \in Subscribers : Owes(q, s)' => Owes(q, s)
    BY <1>6, OwesNoMore DEF OrderSafe
  <2>2. Unmoved
    <3>1. ASSUME NEW p \in Publishers, Enter(p) \/ RUnlock(p) PROVE Unmoved
      BY <3>1 DEF Enter, RUnlock, bus, history
    <3>2. ASSUME NEW s \in Subscribers,
                 Subscribe(s) \/ Cancel(s) \/ Lock(s) \/ Join(s) \/ Unsubscribe(s) \/ Leave(s)
          PROVE  Unmoved
      BY <3>2 DEF Subscribe, Cancel, Lock, Join, Unsubscribe, Leave, bus, publisher, history
    <3>3. ASSUME UNCHANGED vars PROVE Unmoved
      BY <3>3 DEF vars, bus, publisher, history
    <3> HIDE DEF Unmoved
    <3> QED
      BY <1>6, <3>1, <3>2, <3>3 DEF Next, PublishStep, SubscriptionStep
  <2> QED
    BY <2>1, <2>2, UnmovedOrder DEF Kept
<1> QED
  BY <1>1, <1>4, <1>5, <1>6 DEF Kept

\* A subscription is given the events of one publisher in the order they were
\* published, and none twice (EventBus.Publish).
THEOREM InOrder == Spec => []InOrderOnce
<1>1. OrderSafe => InOrderOnce
  BY DEF OrderSafe
<1> QED
  BY InitOrder, NextOrder, <1>1, PTL DEF Spec

-----------------------------------------------------------------------------
(* Nothing is missed because of another subscriber.                        *)

\* A publisher owes its event to those who were subscribed when it called Publish and
\* still are.
DueInv == \A p \in Publishers : \A s \in due[p] : s \notin done /\ sub[s] = "subscribed" /\ Owes(p, s)

LEMMA InitDue == Init => DueInv
BY DEF Init, DueInv

LEMMA PublisherDue ==
  ASSUME SafeInv, DueInv, NEW p \in Publishers, Publish(p) \/ Enter(p) \/ RUnlock(p) PROVE DueInv'
<1> USE DEF SafeInv
<1>1. /\ UNCHANGED <<arrays, subscribers, sub, done>> /\ Slots' = Slots
      /\ \A q \in Publishers : q # p => pc'[q] = pc[q] /\ turn'[q] = turn[q] /\ due'[q] = due[q]
  BY DEF Publish, Call, Enter, RUnlock, bus, subscription, history, Slots, TypeOK, SliceType, LockType, EventType
<1>2. ASSUME NEW q \in Publishers, NEW s \in due'[q]
      PROVE  s \notin done /\ sub[s] = "subscribed" /\ Owes(q, s)'
  <2>1. CASE q # p
    <3>1. Owes(q, s)' <=> Owes(q, s)
      BY <1>1, <2>1 DEF Owes, Passed
    <3> QED
      BY <1>1, <1>2, <2>1, <3>1 DEF DueInv
  <2>2. CASE q = p /\ Publish(p)
    <3>1. s \in Subscribers \ done /\ sub[s] = "subscribed"
      BY <1>2, <2>2 DEF Publish, Call, TypeOK, EventType
    <3>2. pc'[p] \in {"in", "blocked"}
      BY <2>2 DEF Publish, Call, TypeOK, LockType
    <3> QED
      BY <2>2, <3>1, <3>2 DEF Owes, Passed
  <2>3. CASE q = p /\ Enter(p)
    <3>1. s \in due[p] /\ s \in Subscribers /\ pc'[p] = "loop" /\ turn'[p] = 0
      BY <1>2, <2>3 DEF Enter, history, TypeOK, SliceType, LockType, EventType
    <3>2. s \notin done /\ sub[s] = "subscribed"
      BY <3>1 DEF DueInv
    <3>3. \E i \in 1..subscribers.len : Slots[i] = s
      BY <3>1, <3>2 DEF BusInv
    <3>4. ~Passed(p, s)'
      BY <1>1, <3>1, <3>3 DEF Passed
    <3> QED
      BY <2>3, <3>1, <3>2, <3>4 DEF Owes
  <2>4. CASE q = p /\ RUnlock(p)
    <3>1. s \in due[p] /\ pc[p] = "loop" /\ turn[p] = subscribers.len
      BY <1>2, <2>4 DEF RUnlock, history, BusInv
    <3>2. subscribers.len \in Nat
      BY SliceParts, SliceFacts DEF TypeOK
    <3>3. Passed(p, s)
      BY <3>1, <3>2 DEF Passed
    <3> QED
      BY <3>1, <3>3 DEF DueInv, Owes
  <2> QED
    BY <2>1, <2>2, <2>3, <2>4
<1> QED
  BY <1>1, <1>2 DEF DueInv

LEMMA SendDue ==
  ASSUME SafeInv, DueInv, NEW p \in Publishers, Send(p) PROVE DueInv'
<1>1. PICK h : h = At(p)
  OBVIOUS
<1>2. \A q \in Publishers : \A s : q # p \/ s # h => (Owes(q, s)' <=> Owes(q, s))
  BY <1>1, SendPasses
<1>3. due' = [due EXCEPT ![p] = @ \ {h}]
  BY <1>1, SendIs
<1>4. \A q \in Publishers : \A s \in due'[q] : s \in due[q] /\ (q # p \/ s # h)
  BY <1>3 DEF SafeInv, TypeOK, EventType
<1>5. UNCHANGED <<sub, done>>
  BY DEF Send, subscription
<1> QED
  BY <1>2, <1>4, <1>5 DEF DueInv

\* Steps of subscriptions: one that ends is owed nothing any more, as its context is
\* cancelled before.
LEMMA SubscriberDue ==
  ASSUME SafeInv, DueInv, [Next]_vars, NEW s \in Subscribers,
         \/ Subscribe(s) \/ Cancel(s) \/ Receive(s) \/ Lock(s) \/ Join(s) \/ Unsubscribe(s) \/ Leave(s)
  PROVE  DueInv'
<1> USE DEF SafeInv
<1>1. ASSUME NEW q \in Publishers, NEW t \in due'[q]
      PROVE  t \in due[q] /\ t \notin done' /\ sub'[t] = "subscribed"
  <2>1. t \in due[q] /\ (t = s => ~Cancel(s))
    BY DEF Subscribe, Cancel, Receive, Lock, Join, Unsubscribe, Leave, history, TypeOK, EventType
  <2>2. t \notin done /\ sub[t] = "subscribed" /\ t \in Subscribers
    BY <2>1 DEF DueInv, TypeOK, EventType
  <2>3. t \notin done'
    BY <2>1, <2>2 DEF Subscribe, Cancel, Receive, Lock, Join, Unsubscribe, Leave, subscription
  <2>4. sub'[t] = "subscribed"
    BY <2>1, <2>2 DEF Subscribe, Cancel, Receive, Lock, Join, Unsubscribe, Leave, subscription, TypeOK, LockType
  <2> QED
    BY <2>1, <2>3, <2>4
<1>2. \A q \in Publishers : \A t : Owes(q, t) => Owes(q, t)'
  <2>1. CASE Join(s) \/ Leave(s)
    BY <2>1, Alone DEF Owes, Passed
  <2>2. CASE ~(Join(s) \/ Leave(s))
    BY <2>2 DEF Subscribe, Cancel, Receive, Lock, Unsubscribe, bus, publisher, Owes, Passed, Slots
  <2> QED
    BY <2>1, <2>2
<1> QED
  BY <1>1, <1>2 DEF DueInv

LEMMA NextDue == SafeInv /\ DueInv /\ [Next]_vars => DueInv'
<1> SUFFICES ASSUME SafeInv, DueInv, [Next]_vars PROVE DueInv'
  OBVIOUS
<1>1. CASE UNCHANGED vars
  BY <1>1 DEF vars, bus, subscription, publisher, history, DueInv, Owes, Passed, Slots
<1> QED
  BY <1>1, PublisherDue, SendDue, SubscriberDue DEF Next, PublishStep, SubscriptionStep

\* What is published while a subscription lasts is put into its channel, or was
\* dropped because this channel was full (EventBus.Publish).
THEOREM NoneMissed == Spec => []NothingMissed
<1>1. SafeInv /\ DueInv => NothingMissed
  BY DEF DueInv, NothingMissed, Owes, SafeInv, TypeOK, EventType
<1> QED
  BY <1>1, SafeAlways, NextDue, InitDue, PTL DEF Spec
=============================================================================
