------------------------------ MODULE LogBuffer ------------------------------
(***************************************************************************)
(* The ring buffer of log entries (infra/store/logbuf.go), the slog        *)
(* handler that fills it and the two ways GET /api/v1/logs reads it.       *)
(*                                                                         *)
(* Add holds the write lock, Recent and Filter hold the read lock, so each *)
(* is one step.  An entry is what the readers look at: time, message and   *)
(* the other attributes are left out.                                      *)
(***************************************************************************)
EXTENDS Integers, Sequences

CONSTANTS MAC,          \* the MAC addresses entries are logged for
          Service,      \* "dhcp", "tftp", "http", ...
          Level,        \* slog levels: Debug is -4, Info 0, Warn 4, Error 8
          Requested     \* the size NewLogBuffer is asked for

ASSUME LogAssumption ==
  /\ Requested \in Int
  /\ Level \subseteq Int
  /\ "" \notin MAC
  /\ "" \notin Service

None == ""      \* no MAC, no service: the empty string of an entry or a filter

Entry == [mac : MAC \cup {None}, service : Service, level : Level]

\* What make([]LogEntry, size) fills the ring with; no reader may see it.
ZeroEntry == [mac |-> None, service |-> None, level |-> 0]

VARIABLES entries, pos, count      \* LogBuffer; entries is indexed from 0

vars == <<entries, pos, count>>

\* NewLogBuffer's size.
size == IF Requested < 1 THEN 1000 ELSE Requested

Init == /\ entries = [i \in 0..size-1 |-> ZeroEntry]
        /\ pos = 0
        /\ count = 0

\* Slip: the counter goes on when the ring is full.
AddCountingOn(e) == /\ entries' = [entries EXCEPT ![pos] = e]
                    /\ pos' = (pos + 1) % size
                    /\ count' = count + 1

\* Slip: a full ring does not move on.
AddStuck(e) == /\ entries' = [entries EXCEPT ![pos] = e]
               /\ pos' = IF count < size THEN (pos + 1) % size ELSE pos
               /\ count' = IF count < size THEN count + 1 ELSE count

\* LogBuffer.Add, under the write lock.
Add(e) == /\ entries' = [entries EXCEPT ![pos] = e]
          /\ pos' = (pos + 1) % size
          /\ count' = IF count < size THEN count + 1 ELSE count

\* The MAC of an entry: the last mac attribute, where the record's attributes
\* come after those of the handler (WithAttrs).  None: there is no such one.
LastMAC(preset, record) == IF record # None THEN record ELSE preset

\* logBufHandler.Handle: the handler of a service, with the mac attribute it
\* may have been given, handles a record that may have one, too.
Handle == \E s \in Service, l \in Level, preset, record \in MAC \cup {None} :
            Add([mac |-> LastMAC(preset, record), service |-> s, level |-> l])

Next == Handle

Spec == Init /\ [][Next]_vars

-----------------------------------------------------------------------------
(* The readers.                                                            *)

\* The entry i places before the newest one.
Back(i) == entries[(pos - 1 - i + size) % size]

\* Slip: the newest entry is taken to be at pos.
RecentFromPos(n) == [i \in 1..(IF n > count THEN count ELSE n) |->
                       entries[(pos - i + 1 + size) % size]]

\* LogBuffer.Recent; n is not negative (handleLogs passes a positive one).
Recent(n) == [i \in 1..(IF n > count THEN count ELSE n) |-> Back(i - 1)]

\* A filter: zero-valued fields are ignored, and the lowest level, too, when
\* it is not above 0.
Matches(f, e) == /\ f.mac # None => e.mac = f.mac
                 /\ f.service # None => e.service = f.service
                 /\ f.level > 0 => e.level >= f.level

\* Slip: the limit counts the entries looked at instead of those found.
FilterLimitScanned(f, limit) ==
  LET most == IF limit <= 0 \/ limit > count THEN count ELSE limit
      found[i \in 0..most] ==
        IF i = 0 THEN <<>>
        ELSE IF Matches(f, Back(i - 1)) THEN Append(found[i-1], Back(i - 1))
                                        ELSE found[i-1]
  IN  found[most]

\* LogBuffer.Filter's loop: Found(f, most)[i] is the result after the i newest
\* entries have been looked at; from most entries on nothing is added any more.
Look(f, most, found, i) ==
  IF Len(found) < most /\ Matches(f, Back(i - 1)) THEN Append(found, Back(i - 1))
                                                  ELSE found
Found(f, most) ==
  LET found[i \in 0..count] == IF i = 0 THEN <<>> ELSE Look(f, most, found[i-1], i)
  IN  found
Filter(f, limit) == Found(f, IF limit <= 0 THEN count ELSE limit)[count]

-----------------------------------------------------------------------------
(* Properties.                                                             *)

TypeOK == /\ entries \in [0..size-1 -> Entry \cup {ZeroEntry}]
          /\ pos \in 0..size-1
          /\ count \in 0..size

\* Until the ring is full it is filled from the front: the slots not yet
\* written are those from pos on.
RingInv == /\ TypeOK
           /\ count < size => pos = count
           /\ \A i \in 0..size-1 : count = size \/ i < count => entries[i] \in Entry

\* Where the i-th oldest entry is: the oldest is at pos once the ring is full.
Slot(i) == IF count < size THEN i - 1
           ELSE IF pos + i - 1 < size THEN pos + i - 1 ELSE pos + i - 1 - size
Window == [i \in 1..count |-> entries[Slot(i)]]

\* The ring is a bounded log: the last size entries, in order.
Abstract == INSTANCE RecentEntries WITH window <- Window, Size <- size
ImplementsRecentEntries == Abstract!Spec

NewestFirst(s) == [i \in 1..Len(s) |-> s[Len(s) + 1 - i]]
AtMost(n, s) == SubSeq(s, 1, IF n < Len(s) THEN n ELSE Len(s))

\* Recent answers with the newest n entries, newest first, whether the ring
\* has wrapped or not, and never with a slot that was not written.
RecentAnswers == \A n \in 0..size+1 : Recent(n) = AtMost(n, NewestFirst(Window))

\* r is what is left of s when the entries that do not match are taken out, or
\* the first n of them: p says where in s the entries of r are, and a matching
\* entry of s is only missing when it comes after n others.
FirstMatches(r, s, f, n) ==
  /\ Len(r) <= n
  /\ \E p \in [1..Len(r) -> 1..Len(s)] :
       /\ \A k \in 1..Len(r) : r[k] = s[p[k]] /\ Matches(f, r[k])
       /\ \A j, k \in 1..Len(r) : j < k => p[j] < p[k]
       /\ \A i \in 1..Len(s) : Matches(f, s[i]) =>
            \/ \E k \in 1..Len(r) : p[k] = i
            \/ Len(r) = n /\ \A k \in 1..n : p[k] < i

\* Filter answers with the newest matching entries, newest first; the limit
\* applies to what is found, so that GET /api/v1/logs?mac=...&limit=n shows n
\* entries of a machine whenever the ring holds as many.
Filters == [mac : MAC \cup {None}, service : Service \cup {None}, level : Level]
FilterAnswers ==
  \A f \in Filters, limit \in -1..size+1 :
    FirstMatches(Filter(f, limit), NewestFirst(Window), f,
                 IF limit <= 0 THEN size ELSE limit)
=============================================================================
