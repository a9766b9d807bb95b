---------------------------- MODULE RecentEntries ----------------------------
(***************************************************************************)
(* What the two bounded stores of Bootforge promise, whatever they are     *)
(* made of: the last Size entries, in the order they were added.  The ring *)
(* of LogBuffer and the slice of the health ResultStore implement it.      *)
(***************************************************************************)
EXTENDS Naturals, Sequences

CONSTANTS Entry, Size

VARIABLE window      \* oldest first

\* The last Size elements of a sequence that is at most one too long.
Trim(s) == IF Len(s) > Size THEN Tail(s) ELSE s

Init == window = <<>>

Add(e) == window' = Trim(Append(window, e))

Next == \E e \in Entry : Add(e)

Spec == Init /\ [][Next]_window
=============================================================================
