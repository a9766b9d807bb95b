--------------------------- MODULE OneTimeOverride ---------------------------
(***************************************************************************)
(* What Bootforge promises about one-time boot overrides, with no          *)
(* registry, no reload and no HTTP handler in sight: an override set for a *)
(* MAC waits in that MAC's slot until a later one replaces it or one boot  *)
(* request takes it; a taken override is served to that request or given   *)
(* up by it, and is never seen again.  Overrides live in memory only, so a *)
(* restart of the process forgets the ones that are waiting or in hand.    *)
(*                                                                         *)
(* Overrides are numbered 1, 2, ... in the order they were set.            *)
(***************************************************************************)
EXTENDS Naturals

CONSTANTS MAC,              \* client MAC addresses
          MaxOverrides      \* bound: how many overrides are ever set

VARIABLES issued,           \* number of overrides set so far
          slot,             \* slot[m]: the override waiting for m, 0 if none
          hand,             \* overrides a boot request has taken, not answered
          served,           \* overrides that were the answer to a boot request
          gone              \* overrides replaced, given up or forgotten

vars == <<issued, slot, hand, served, gone>>

Waiting == {slot[m] : m \in MAC} \ {0}

Init == /\ issued = 0
        /\ slot = [m \in MAC |-> 0]
        /\ hand = {}
        /\ served = {}
        /\ gone = {}

\* An override for m; one that is already waiting for m is replaced.
Set(m) == /\ issued < MaxOverrides
          /\ issued' = issued + 1
          /\ slot' = [slot EXCEPT ![m] = issued + 1]
          /\ gone' = gone \cup ({slot[m]} \ {0})
          /\ UNCHANGED <<hand, served>>

\* The next boot request of m takes the waiting override.
Take(m) == /\ slot[m] # 0
           /\ slot' = [slot EXCEPT ![m] = 0]
           /\ hand' = hand \cup {slot[m]}
           /\ UNCHANGED <<issued, served, gone>>

\* The request that took override i is answered with it ...
Serve(i) == /\ hand' = hand \ {i}
            /\ served' = served \cup {i}
            /\ UNCHANGED <<issued, slot, gone>>

\* ... or with the client's normal menu (or an error), and i is gone.
GiveUp(i) == /\ hand' = hand \ {i}
             /\ gone' = gone \cup {i}
             /\ UNCHANGED <<issued, slot, served>>

\* The process stops: nothing that was waiting or in hand survives.
Forget == /\ slot' = [m \in MAC |-> 0]
          /\ hand' = {}
          /\ gone' = gone \cup Waiting \cup hand
          /\ UNCHANGED <<issued, served>>

Next == \/ \E m \in MAC : Set(m) \/ Take(m)
        \/ \E i \in hand : Serve(i) \/ GiveUp(i)
        \/ Forget

Spec == Init /\ [][Next]_vars

-----------------------------------------------------------------------------

TypeOK == /\ issued \in 0..MaxOverrides
          /\ slot \in [MAC -> 0..issued]
          /\ hand \subseteq 1..issued
          /\ served \subseteq 1..issued
          /\ gone \subseteq 1..issued

\* An override is in one place: waiting for one MAC, in the hand of one
\* request, served, or gone; and it is never in none of them.
OnePlace == /\ \A m, n \in MAC : slot[m] = slot[n] /\ slot[m] # 0 => m = n
            /\ Waiting \cap (hand \cup served \cup gone) = {}
            /\ hand \cap (served \cup gone) = {}
            /\ served \cap gone = {}
            /\ 1..issued \subseteq Waiting \cup hand \cup served \cup gone
=============================================================================
