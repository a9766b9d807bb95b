---------------------------- MODULE MCBootServing ----------------------------
(* Small instances of BootServing for TLC. *)
EXTENDS BootServing, TLC

CONSTANTS m1, m2, d1, d2

MCName == {"a", "b"}

Menu(enabled, entries) == [enabled |-> enabled, entries |-> entries]
NoMap == [n \in {} |-> n]

\* m1 is known and has a menu of two entries, everyone else is refused.
Two == [clients |-> [m \in {m1} |-> Menu(TRUE, <<"a", "b">>)],
        wildcard |-> NoClient,
        menus |-> [n \in {"a", "b"} |-> d1]]

\* m1 is disabled, everyone else gets the wildcard's single entry.
Wild == [clients |-> [m \in {m1} |-> Menu(FALSE, <<"b">>)],
         wildcard |-> Menu(TRUE, <<"b">>),
         menus |-> [n \in {"b"} |-> d2]]

\* Nobody is known by MAC; both entries exist, redefined.
Open == [clients |-> NoMap,
         wildcard |-> Menu(TRUE, <<"b", "a">>),
         menus |-> [n \in {"a", "b"} |-> d2]]

TwoConfigs == {Two, Wild}
AllConfigs == {Two, Wild, Open}
RequestSymmetry == Permutations(Requests)
ReloadSymmetry == Permutations(Reloads)
KeepB == {Two, Open}
=============================================================================
