------------------------------ MODULE MCSessions ------------------------------
(* Sessions of two machines; they are interchangeable.                         *)
EXTENDS Sessions, TLC

SomeDetails == {"", "timeout"}
Symmetry == Permutations(MACs)
=============================================================================
