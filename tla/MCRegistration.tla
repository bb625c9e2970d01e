--------------------------- MODULE MCRegistration ---------------------------
(* Instances of Registration for TLC. *)
EXTENDS Registration, TLC

CONSTANTS n1, n2, n3

MCLocation == {n1, n2, n3}
MCOneLocation == {n1}
Symmetry == Permutations(MCLocation)
=============================================================================
