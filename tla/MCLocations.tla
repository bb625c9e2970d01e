---------------------------- MODULE MCLocations -----------------------------
(***************************************************************************)
(* Instances of Locations for TLC.                                         *)
(***************************************************************************)
EXTENDS Locations, TLC

CONSTANTS r1, r2, h1, h2, h3, c1, c2, c3

Symmetry == Permutations(Rank) \cup Permutations(Host) \cup Permutations(Command)
=============================================================================
