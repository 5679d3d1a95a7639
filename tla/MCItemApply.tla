----------------------------- MODULE MCItemApply -----------------------------
(***************************************************************************)
(* Instances of ItemApply for TLC.                                         *)
(***************************************************************************)
EXTENDS ItemApply, TLC

CONSTANTS i1, i2, s1, s2

TwoImages == {i1, i2}
OneSession == {s1}
TwoSessions == {s1, s2}
Symmetry == Permutations(Images) \cup Permutations(Sessions)
=============================================================================
