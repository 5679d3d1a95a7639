-------------------------- MODULE MCImportTransfer --------------------------
(***************************************************************************)
(* Instances of ImportTransfer for TLC.                                    *)
(***************************************************************************)
EXTENDS ImportTransfer, TLC

CONSTANTS r1, r2, c1, s1, s2

TwoRefs == {r1, r2}
OneChoice == {c1}
OneSession == {s1}
TwoSessions == {s1, s2}
Symmetry == Permutations(Refs) \cup Permutations(Sessions)
=============================================================================
