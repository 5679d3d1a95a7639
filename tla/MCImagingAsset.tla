--------------------------- MODULE MCImagingAsset ---------------------------
(***************************************************************************)
(* Instances of ImagingAsset for TLC.                                      *)
(***************************************************************************)
EXTENDS ImagingAsset, TLC

CONSTANTS s1, s2, p1, p2

Symmetry == Permutations(Sessions)
=============================================================================
