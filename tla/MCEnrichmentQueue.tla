------------------------- MODULE MCEnrichmentQueue -------------------------
(* Small instances of EnrichmentQueue for TLC. *)
EXTENDS EnrichmentQueue, TLC

CONSTANTS j1, j2, w1, w2, s1, s2

OneJob == [i \in Items |-> j1]

Symmetry == Permutations(Workers) \cup Permutations(Sessions)
=============================================================================
