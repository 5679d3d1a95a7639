------------------------------ MODULE MCMcpOAuth ------------------------------
(***************************************************************************)
(* Instances of McpOAuth for TLC.                                          *)
(***************************************************************************)
EXTENDS McpOAuth, TLC

CONSTANTS w1, w2, u1, u2, c1, r1

Symmetry == Permutations(Workers) \cup Permutations(Users)
=============================================================================
