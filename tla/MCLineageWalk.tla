--------------------------- MODULE MCLineageWalk ---------------------------
(***************************************************************************)
(* LineageWalk on small instances; each .cfg asks one question of it.      *)
(***************************************************************************)
EXTENDS LineageWalk, TLC

CONSTANTS s1, s2, r1, r2, k1

MCSymmetry == Permutations(Stores) \cup Permutations(Roots)
=============================================================================
