--------------------------- MODULE MCStoreChain ---------------------------
(***************************************************************************)
(* StoreChain on a small instance.                                         *)
(***************************************************************************)
EXTENDS StoreChain, TLC

CONSTANTS s1, s2, r1, r2, k1, k2

MCSymmetry == Permutations(Stores) \cup Permutations(Roots) \cup Permutations(Sizes)
=============================================================================
