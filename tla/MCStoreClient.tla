--------------------------- MODULE MCStoreClient ---------------------------
(***************************************************************************)
(* StoreClient on a ladder of three buckets, at its boundary lengths.      *)
(***************************************************************************)
EXTENDS StoreClient, TLC

CONSTANTS s1, s2, r1, r2

\* Bucket 0 is 0..2, bucket 1 is 3..4, bucket 2 is 5..8.
MCByteLen == (0 :> 2) @@ (1 :> 4) @@ (2 :> 8)

\* The longest module of bucket 1, and one that outgrew it.
MCCompiled == (r1 :> 4) @@ (r2 :> 5)

MCSymmetry == Permutations(Stores)
=============================================================================
