----------------------------- MODULE SizeProof -----------------------------
(***************************************************************************)
(* size.rs: the size bucket a store anchors on chain, and the check of a   *)
(* downloaded artifact's length against it.  No state.                     *)
(*                                                                         *)
(* The ladder itself is dig-merkle's and is a parameter here: bucket k     *)
(* stands for the lengths up to ByteLen[k] that do not fit a smaller one.  *)
(* The real one is ByteLen[k] = 2^(k+20) for k in 0..10.                   *)
(***************************************************************************)
EXTENDS Naturals

CONSTANTS
  MaxExponent,   \* MAX_EXPONENT, the bucket at the ceiling
  ByteLen        \* SizeBucket::byte_len

ASSUME LadderAssumption ==
  /\ MaxExponent \in Nat
  /\ ByteLen \in [0 .. MaxExponent -> Nat \ {0}]
  /\ \A i, j \in 0 .. MaxExponent : i < j => ByteLen[i] < ByteLen[j]

SizeBucket == 0 .. MaxExponent

\* What require reports as the bucket of a length over the ceiling.
OverCeiling == MaxExponent + 1

\* for_byte_len: the smallest bucket that holds n bytes, as a set that is
\* empty where the code returns an error.
ForByteLen(n) ==
  {k \in SizeBucket : n <= ByteLen[k] /\ \A j \in SizeBucket : j < k => ByteLen[j] < n}

\* Bug: the anchored bucket is taken for a maximum.
VerifyBug(anchored, actualBytes) ==
  IF \E k \in ForByteLen(actualBytes) : k <= anchored THEN "Accept" ELSE "Discard"

\* Bug: the upper end of the bucket is left out.
VerifyOpenBug(anchored, actualBytes) ==
  IF ForByteLen(actualBytes) = {anchored} /\ actualBytes # ByteLen[anchored]
  THEN "Accept" ELSE "Discard"

\* SizeProof::verify.
Verify(anchored, actualBytes) ==
  IF ForByteLen(actualBytes) = {anchored} THEN "Accept" ELSE "Discard"

\* Bug: a length over the ceiling is reported in the largest bucket.
RequireBug(anchored, actualBytes) ==
  IF Verify(anchored, actualBytes) = "Accept" THEN [kind |-> "Ok"]
  ELSE [kind |-> "SizeProofMismatch", anchored_k |-> anchored,
        actual_k |-> IF ForByteLen(actualBytes) = {} THEN MaxExponent
                     ELSE CHOOSE k \in ForByteLen(actualBytes) : TRUE]

\* SizeProof::require: Ok, or the error with both buckets.
Require(anchored, actualBytes) ==
  IF Verify(anchored, actualBytes) = "Accept" THEN [kind |-> "Ok"]
  ELSE [kind |-> "SizeProofMismatch", anchored_k |-> anchored,
        actual_k |-> IF ForByteLen(actualBytes) = {} THEN OverCeiling
                     ELSE CHOOSE k \in ForByteLen(actualBytes) : TRUE]

-----------------------------------------------------------------------------
(* What the check is for.                                                  *)

\* The lengths a bucket stands for: an interval open below, closed above,
\* and for bucket 0 everything from 0 bytes on.
InInterval(k, n) == n <= ByteLen[k] /\ (k = 0 \/ ByteLen[k - 1] < n)

\* verify accepts a length exactly if it lies in the anchored bucket's own
\* interval, so buckets neither overlap nor leave a gap below the ceiling
\* ("larger OR smaller", size.rs:46-50).
AcceptsItsInterval(anchored, n) ==
  Verify(anchored, n) = "Accept" <=> InInterval(anchored, n)

\* The error of a discarded artifact always tells two buckets apart, also
\* when the length has no bucket and the anchored one is the largest
\* (size.rs:69-74), and its bucket would have been accepted.
MismatchIsTelling(anchored, n) ==
  LET r == Require(anchored, n) IN
  r.kind = "SizeProofMismatch" =>
    /\ r.anchored_k = anchored /\ r.actual_k # anchored
    /\ r.actual_k = OverCeiling <=> n > ByteLen[MaxExponent]
    /\ r.actual_k # OverCeiling => Verify(r.actual_k, n) = "Accept"
=============================================================================
