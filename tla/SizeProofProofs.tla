-------------------------- MODULE SizeProofProofs --------------------------
(***************************************************************************)
(* Theorems about the size proof, for every ladder of strictly growing     *)
(* buckets and every length.                                               *)
(***************************************************************************)
EXTENDS SizeProof, WellFoundedInduction, TLAPS

\* At most one bucket is the smallest that holds n bytes.
LEMMA ForByteLenUnique ==
  ASSUME NEW n \in Nat, NEW j \in ForByteLen(n), NEW k \in ForByteLen(n)
  PROVE  j = k
<1>1. j \in 0 .. MaxExponent /\ k \in 0 .. MaxExponent
  BY DEF ForByteLen, SizeBucket
<1>2. ByteLen[j] \in Nat /\ ByteLen[k] \in Nat
  BY <1>1, LadderAssumption
<1>3. ~(j < k) /\ ~(k < j)
  BY <1>1, <1>2 DEF ForByteLen, SizeBucket
<1>4. QED  BY <1>1, <1>3, LadderAssumption

\* A length that some bucket holds has a smallest bucket that does.
LEMMA ForByteLenExists ==
  ASSUME NEW n \in Nat, NEW k \in SizeBucket, n <= ByteLen[k]
  PROVE  ForByteLen(n) # {}
<1> DEFINE Fits == {j \in SizeBucket : n <= ByteLen[j]}
<1>1. Fits \subseteq Nat /\ Fits # {}
  BY LadderAssumption DEF SizeBucket
<1>2. PICK m \in Fits : \A j \in Fits : ~(<<j, m>> \in OpToRel(<, Nat))
  <2> HIDE DEF Fits
  <2> QED  BY <1>1, NatLessThanWellFounded, WFMin
<1>3. ASSUME NEW j \in SizeBucket, j < m PROVE ByteLen[j] < n
  <2>1. j \in Nat /\ m \in Nat
    BY <1>1 DEF SizeBucket
  <2>2. <<j, m>> \in OpToRel(<, Nat)
    BY <1>3, <2>1 DEF OpToRel
  <2>3. ~(n <= ByteLen[j])
    BY <1>2, <2>2
  <2>4. ByteLen[j] \in Nat
    BY LadderAssumption DEF SizeBucket
  <2>5. QED  BY <2>3, <2>4
<1>4. m \in ForByteLen(n)
  BY <1>3 DEF ForByteLen
<1>5. QED  BY <1>4

\* verify accepts exactly the anchored bucket's interval.
LEMMA VerifyExact ==
  ASSUME NEW k \in SizeBucket, NEW n \in Nat
  PROVE  AcceptsItsInterval(k, n)
<1>1. k \in Nat /\ ByteLen[k] \in Nat
  BY LadderAssumption DEF SizeBucket
<1>2. ASSUME Verify(k, n) = "Accept" PROVE InInterval(k, n)
  <2>1. k \in ForByteLen(n)
    BY <1>2 DEF Verify
  <2>2. k # 0 => k - 1 \in SizeBucket /\ k - 1 < k
    BY <1>1, LadderAssumption DEF SizeBucket
  <2>3. QED  BY <2>1, <2>2 DEF ForByteLen, InInterval
<1>3. ASSUME InInterval(k, n) PROVE Verify(k, n) = "Accept"
  <2>1. ASSUME NEW j \in SizeBucket, j < k PROVE ByteLen[j] < n
    <3>1. k # 0 /\ k - 1 \in 0 .. MaxExponent /\ j \in 0 .. MaxExponent /\ j <= k - 1
      BY <1>1, <2>1, LadderAssumption DEF SizeBucket
    <3>2. ByteLen[j] \in Nat /\ ByteLen[k - 1] \in Nat
      BY <3>1, LadderAssumption
    <3>3. ByteLen[j] <= ByteLen[k - 1]
      <4>1. CASE j = k - 1
        BY <3>2, <4>1
      <4>2. CASE j < k - 1
        BY <3>1, <3>2, <4>2, LadderAssumption
      <4>3. j \in Int /\ k - 1 \in Int
        BY <3>1
      <4>4. QED  BY <3>1, <4>1, <4>2, <4>3
    <3>4. ByteLen[k - 1] < n
      BY <1>3, <3>1 DEF InInterval
    <3>5. QED  BY <3>2, <3>3, <3>4
  <2>2. k \in ForByteLen(n)
    BY <1>3, <2>1 DEF ForByteLen, InInterval
  <2>3. ForByteLen(n) = {k}
    BY <2>2, ForByteLenUnique
  <2>4. QED  BY <2>3 DEF Verify
<1>4. QED  BY <1>2, <1>3 DEF AcceptsItsInterval

\* The error of require tells two buckets apart.
LEMMA RequireTelling ==
  ASSUME NEW k \in SizeBucket, NEW n \in Nat
  PROVE  MismatchIsTelling(k, n)
<1> DEFINE r == Require(k, n)
           top == ByteLen[MaxExponent]
<1>1. MaxExponent \in SizeBucket /\ OverCeiling \notin SizeBucket /\ top \in Nat
  BY LadderAssumption DEF SizeBucket, OverCeiling
<1>2. SUFFICES ASSUME r.kind = "SizeProofMismatch"
               PROVE  /\ r.anchored_k = k /\ r.actual_k # k
                      /\ r.actual_k = OverCeiling <=> n > top
                      /\ r.actual_k # OverCeiling => Verify(r.actual_k, n) = "Accept"
  BY DEF MismatchIsTelling
<1>3. ForByteLen(n) # {k} /\ Verify(k, n) # "Accept"
  BY <1>2 DEF Verify, Require
<1>4. CASE ForByteLen(n) = {}
  <2>1. r.anchored_k = k /\ r.actual_k = OverCeiling
    BY <1>3, <1>4 DEF Require
  <2>2. ~(n <= top)
    BY <1>1, <1>4, ForByteLenExists
  <2>3. QED  BY <1>1, <2>1, <2>2
<1>5. CASE ForByteLen(n) # {}
  <2> DEFINE b == CHOOSE j \in ForByteLen(n) : TRUE
  <2>1. r.anchored_k = k /\ r.actual_k = b
    BY <1>3, <1>5 DEF Require
  <2>2. b \in ForByteLen(n) /\ b \in SizeBucket
    BY <1>5 DEF ForByteLen
  <2>3. ForByteLen(n) = {b}
    BY <2>2, ForByteLenUnique
  <2>4. Verify(b, n) = "Accept" /\ b # k
    BY <1>3, <2>3 DEF Verify
  <2>5. n <= top
    <3>1. b \in 0 .. MaxExponent /\ n <= ByteLen[b] /\ ByteLen[b] \in Nat
      BY <2>2, LadderAssumption DEF ForByteLen, SizeBucket
    <3>2. ByteLen[b] <= top
      BY <1>1, <3>1, LadderAssumption
    <3>3. QED  BY <1>1, <3>1, <3>2
  <2>6. b # OverCeiling
    BY <1>1, <2>2
  <2>7. QED  BY <1>1, <2>1, <2>4, <2>5, <2>6
<1>6. QED  BY <1>4, <1>5

-----------------------------------------------------------------------------
\* Whatever the ladder, the size proof accepts each length for exactly one
\* bucket up to the ceiling and for none above (size.rs:46-50).
THEOREM VerifyCorrect ==
  \A anchored \in SizeBucket, n \in Nat : AcceptsItsInterval(anchored, n)
BY VerifyExact

\* Whatever the ladder, a size mismatch never reports two equal buckets
\* (size.rs:69-74).
THEOREM RequireCorrect ==
  \A anchored \in SizeBucket, n \in Nat : MismatchIsTelling(anchored, n)
BY RequireTelling
=============================================================================
