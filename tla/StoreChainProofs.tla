-------------------------- MODULE StoreChainProofs --------------------------
(***************************************************************************)
(* Theorems about StoreChain: its type invariant, and that a store keeps   *)
(* the metadata it was minted with.  They hold of any number of stores,    *)
(* roots and sizes, and of every value of the bounds.                      *)
(***************************************************************************)
EXTENDS StoreChain, FiniteSetTheorems, SequenceTheorems, TLAPS

\* A step of the chain or the builders, as the proofs split it.
ChainStep ==
  \/ \E s \in Stores, params \in Metadata : CreateStore(s, params)
  \/ \E ds \in Held, r \in Roots : ModifyStore(ds, r)
  \/ \E ds \in Held : MeltStore(ds)
  \/ \E spend \in built : Confirm(spend)
  \/ EmptyBlock
  \/ \E f \in 0 .. peak - 1 : Reorg(f)

LEMMA ChainNextIsStep == ChainNext => ChainStep
  BY DEF ChainNext, Build, Grow, AnyReorg, ChainStep

-----------------------------------------------------------------------------
(* Coins and datastores.                                                   *)

\* Extending a lineage by one generation.
LEMMA SuccessorType ==
  ASSUME NEW coin \in Coin, NEW m \in Metadata
  PROVE  /\ Successor(coin, m) \in Coin
         /\ Successor(coin, m).store = coin.store
         /\ Successor(coin, m).path = Append(coin.path, m)
         /\ Len(Successor(coin, m).path) = Len(coin.path) + 1
         /\ \A i \in 1 .. Len(coin.path) : Successor(coin, m).path[i] = coin.path[i]
         /\ MetadataOf(Successor(coin, m)) = m
  BY DEF Successor, Coin, MetadataOf

\* An option is None or Some of a value.
LEMMA OptionCases ==
  ASSUME NEW S, NEW o \in Option(S), o # None
  PROVE  o[1] \in S /\ o = Some(o[1])
<1>1. o \in Seq(S) /\ Len(o) \in {0, 1}
  BY DEF Option
<1>2. Len(o) # 0
  BY <1>1, EmptySeq DEF None
<1>3. Len(o) = 1
  BY <1>1, <1>2
<1>4. o[1] \in S
  BY <1>1, <1>3
<1>5. o = << o[1] >>
  BY <1>1, <1>3
<1>6. QED  BY <1>4, <1>5 DEF Some

\* What a spend that is not a melt hydrates to.
LEMMA HydrateType ==
  ASSUME NEW spend \in Spend, ~MissingLineage(spend)
  PROVE  /\ spend.child[1] \in Metadata
         /\ spend.child = Some(spend.child[1])
         /\ Hydrate(spend) \in Coin
         /\ Hydrate(spend) = Successor(spend.coin, spend.child[1])
         /\ Hydrate(spend).path # << >>
         /\ MetadataOf(Hydrate(spend)) = spend.child[1]
<1>1. spend.coin \in Coin /\ spend.child \in Option(Metadata)
  BY DEF Spend
<1>2. spend.child[1] \in Metadata /\ spend.child = Some(spend.child[1])
  BY <1>1, OptionCases DEF MissingLineage
<1>3. Len(spend.coin.path) \in Nat
  BY <1>1 DEF Coin
<1>4. Hydrate(spend) = Successor(spend.coin, spend.child[1])
  BY DEF Hydrate
<1>5. /\ Hydrate(spend) \in Coin
      /\ Len(Hydrate(spend).path) = Len(spend.coin.path) + 1
      /\ MetadataOf(Hydrate(spend)) = spend.child[1]
  BY <1>1, <1>2, <1>4, SuccessorType
<1>6. Hydrate(spend).path # << >>
  BY <1>3, <1>5
<1>7. QED  BY <1>2, <1>4, <1>5, <1>6

\* A caller only ever holds datastores, never a bare launcher.
LEMMA HeldType ==
  ASSUME built \subseteq Spend, NEW ds \in Held
  PROVE  ds \in Coin /\ ds.path # << >> /\ MetadataOf(ds) \in Metadata
<1>1. PICK b \in built : ~MissingLineage(b) /\ ds = Hydrate(b)
  BY DEF Held
<1>2. QED  BY <1>1, HydrateType

\* A reorg keeps a prefix.
LEMMA KeptType ==
  ASSUME ChainTypeOK, NEW s \in Stores, NEW f \in Int
  PROVE  Kept(s, f) \in 0 .. Len(gens[s])
<1> DEFINE D == {i \in DOMAIN born[s] : born[s][i] <= f}
<1>1. DOMAIN born[s] = 1 .. Len(gens[s]) /\ Len(gens[s]) \in Nat
  BY DEF ChainTypeOK
<1>2. IsFiniteSet(1 .. Len(gens[s])) /\ Cardinality(1 .. Len(gens[s])) = Len(gens[s])
  BY <1>1, FS_Interval
<1>3. D \subseteq 1 .. Len(gens[s])
  BY <1>1
<1>4. Cardinality(D) <= Len(gens[s]) /\ IsFiniteSet(D)
  BY <1>2, <1>3, FS_Subset
<1>5. Cardinality(D) \in Nat
  BY <1>4, FS_CardinalityType
<1>6. QED  BY <1>4, <1>5 DEF Kept

LEMMA PrefixType ==
  ASSUME NEW S, NEW seq \in Seq(S), NEW n \in 0 .. Len(seq)
  PROVE  /\ SubSeq(seq, 1, n) \in Seq(S)
         /\ Len(SubSeq(seq, 1, n)) = n
         /\ \A i \in 1 .. n : SubSeq(seq, 1, n)[i] = seq[i]
  BY SubSeqProperties

-----------------------------------------------------------------------------
(* The type invariant.                                                     *)

LEMMA ChainTypeInit == ChainInit => ChainTypeOK
  BY EmptySeq DEF ChainInit, ChainTypeOK, Option, None, Spend

\* Building adds one spend and leaves the chain alone.
LEMMA ReturnType ==
  ASSUME ChainTypeOK, NEW spend \in Spend, Return(spend)
  PROVE  ChainTypeOK'
  BY DEF ChainTypeOK, Return, chainVars

LEMMA ModifiedType ==
  ASSUME NEW m \in Metadata, NEW r \in Roots
  PROVE  /\ [m EXCEPT !.root = r] \in Metadata
         /\ [m EXCEPT !.root = r].size = m.size
  BY DEF Metadata

LEMMA SpendType ==
  ASSUME NEW coin \in Coin, NEW m \in Metadata
  PROVE  /\ [coin |-> coin, child |-> Some(m)] \in Spend
         /\ [coin |-> coin, child |-> None] \in Spend
<1>1. Some(m) \in Option(Metadata)
  BY DEF Some, Option
<1>2. None \in Option(Metadata)
  BY EmptySeq DEF None, Option
<1>3. QED  BY <1>1, <1>2 DEF Spend

LEMMA LauncherType ==
  ASSUME NEW s \in Stores
  PROVE  LauncherCoin(s) \in Coin
  BY EmptySeq DEF LauncherCoin, Coin

LEMMA ConfirmType ==
  ASSUME ChainTypeOK, NEW spend \in built, Confirm(spend)
  PROVE  ChainTypeOK'
<1> DEFINE s == spend.coin.store
<1>1. spend \in Spend /\ s \in Stores
  BY DEF ChainTypeOK, Spend, Coin
<1>2. peak' = peak + 1 /\ peak + 1 \in Nat /\ built' = built
  BY DEF Confirm, ChainTypeOK
<1>3. CASE MissingLineage(spend)
  <2>1. meltedAt' = [meltedAt EXCEPT ![s] = Some(peak + 1)] /\ UNCHANGED <<gens, born>>
    BY <1>3 DEF Confirm
  <2>2. Some(peak + 1) \in Option(Nat)
    BY <1>2 DEF Some, Option
  <2>3. QED  BY <1>1, <1>2, <2>1, <2>2 DEF ChainTypeOK
<1>4. CASE ~MissingLineage(spend)
  <2>1. spend.child[1] \in Metadata
    BY <1>1, <1>4, HydrateType
  <2>2. /\ gens' = [gens EXCEPT ![s] = Append(gens[s], spend.child[1])]
        /\ born' = [born EXCEPT ![s] = Append(born[s], peak + 1)]
        /\ meltedAt' = meltedAt
    BY <1>4 DEF Confirm
  <2>3. /\ gens[s] \in Seq(Metadata) /\ born[s] \in Seq(Nat)
        /\ Len(born[s]) = Len(gens[s])
    BY <1>1 DEF ChainTypeOK
  <2>4. /\ Append(gens[s], spend.child[1]) \in Seq(Metadata)
        /\ Append(born[s], peak + 1) \in Seq(Nat)
        /\ Len(Append(gens[s], spend.child[1])) = Len(gens[s]) + 1
        /\ Len(Append(born[s], peak + 1)) = Len(born[s]) + 1
    BY <1>2, <2>1, <2>3
  <2>5. gens' \in [Stores -> Seq(Metadata)] /\ born' \in [Stores -> Seq(Nat)]
    BY <1>1, <2>2, <2>4 DEF ChainTypeOK
  <2>6. \A t \in Stores : Len(born'[t]) = Len(gens'[t])
    BY <1>1, <2>2, <2>3, <2>4 DEF ChainTypeOK
  <2>7. QED  BY <1>2, <2>2, <2>5, <2>6 DEF ChainTypeOK
<1>5. QED  BY <1>3, <1>4

LEMMA ReorgType ==
  ASSUME ChainTypeOK, NEW f \in Int, Reorg(f)
  PROVE  ChainTypeOK'
<1>1. /\ gens' = [s \in Stores |-> SubSeq(gens[s], 1, Kept(s, f))]
      /\ born' = [s \in Stores |-> SubSeq(born[s], 1, Kept(s, f))]
  BY DEF Reorg
<1>2. ASSUME NEW s \in Stores
      PROVE  /\ gens'[s] \in Seq(Metadata) /\ born'[s] \in Seq(Nat)
             /\ Len(born'[s]) = Len(gens'[s])
  <2>1. gens[s] \in Seq(Metadata) /\ born[s] \in Seq(Nat) /\ Len(born[s]) = Len(gens[s])
    BY DEF ChainTypeOK
  <2>2. Kept(s, f) \in 0 .. Len(gens[s]) /\ Kept(s, f) \in 0 .. Len(born[s])
    BY <2>1, KeptType
  <2>3. /\ SubSeq(gens[s], 1, Kept(s, f)) \in Seq(Metadata)
        /\ Len(SubSeq(gens[s], 1, Kept(s, f))) = Kept(s, f)
    BY <2>1, <2>2, PrefixType
  <2>4. /\ SubSeq(born[s], 1, Kept(s, f)) \in Seq(Nat)
        /\ Len(SubSeq(born[s], 1, Kept(s, f))) = Kept(s, f)
    BY <2>1, <2>2, PrefixType
  <2>5. QED  BY <1>1, <2>3, <2>4
<1>3. gens' \in [Stores -> Seq(Metadata)] /\ born' \in [Stores -> Seq(Nat)]
  BY <1>1, <1>2
<1>4. meltedAt' \in [Stores -> Option(Nat)]
  BY EmptySeq DEF Reorg, ChainTypeOK, Option, None
<1>5. peak' \in Nat /\ built' \subseteq Spend
  BY DEF Reorg, ChainTypeOK
<1>6. QED  BY <1>2, <1>3, <1>4, <1>5 DEF ChainTypeOK

LEMMA ChainTypeStep ==
  ASSUME ChainTypeOK, ChainStep
  PROVE  ChainTypeOK'
<1>0. built \subseteq Spend
  BY DEF ChainTypeOK
<1>1. ASSUME NEW s \in Stores, NEW params \in Metadata, CreateStore(s, params)
      PROVE  ChainTypeOK'
  BY <1>1, LauncherType, SpendType, ReturnType DEF CreateStore
<1>2. ASSUME NEW ds \in Held, NEW r \in Roots, ModifyStore(ds, r)
      PROVE  ChainTypeOK'
  <2>1. ds \in Coin /\ [MetadataOf(ds) EXCEPT !.root = r] \in Metadata
    BY <1>0, HeldType, ModifiedType
  <2>2. QED  BY <1>2, <2>1, SpendType, ReturnType DEF ModifyStore
<1>3. ASSUME NEW ds \in Held, MeltStore(ds)
      PROVE  ChainTypeOK'
  <2>1. ds \in Coin /\ MetadataOf(ds) \in Metadata
    BY <1>0, HeldType
  <2>2. QED  BY <1>3, <2>1, SpendType, ReturnType DEF MeltStore
<1>4. ASSUME NEW spend \in built, Confirm(spend)
      PROVE  ChainTypeOK'
  BY <1>4, ConfirmType
<1>5. CASE EmptyBlock
  BY <1>5 DEF EmptyBlock, ChainTypeOK
<1>6. ASSUME NEW f \in 0 .. peak - 1, Reorg(f)
      PROVE  ChainTypeOK'
  BY <1>6, ReorgType
<1>7. QED  BY <1>1, <1>2, <1>3, <1>4, <1>5, <1>6 DEF ChainStep

\* The write side keeps its types: in particular the two records of a
\* store's history, metadata and heights, never fall out of step.
THEOREM ChainTypeCorrect == ChainSpec => []ChainTypeOK
<1>1. ChainTypeOK /\ [ChainNext]_storeVars => ChainTypeOK'
  <2>1. SUFFICES ASSUME ChainTypeOK, [ChainNext]_storeVars
                 PROVE  ChainTypeOK'
    OBVIOUS
  <2>2. CASE ChainNext
    BY <2>1, <2>2, ChainNextIsStep, ChainTypeStep
  <2>3. CASE UNCHANGED storeVars
    BY <2>1, <2>3 DEF ChainTypeOK, storeVars, chainVars
  <2>4. QED  BY <2>1, <2>2, <2>3
<1>2. QED  BY <1>1, ChainTypeInit, PTL DEF ChainSpec

-----------------------------------------------------------------------------
(* A store keeps the metadata it was minted with.  What is confirmed comes *)
(* from what was built, and a modify may be built from any datastore ever  *)
(* returned, so the inductive invariant speaks of those as well.           *)

SameSize(path) == \A i \in DOMAIN path : path[i].size = path[1].size

MintInv ==
  /\ ChainTypeOK
  /\ \A s \in Stores : SameSize(gens[s])
  /\ \A ds \in Held : SameSize(ds.path)

\* Appending metadata that agrees with the last keeps a lineage uniform.
LEMMA AppendSameSize ==
  ASSUME NEW path \in Seq(Metadata), SameSize(path), NEW m \in Metadata,
         path # << >> => m.size = path[Len(path)].size
  PROVE  SameSize(Append(path, m))
<1> DEFINE q == Append(path, m)
<1>1. /\ Len(path) \in Nat /\ DOMAIN path = 1 .. Len(path)
      /\ DOMAIN q = 1 .. Len(path) + 1
      /\ \A i \in 1 .. Len(path) : q[i] = path[i]
      /\ q[Len(path) + 1] = m
  OBVIOUS
<1>2. CASE path = << >>
  BY <1>1, <1>2 DEF SameSize
<1>3. CASE path # << >>
  <2>1. Len(path) \in 1 .. Len(path)
    BY <1>1, <1>3, EmptySeq
  <2>2. path[Len(path)].size = path[1].size /\ q[1] = path[1]
    BY <1>1, <2>1 DEF SameSize
  <2>3. QED  BY <1>1, <1>3, <2>2 DEF SameSize
<1>4. QED  BY <1>2, <1>3

\* A builder call keeps the invariant if the child it returns is uniform.
LEMMA ReturnKeepsMint ==
  ASSUME MintInv, NEW spend \in Spend, Return(spend),
         ~MissingLineage(spend) => SameSize(Hydrate(spend).path)
  PROVE  MintInv'
<1>1. ChainTypeOK'
  BY ReturnType DEF MintInv
<1>2. built' = built \cup {spend} /\ gens' = gens
  BY DEF Return, chainVars
<1>3. \A ds \in Held' : ds \in Held \/ (~MissingLineage(spend) /\ ds = Hydrate(spend))
  BY <1>2 DEF Held
<1>4. QED  BY <1>1, <1>2, <1>3 DEF MintInv

LEMMA MintInit == ChainInit => MintInv
<1>1. SUFFICES ASSUME ChainInit PROVE MintInv
  OBVIOUS
<1>2. Held = {}
  BY <1>1 DEF ChainInit, Held
<1>3. \A s \in Stores : gens[s] = << >>
  BY <1>1 DEF ChainInit
<1>4. QED  BY <1>1, <1>2, <1>3, ChainTypeInit DEF MintInv, SameSize

LEMMA MintStep ==
  ASSUME MintInv, ChainStep
  PROVE  MintInv'
<1>0. ChainTypeOK /\ built \subseteq Spend /\ ChainTypeOK'
  BY ChainTypeStep DEF MintInv, ChainTypeOK
<1>1. ASSUME NEW s \in Stores, NEW params \in Metadata, CreateStore(s, params)
      PROVE  MintInv'
  <2> DEFINE spend == [coin |-> LauncherCoin(s), child |-> Some(params)]
  <2>1. spend \in Spend /\ Return(spend) /\ LauncherCoin(s) \in Coin
    BY <1>1, LauncherType, SpendType DEF CreateStore
  <2>2. Hydrate(spend).path = Append(<< >>, params)
    BY DEF Hydrate, Successor, LauncherCoin, Some
  <2>3. SameSize(Append(<< >>, params))
    BY EmptySeq, AppendSameSize DEF SameSize
  <2>4. QED  BY <2>1, <2>2, <2>3, ReturnKeepsMint
<1>2. ASSUME NEW ds \in Held, NEW r \in Roots, ModifyStore(ds, r)
      PROVE  MintInv'
  <2> DEFINE m == [MetadataOf(ds) EXCEPT !.root = r]
             spend == [coin |-> ds, child |-> Some(m)]
  <2>1. ds \in Coin /\ ds.path # << >> /\ m \in Metadata /\ m.size = MetadataOf(ds).size
    BY <1>0, HeldType, ModifiedType
  <2>2. ds.path \in Seq(Metadata) /\ SameSize(ds.path)
    BY <2>1 DEF MintInv, Coin
  <2>3. SameSize(Append(ds.path, m))
    BY <2>1, <2>2, AppendSameSize DEF MetadataOf
  <2>4. Hydrate(spend).path = Append(ds.path, m)
    BY DEF Hydrate, Successor, Some
  <2>5. spend \in Spend /\ Return(spend)
    BY <1>2, <2>1, SpendType DEF ModifyStore
  <2>6. QED  BY <2>3, <2>4, <2>5, ReturnKeepsMint
<1>3. ASSUME NEW ds \in Held, MeltStore(ds)
      PROVE  MintInv'
  <2> DEFINE spend == [coin |-> ds, child |-> None]
  <2>1. ds \in Coin /\ MetadataOf(ds) \in Metadata
    BY <1>0, HeldType
  <2>2. spend \in Spend /\ Return(spend) /\ MissingLineage(spend)
    BY <1>3, <2>1, SpendType DEF MeltStore, MissingLineage
  <2>3. QED  BY <2>2, ReturnKeepsMint
<1>4. ASSUME NEW spend \in built, Confirm(spend)
      PROVE  MintInv'
  <2> DEFINE s == spend.coin.store
  <2>1. built' = built /\ Held' = Held
    BY <1>4 DEF Confirm, Held
  <2>2. CASE MissingLineage(spend)
    <3>1. gens' = gens
      BY <1>4, <2>2 DEF Confirm
    <3>2. QED  BY <1>0, <2>1, <3>1 DEF MintInv
  <2>3. CASE ~MissingLineage(spend)
    <3>1. gens' = [gens EXCEPT ![s] = Append(gens[s], spend.child[1])]
      BY <1>4, <2>3 DEF Confirm
    <3>2. spend.coin.path = gens[s]
      BY <1>4 DEF Confirm, LatestCoin
    <3>3. Hydrate(spend) \in Held /\ Hydrate(spend).path = Append(gens[s], spend.child[1])
      BY <1>4, <2>3, <3>2 DEF Held, Hydrate, Successor
    <3>4. SameSize(Append(gens[s], spend.child[1]))
      BY <3>3 DEF MintInv
    <3>5. ASSUME NEW t \in Stores PROVE SameSize(gens'[t])
      BY <1>0, <3>1, <3>4 DEF MintInv, ChainTypeOK
    <3>6. QED  BY <1>0, <2>1, <3>5 DEF MintInv
  <2>4. QED  BY <2>2, <2>3
<1>5. CASE EmptyBlock
  BY <1>0, <1>5 DEF EmptyBlock, MintInv, Held
<1>6. ASSUME NEW f \in 0 .. peak - 1, Reorg(f)
      PROVE  MintInv'
  <2>1. built' = built /\ Held' = Held
    BY <1>6 DEF Reorg, Held
  <2>2. ASSUME NEW s \in Stores PROVE SameSize(gens'[s])
    <3>1. gens'[s] = SubSeq(gens[s], 1, Kept(s, f))
      BY <1>6 DEF Reorg
    <3>2. gens[s] \in Seq(Metadata) /\ SameSize(gens[s])
      BY DEF MintInv, ChainTypeOK
    <3>3. Kept(s, f) \in 0 .. Len(gens[s])
      BY <1>0, KeptType
    <3>4. /\ DOMAIN gens'[s] = 1 .. Kept(s, f)
          /\ \A i \in 1 .. Kept(s, f) : gens'[s][i] = gens[s][i]
      BY <3>1, <3>2, <3>3, PrefixType
    <3>5. QED  BY <3>2, <3>3, <3>4 DEF SameSize
  <2>3. QED  BY <1>0, <2>1, <2>2 DEF MintInv
<1>7. QED  BY <1>1, <1>2, <1>3, <1>4, <1>5, <1>6 DEF ChainStep

\* Every generation of a store, confirmed in whatever order, through any
\* reorg and from however stale a datastore, has the mint's metadata.
THEOREM MetadataCorrect == ChainSpec => []MetadataIsMintTime
<1>1. MintInv /\ [ChainNext]_storeVars => MintInv'
  <2>1. SUFFICES ASSUME MintInv, [ChainNext]_storeVars
                 PROVE  MintInv'
    OBVIOUS
  <2>2. CASE ChainNext
    BY <2>1, <2>2, ChainNextIsStep, MintStep
  <2>3. CASE UNCHANGED storeVars
    BY <2>1, <2>3 DEF MintInv, ChainTypeOK, Held, storeVars, chainVars
  <2>4. QED  BY <2>1, <2>2, <2>3
<1>2. MintInv => MetadataIsMintTime
  BY DEF MintInv, SameSize, MetadataIsMintTime
<1>3. QED  BY <1>1, <1>2, MintInit, PTL DEF ChainSpec
=============================================================================
