--------------------------- MODULE WalkChainProofs ---------------------------
(***************************************************************************)
(* Theorems about what the answers of the getters have to do with the      *)
(* chain.  With reorgs: a settled tip is final.  Without: confirmations    *)
(* are never overstated, and stale answers are never wrong.  They hold of  *)
(* any stores, roots and cap, and of every fault of the source but, for    *)
(* the last one, made-up spends.                                           *)
(***************************************************************************)
EXTENDS LineageWalkProofs

\* Sequence p is the beginning of g.
Begins(p, g) == Len(p) <= Len(g) /\ \A i \in 1 .. Len(p) : p[i] = g[i]

\* The height at which a coin of the chain was confirmed.
HeightOf(coin) == born[coin.store][Len(coin.path)]

\* Steps of the chain and the builders other than a reorg.
Forward == Build \/ Grow

-----------------------------------------------------------------------------
(* Beginnings of sequences.                                                *)

LEMMA BeginsIsPrefix ==
  ASSUME NEW S, NEW p \in Seq(S), NEW g \in Seq(S)
  PROVE  Begins(p, g) <=> Len(p) <= Len(g) /\ p = SubSeq(g, 1, Len(p))
<1>1. Len(p) \in Nat /\ Len(g) \in Nat
  OBVIOUS
<1>2. ASSUME Len(p) <= Len(g)
      PROVE  p = SubSeq(g, 1, Len(p)) <=> \A i \in 1 .. Len(p) : p[i] = g[i]
  <2>1. /\ SubSeq(g, 1, Len(p)) \in Seq(S)
        /\ Len(SubSeq(g, 1, Len(p))) = Len(p)
        /\ \A i \in 1 .. Len(p) : SubSeq(g, 1, Len(p))[i] = g[i]
    BY <1>1, <1>2, PrefixType
  <2>2. QED  BY <2>1, SeqEqual
<1>3. QED  BY <1>2 DEF Begins

LEMMA BeginsTransitive ==
  ASSUME NEW S, NEW p \in Seq(S), NEW g \in Seq(S), NEW h \in Seq(S),
         Begins(p, g), Begins(g, h)
  PROVE  Begins(p, h)
  BY DEF Begins

LEMMA BeginsAppend ==
  ASSUME NEW S, NEW g \in Seq(S), NEW m \in S
  PROVE  Begins(g, g) /\ Begins(g, Append(g, m))
  BY DEF Begins

\* A beginning as long as the whole is the whole.
LEMMA BeginsSame ==
  ASSUME NEW S, NEW p \in Seq(S), NEW g \in Seq(S), Begins(p, g), Len(p) = Len(g)
  PROVE  p = g
<1>1. \A i \in 1 .. Len(p) : p[i] = g[i]
  BY DEF Begins
<1>2. QED  BY <1>1, SeqEqual

LEMMA CreatedBegins ==
  ASSUME ChainTypeOK, NEW coin \in Coin
  PROVE  Created(coin) <=> Begins(coin.path, gens[coin.store])
  BY CoinPathLen, BeginsIsPrefix DEF Created, ChainTypeOK

\* The launcher of a store is always there.
LEMMA LauncherCreated ==
  ASSUME ChainTypeOK, NEW coin \in Coin, IsLauncher(coin)
  PROVE  Created(coin)
<1>1. gens[coin.store] \in Seq(Metadata) /\ Len(coin.path) = 0
  BY CoinPathLen DEF ChainTypeOK, IsLauncher
<1>2. Begins(coin.path, gens[coin.store])
  BY <1>1 DEF Begins
<1>3. QED  BY <1>2, CreatedBegins

\* What was created is on chain.
LEMMA CreatedOnChain ==
  ASSUME ChainTypeOK, NEW coin \in Coin, Created(coin)
  PROVE  coin \in OnChain
<1> DEFINE n == Len(coin.path)
<1>1. coin.store \in Stores /\ n \in Nat /\ Len(gens[coin.store]) \in Nat
  BY CoinPathLen DEF ChainTypeOK
<1>2. n \in 0 .. Len(gens[coin.store])
  BY <1>1 DEF Created
<1>3. coin = [store |-> coin.store, path |-> coin.path]
  BY DEF Coin
<1>4. coin = [store |-> coin.store, path |-> SubSeq(gens[coin.store], 1, n)]
  BY <1>3 DEF Created
<1>5. QED  BY <1>1, <1>2, <1>4 DEF OnChain

-----------------------------------------------------------------------------
(* Steps of the chain.                                                     *)

LEMMA ForwardType ==
  ASSUME ChainTypeOK, Forward
  PROVE  ChainTypeOK'
<1>1. ChainStep
  BY DEF Forward, Build, Grow, ChainStep
<1>2. QED  BY <1>1, ChainTypeStep

\* A builder leaves the chain alone.
LEMMA BuildEffect == Build => UNCHANGED chainVars
  BY DEF Build, CreateStore, ModifyStore, MeltStore, Return

\* A block adds at most one generation to a store, or melts it.
LEMMA ForwardEffect ==
  ASSUME ChainTypeOK, Forward
  PROVE  \/ UNCHANGED <<gens, born, meltedAt>> /\ peak' \in {peak, peak + 1}
         \/ \E s \in Stores :
              /\ ~Melted(s) /\ peak' = peak + 1
              /\ \/ /\ meltedAt' = [meltedAt EXCEPT ![s] = Some(peak + 1)]
                    /\ UNCHANGED <<gens, born>>
                    /\ \E b \in built : MissingLineage(b) /\ b.coin.path = gens[s]
                 \/ \E m \in Metadata :
                      /\ gens' = [gens EXCEPT ![s] = Append(gens[s], m)]
                      /\ born' = [born EXCEPT ![s] = Append(born[s], peak + 1)]
                      /\ UNCHANGED meltedAt
<1>1. CASE Build
  BY <1>1, BuildEffect DEF chainVars
<1>2. CASE EmptyBlock
  BY <1>2 DEF EmptyBlock
<1>3. ASSUME NEW b \in built, Confirm(b)
      PROVE  \E s \in Stores :
              /\ ~Melted(s) /\ peak' = peak + 1
              /\ \/ /\ meltedAt' = [meltedAt EXCEPT ![s] = Some(peak + 1)]
                    /\ UNCHANGED <<gens, born>>
                    /\ \E c \in built : MissingLineage(c) /\ c.coin.path = gens[s]
                 \/ \E m \in Metadata :
                      /\ gens' = [gens EXCEPT ![s] = Append(gens[s], m)]
                      /\ born' = [born EXCEPT ![s] = Append(born[s], peak + 1)]
                      /\ UNCHANGED meltedAt
  <2>1. b \in Spend /\ b.coin.store \in Stores
    BY DEF ChainTypeOK, Spend, Coin
  <2>2. ~Melted(b.coin.store) /\ peak' = peak + 1 /\ b.coin.path = gens[b.coin.store]
    BY <1>3 DEF Confirm, LatestCoin
  <2>3. CASE MissingLineage(b)
    <3>1. /\ meltedAt' = [meltedAt EXCEPT ![b.coin.store] = Some(peak + 1)]
          /\ UNCHANGED <<gens, born>>
      BY <1>3, <2>3 DEF Confirm
    <3>2. QED  BY <2>1, <2>2, <2>3, <3>1
  <2>4. CASE ~MissingLineage(b)
    <3>1. b.child[1] \in Metadata
      BY <2>1, <2>4, HydrateType
    <3>2. /\ gens' = [gens EXCEPT ![b.coin.store] = Append(gens[b.coin.store], b.child[1])]
          /\ born' = [born EXCEPT ![b.coin.store] = Append(born[b.coin.store], peak + 1)]
          /\ UNCHANGED meltedAt
      BY <1>3, <2>4 DEF Confirm
    <3>3. QED  BY <2>1, <2>2, <3>1, <3>2
  <2>5. QED  BY <2>3, <2>4
<1>4. QED  BY <1>1, <1>2, <1>3 DEF Forward, Grow

\* So lineages and heights only grow, and a melted store stays as it is.
LEMMA ForwardGrows ==
  ASSUME ChainTypeOK, Forward, NEW s \in Stores
  PROVE  /\ Begins(gens[s], gens'[s]) /\ Begins(born[s], born'[s])
         /\ Melted(s) => Melted(s)' /\ gens'[s] = gens[s]
<1>1. /\ gens \in [Stores -> Seq(Metadata)] /\ born \in [Stores -> Seq(Nat)]
      /\ meltedAt \in [Stores -> Option(Nat)] /\ peak + 1 \in Nat
  BY DEF ChainTypeOK
<1>2. Begins(gens[s], gens[s]) /\ Begins(born[s], born[s])
  BY <1>1 DEF Begins
<1>3. CASE UNCHANGED <<gens, born, meltedAt>>
  BY <1>2, <1>3 DEF Melted
<1>4. ASSUME NEW t \in Stores, ~Melted(t),
             meltedAt' = [meltedAt EXCEPT ![t] = Some(peak + 1)], UNCHANGED <<gens, born>>
      PROVE  /\ Begins(gens[s], gens'[s]) /\ Begins(born[s], born'[s])
             /\ Melted(s) => Melted(s)' /\ gens'[s] = gens[s]
  <2>1. Melted(s) => meltedAt'[s] = meltedAt[s]
    BY <1>1, <1>4 DEF Melted
  <2>2. QED  BY <1>2, <1>4, <2>1 DEF Melted
<1>5. ASSUME NEW t \in Stores, ~Melted(t), NEW m \in Metadata,
             gens' = [gens EXCEPT ![t] = Append(gens[t], m)],
             born' = [born EXCEPT ![t] = Append(born[t], peak + 1)],
             UNCHANGED meltedAt
      PROVE  /\ Begins(gens[s], gens'[s]) /\ Begins(born[s], born'[s])
             /\ Melted(s) => Melted(s)' /\ gens'[s] = gens[s]
  <2>1. CASE s = t
    <3>1. gens'[s] = Append(gens[s], m) /\ born'[s] = Append(born[s], peak + 1)
      BY <1>1, <1>5, <2>1
    <3>2. QED  BY <1>1, <1>5, <2>1, <3>1, BeginsAppend
  <2>2. CASE s # t
    <3>1. gens'[s] = gens[s] /\ born'[s] = born[s]
      BY <1>1, <1>5, <2>2
    <3>2. QED  BY <1>2, <1>5, <3>1 DEF Melted
  <2>3. QED  BY <2>1, <2>2
<1>6. QED  BY <1>3, <1>4, <1>5, ForwardEffect

\* What was created stays, at its height.
LEMMA ForwardKeepsCoin ==
  ASSUME ChainTypeOK, Forward, NEW coin \in Coin, Created(coin)
  PROVE  /\ Created(coin)'
         /\ coin.path # << >> => HeightOf(coin)' = HeightOf(coin)
<1> DEFINE s == coin.store
<1>1. /\ ChainTypeOK' /\ s \in Stores /\ coin.path \in Seq(Metadata)
      /\ gens[s] \in Seq(Metadata) /\ gens'[s] \in Seq(Metadata)
      /\ Len(born[s]) = Len(gens[s]) /\ Len(gens[s]) \in Nat
  BY ForwardType, CoinPathLen DEF ChainTypeOK
<1>2. Begins(gens[s], gens'[s]) /\ Begins(born[s], born'[s])
  BY <1>1, ForwardGrows
<1>3. Begins(coin.path, gens[s])
  BY CreatedBegins
<1>4. Begins(coin.path, gens'[s])
  BY <1>1, <1>2, <1>3, BeginsTransitive
<1>5. Created(coin)'
  BY <1>1, <1>4, BeginsIsPrefix DEF Created
<1>6. ASSUME coin.path # << >>
      PROVE  HeightOf(coin)' = HeightOf(coin)
  <2>1. Len(coin.path) \in 1 .. Len(born[s])
    BY <1>1, <1>3, <1>6, CoinPathLen DEF Begins
  <2>2. QED  BY <1>2, <2>1 DEF HeightOf, Begins
<1>7. QED  BY <1>5, <1>6

-----------------------------------------------------------------------------
(* Heights.                                                                *)

\* Later generations are confirmed no lower, and none above the peak.
HeightsOrdered ==
  \A s \in Stores : \A i \in 1 .. Len(born[s]) :
    /\ born[s][i] <= peak
    /\ \A j \in i .. Len(born[s]) : born[s][i] <= born[s][j]

\* What the height of a coin is.
LEMMA HeightType ==
  ASSUME ChainTypeOK, HeightsOrdered, NEW coin \in Coin, Created(coin), coin.path # << >>
  PROVE  /\ coin.store \in Stores /\ Len(coin.path) \in 1 .. Len(born[coin.store])
         /\ HeightOf(coin) \in Nat /\ HeightOf(coin) <= peak
<1>1. /\ coin.store \in Stores /\ born[coin.store] \in Seq(Nat)
      /\ Len(born[coin.store]) = Len(gens[coin.store])
  BY CoinPathLen DEF ChainTypeOK
<1>2. Len(coin.path) \in 1 .. Len(born[coin.store])
  BY <1>1, CoinPathLen, CreatedBegins DEF Begins
<1>3. QED  BY <1>1, <1>2 DEF HeightsOrdered, HeightOf

LEMMA HeightsForward ==
  ASSUME ChainTypeOK, HeightsOrdered, Forward
  PROVE  HeightsOrdered'
<1>1. /\ born \in [Stores -> Seq(Nat)] /\ peak \in Nat
      /\ peak' \in {peak, peak + 1}
  BY ForwardEffect DEF ChainTypeOK
<1>2. CASE UNCHANGED born
  BY <1>1, <1>2 DEF HeightsOrdered
<1>3. ASSUME NEW t \in Stores, born' = [born EXCEPT ![t] = Append(born[t], peak + 1)],
             peak' = peak + 1
      PROVE  HeightsOrdered'
  <2> SUFFICES ASSUME NEW s \in Stores, NEW i \in 1 .. Len(born'[s])
               PROVE  /\ born'[s][i] <= peak'
                      /\ \A j \in i .. Len(born'[s]) : born'[s][i] <= born'[s][j]
    BY DEF HeightsOrdered
  <2>1. CASE s # t
    <3>1. born'[s] = born[s]
      BY <1>1, <1>3, <2>1
    <3>2. QED  BY <1>1, <1>3, <3>1 DEF HeightsOrdered
  <2>2. CASE s = t
    <3>1. /\ born'[s] = Append(born[s], peak + 1) /\ born[s] \in Seq(Nat)
          /\ Len(born'[s]) = Len(born[s]) + 1 /\ Len(born[s]) \in Nat
          /\ \A k \in 1 .. Len(born[s]) : born'[s][k] = born[s][k] /\ born[s][k] \in Nat
          /\ born'[s][Len(born[s]) + 1] = peak + 1
      BY <1>1, <1>3, <2>2
    <3>2. \A k \in 1 .. Len(born[s]) :
            /\ born[s][k] <= peak
            /\ \A j \in k .. Len(born[s]) : born[s][k] <= born[s][j]
      BY DEF HeightsOrdered
    <3>3. CASE i = Len(born[s]) + 1
      BY <1>1, <1>3, <3>1, <3>3
    <3>4. CASE i \in 1 .. Len(born[s])
      <4>1. ASSUME NEW j \in i .. Len(born'[s])
            PROVE  born'[s][i] <= born'[s][j]
        <5>1. CASE j = Len(born[s]) + 1
          BY <1>1, <3>1, <3>2, <3>4, <5>1
        <5>2. CASE j \in i .. Len(born[s])
          BY <3>1, <3>2, <3>4, <5>2
        <5>3. QED  BY <3>1, <5>1, <5>2
      <4>2. QED  BY <1>1, <1>3, <3>1, <3>2, <3>4, <4>1
    <3>5. QED  BY <3>1, <3>3, <3>4
  <2>3. QED  BY <2>1, <2>2
<1>4. QED  BY <1>2, <1>3, ForwardEffect

\* A reorg to height f keeps every generation confirmed there or below.
LEMMA KeptAtLeast ==
  ASSUME ChainTypeOK, HeightsOrdered, NEW s \in Stores, NEW f \in Int,
         NEW i \in 1 .. Len(born[s]), born[s][i] <= f
  PROVE  i <= Kept(s, f)
<1> DEFINE D == {k \in DOMAIN born[s] : born[s][k] <= f}
<1>1. born[s] \in Seq(Nat) /\ DOMAIN born[s] = 1 .. Len(born[s]) /\ Len(born[s]) \in Nat
  BY DEF ChainTypeOK
<1>2. 1 .. i \subseteq D
  <2>1. ASSUME NEW k \in 1 .. i
        PROVE  k \in 1 .. Len(born[s]) /\ born[s][k] <= f
    <3>1. k \in 1 .. Len(born[s]) /\ i \in k .. Len(born[s])
      BY <1>1
    <3>2. born[s][k] <= born[s][i] /\ born[s][k] \in Nat /\ born[s][i] \in Nat
      BY <1>1, <3>1 DEF HeightsOrdered
    <3>3. QED  BY <3>1, <3>2
  <2>2. QED  BY <1>1, <2>1
<1>3. IsFiniteSet(D)
  <2>1. IsFiniteSet(1 .. Len(born[s]))
    BY <1>1, FS_Interval
  <2>2. D \in SUBSET (1 .. Len(born[s]))
    BY <1>1
  <2>3. QED  BY <2>1, <2>2, FS_Subset
<1>4. Cardinality(1 .. i) <= Cardinality(D)
  BY <1>2, <1>3, FS_Subset
<1>5. Cardinality(1 .. i) = i
  BY <1>1, FS_Interval
<1>6. QED  BY <1>4, <1>5 DEF Kept

LEMMA ReorgEffect ==
  ASSUME ChainTypeOK, NEW f \in Int, Reorg(f), NEW s \in Stores
  PROVE  /\ Kept(s, f) \in 0 .. Len(gens[s]) /\ Len(born[s]) = Len(gens[s])
         /\ Len(gens'[s]) = Kept(s, f) /\ Len(born'[s]) = Kept(s, f)
         /\ \A i \in 1 .. Kept(s, f) :
              gens'[s][i] = gens[s][i] /\ born'[s][i] = born[s][i]
<1>1. gens[s] \in Seq(Metadata) /\ born[s] \in Seq(Nat) /\ Len(born[s]) = Len(gens[s])
  BY DEF ChainTypeOK
<1>2. Kept(s, f) \in 0 .. Len(gens[s]) /\ Kept(s, f) \in 0 .. Len(born[s])
  BY <1>1, KeptType
<1>3. gens'[s] = SubSeq(gens[s], 1, Kept(s, f)) /\ born'[s] = SubSeq(born[s], 1, Kept(s, f))
  BY DEF Reorg
<1>4. QED  BY <1>1, <1>2, <1>3, PrefixType

LEMMA HeightsReorg ==
  ASSUME ChainTypeOK, HeightsOrdered, NEW f \in Int, Reorg(f)
  PROVE  HeightsOrdered'
<1> SUFFICES ASSUME NEW s \in Stores, NEW i \in 1 .. Len(born'[s])
             PROVE  /\ born'[s][i] <= peak'
                    /\ \A j \in i .. Len(born'[s]) : born'[s][i] <= born'[s][j]
  BY DEF HeightsOrdered
<1>1. /\ peak \in Nat /\ peak' = peak + 1
      /\ born[s] \in Seq(Nat) /\ Len(born[s]) \in Nat
  BY DEF ChainTypeOK, Reorg
<1>2. /\ Len(born'[s]) <= Len(born[s]) /\ Len(born'[s]) \in Nat
      /\ \A k \in 1 .. Len(born'[s]) : born'[s][k] = born[s][k]
  <2>1. Kept(s, f) \in 0 .. Len(born[s]) /\ Len(born'[s]) = Kept(s, f)
    BY ReorgEffect
  <2>2. \A k \in 1 .. Kept(s, f) : born'[s][k] = born[s][k]
    BY ReorgEffect
  <2>3. QED  BY <1>1, <2>1, <2>2
<1>3. \A k \in 1 .. Len(born[s]) : born[s][k] \in Nat
  BY <1>1
<1>4. \A k \in 1 .. Len(born[s]) :
        born[s][k] <= peak /\ \A j \in k .. Len(born[s]) : born[s][k] <= born[s][j]
  BY DEF HeightsOrdered
<1>5. i \in 1 .. Len(born[s]) /\ \A j \in i .. Len(born'[s]) : j \in i .. Len(born[s])
  BY <1>1, <1>2
<1>6. born'[s][i] = born[s][i] /\ \A j \in i .. Len(born'[s]) : born'[s][j] = born[s][j]
  BY <1>2
<1>7. born[s][i] <= peak + 1
  BY <1>1, <1>3, <1>4, <1>5
<1>8. QED  BY <1>1, <1>4, <1>5, <1>6, <1>7

\* A coin that is deep enough survives a reorg, at its height.
LEMMA ReorgKeepsCoin ==
  ASSUME ChainTypeOK, HeightsOrdered, NEW f \in Int, Reorg(f),
         NEW coin \in Coin, Created(coin), coin.path # << >>, HeightOf(coin) <= f
  PROVE  Created(coin)' /\ HeightOf(coin)' = HeightOf(coin)
<1> DEFINE s == coin.store
           n == Len(coin.path)
<1>1. s \in Stores /\ n \in 1 .. Len(born[s])
  BY HeightType
<1>2. n <= Kept(s, f)
  BY <1>1, KeptAtLeast DEF HeightOf
<1>3. /\ Kept(s, f) \in Nat /\ Len(gens'[s]) = Kept(s, f)
      /\ \A i \in 1 .. Kept(s, f) :
           gens'[s][i] = gens[s][i] /\ born'[s][i] = born[s][i]
  BY <1>1, ReorgEffect
<1>4. Begins(coin.path, gens[s])
  BY CreatedBegins
<1>5. Begins(coin.path, gens'[s])
  BY <1>1, <1>2, <1>3, <1>4 DEF Begins
<1>6. ChainTypeOK'
  BY ReorgType
<1>7. Created(coin)'
  <2>1. coin.path \in Seq(Metadata) /\ gens'[s] \in Seq(Metadata)
    BY <1>1, <1>6, CoinPathLen DEF ChainTypeOK
  <2>2. QED  BY <1>5, <2>1, BeginsIsPrefix DEF Created
<1>8. QED  BY <1>1, <1>2, <1>3, <1>7 DEF HeightOf

-----------------------------------------------------------------------------
(* Confirmations.                                                          *)

\* Until a reorg comes, the record tells the height of the tip.
RecordInv ==
  pc = "peak" /\ record # None /\ ~reorged =>
    /\ Created(cur)
    /\ record[1].height # None => record[1].height[1] = HeightOf(cur)

\* A tip reported at least as deep as reorgs can go is in the chain, at
\* least that deep.
DepthInv ==
  pc = "done" /\ reply.have # None /\ ~reorged /\ reply.have[1] >= MaxReorgDepth =>
    /\ Created(cur) /\ cur.path # << >>
    /\ reply.have[1] <= peak - HeightOf(cur)

HeightInv == HeightsOrdered /\ RecordInv /\ DepthInv

LEMMA HeightInit == WalkInit => HeightInv
<1> SUFFICES ASSUME WalkInit PROVE HeightInv
  OBVIOUS
<1>1. \A s \in Stores : born[s] = << >> /\ Len(born[s]) = 0
  BY EmptySeq DEF WalkInit, ChainInit
<1>2. HeightsOrdered
  <2>1. ASSUME NEW s \in Stores, NEW i \in 1 .. Len(born[s])
        PROVE  FALSE
    <3>1. Len(born[s]) = 0
      BY <1>1
    <3>2. QED  BY <3>1
  <2>2. QED  BY <2>1 DEF HeightsOrdered
<1>3. QED  BY <1>2 DEF WalkInit, HeightInv, RecordInv, DepthInv

\* What the heights in a reply are.
LEMMA HaveType ==
  ASSUME WalkTypeOK, reply.have # None
  PROVE  reply.have[1] \in Nat
<1>1. reply.have \in Option(Nat)
  BY DEF WalkTypeOK, Reply
<1>2. QED  BY <1>1, OptionCases

LEMMA HeightChainStep ==
  ASSUME WalkInv, HeightInv, ChainMoves
  PROVE  HeightInv'
<1>1. /\ ChainTypeOK /\ cur \in Coin /\ peak \in Nat /\ HeightsOrdered
      /\ MaxReorgDepth \in Nat
  BY BoundsAssumption DEF WalkInv, WalkTypeOK, ChainTypeOK, HeightInv
<1>2. UNCHANGED <<pc, op, id, cur, roots, record, reply>>
  BY DEF ChainMoves, callVars
<1>3. CASE Forward /\ UNCHANGED reorged
  <2>1. peak' \in {peak, peak + 1}
    BY <1>1, <1>3, ForwardEffect
  <2>2. ASSUME Created(cur)
        PROVE  /\ Created(cur)'
               /\ cur.path # << >> => HeightOf(cur)' = HeightOf(cur) /\ HeightOf(cur) \in Nat
    <3>1. Created(cur)' /\ (cur.path # << >> => HeightOf(cur)' = HeightOf(cur))
      <4>1. PICK c \in Coin : c = cur
        BY <1>1
      <4>2. Created(c)' /\ (c.path # << >> => HeightOf(c)' = HeightOf(c))
        BY <1>1, <1>3, <2>2, <4>1, ForwardKeepsCoin
      <4>3. QED  BY <1>2, <4>1, <4>2 DEF Created, HeightOf
    <3>2. QED  BY <1>1, <2>2, <3>1, HeightType
  <2>3. RecordInv'
    <3>1. pc = "peak" => cur.path # << >>
      BY DEF WalkInv
    <3>2. QED  BY <1>2, <1>3, <2>2, <3>1 DEF HeightInv, RecordInv
  <2>4. DepthInv'
    BY <1>1, <1>2, <1>3, <2>1, <2>2, HaveType DEF HeightInv, DepthInv, WalkInv
  <2>5. QED  BY <1>1, <1>3, <2>3, <2>4, HeightsForward DEF HeightInv
<1>4. ASSUME NEW f \in 0 .. peak - 1, Reorg(f), reorged' = (reorged \/ pc = "peak")
      PROVE  HeightInv'
  <2>1. /\ f \in Int /\ peak' = peak + 1 /\ peak - f <= MaxReorgDepth
    BY <1>1, <1>4 DEF Reorg
  <2>2. RecordInv'
    BY <1>2, <1>4 DEF RecordInv
  <2>3. DepthInv'
    <3> SUFFICES ASSUME pc = "done", reply.have # None, ~reorged,
                        reply.have[1] >= MaxReorgDepth
                 PROVE  /\ Created(cur)' /\ cur'.path # << >>
                        /\ reply.have[1] <= peak' - HeightOf(cur)'
      BY <1>2, <1>4 DEF DepthInv
    <3>1. /\ Created(cur) /\ cur.path # << >>
          /\ reply.have[1] <= peak - HeightOf(cur) /\ reply.have[1] \in Nat
      BY HaveType DEF HeightInv, DepthInv, WalkInv
    <3>2. HeightOf(cur) \in Nat
      BY <1>1, <3>1, HeightType
    <3>3. HeightOf(cur) <= f
      BY <1>1, <2>1, <3>1, <3>2
    <3>4. Created(cur)' /\ HeightOf(cur)' = HeightOf(cur)
      <4>1. PICK c \in Coin : c = cur
        BY <1>1
      <4>2. Created(c)' /\ HeightOf(c)' = HeightOf(c)
        BY <1>1, <1>4, <2>1, <3>1, <3>3, <4>1, ReorgKeepsCoin
      <4>3. QED  BY <1>2, <4>1, <4>2 DEF Created, HeightOf
    <3>5. QED  BY <1>1, <1>2, <2>1, <3>1, <3>2, <3>4
  <2>4. QED  BY <1>1, <1>4, <2>1, <2>2, <2>3, HeightsReorg DEF HeightInv
<1>5. QED  BY <1>3, <1>4 DEF ChainMoves, AnyReorg, Forward

\* A step of a call that ends without a record of the tip claims no
\* confirmations, and one that does not end claims nothing yet.
LEMMA ReadOutcome ==
  ASSUME Read, ~ReadRecord, ~ReadPeak
  PROVE  pc' \in {"hop", "record"} \/ (pc' = "done" /\ reply'.have = None)
<1>1. \A kind : Answer(kind) => pc' = "done" /\ reply'.have = None
  BY DEF Answer
<1>2. CASE ReadFails
  BY <1>1, <1>2 DEF ReadFails, ProofError
<1>3. CASE ReadLauncher
  BY <1>1, <1>3 DEF ReadLauncher, ProofError, NotFound
<1>4. CASE Hop
  BY <1>1, <1>4
     DEF Hop, OverCap, ReachTip, RejectHop, ReachMelt, Advance, Push, ProofError, LiveTip
<1>5. QED  BY <1>2, <1>3, <1>4 DEF Read

LEMMA HeightCallStep ==
  ASSUME WalkInv, HeightInv, Read, UNCHANGED <<storeVars, seen, reorged>>
  PROVE  HeightInv'
<1>1. /\ ChainTypeOK /\ cur \in Coin /\ peak \in Nat /\ HeightsOrdered
  BY DEF WalkInv, WalkTypeOK, ChainTypeOK, HeightInv
<1>2. UNCHANGED <<gens, born, meltedAt, peak, reorged>>
  BY DEF storeVars, chainVars
<1>3. HeightsOrdered'
  BY <1>1, <1>2 DEF HeightsOrdered
<1>4. cur' = cur => (Created(cur)' <=> Created(cur)) /\ HeightOf(cur)' = HeightOf(cur)
  BY <1>2 DEF Created, HeightOf
<1>5. CASE ~ReadRecord /\ ~ReadPeak
  BY <1>3, <1>5, ReadOutcome DEF HeightInv, RecordInv, DepthInv
<1>6. CASE ReadRecord
  <2>1. CASE ProofError
    BY <1>3, <2>1 DEF HeightInv, RecordInv, DepthInv, ProofError, Answer
  <2>2. ASSUME NEW rec \in CoinRecordOf(cur), record' = rec, pc' = "peak", cur' = cur
        PROVE  HeightInv'
    <3>1. rec # None => /\ Created(cur)
                        /\ rec[1].height # None => rec[1].height[1] = HeightOf(cur)
      BY DEF CoinRecordOf, HeightOf, If, Some, None
    <3>2. QED  BY <1>3, <1>4, <2>2, <3>1 DEF HeightInv, RecordInv, DepthInv
  <2>3. QED  BY <1>6, <2>1, <2>2 DEF ReadRecord
<1>7. CASE ReadPeak
  <2>1. PICK p \in PeakHeight :
          reply'.have = IF p # None /\ record # None /\ record[1].height # None
                        THEN Some(SaturatingSub(p[1], record[1].height[1]))
                        ELSE None
    BY <1>7 DEF ReadPeak
  <2>2. pc = "peak" /\ pc' = "done" /\ UNCHANGED <<cur, record>> /\ cur.path # << >>
    BY <1>7 DEF ReadPeak, WalkInv
  <2>3. DepthInv'
    <3> SUFFICES ASSUME reply'.have # None, ~reorged
                 PROVE  Created(cur) /\ reply'.have[1] <= peak - HeightOf(cur)
      BY <1>2, <1>4, <2>2 DEF DepthInv
    <3> DEFINE h == record[1].height[1]
    <3>1. /\ p # None /\ record # None /\ record[1].height # None
          /\ reply'.have = Some(SaturatingSub(p[1], h))
      BY <2>1
    <3>2. Created(cur) /\ h = HeightOf(cur)
      BY <2>2, <3>1 DEF HeightInv, RecordInv
    <3>3. h \in Nat /\ h <= peak
      BY <1>1, <2>2, <3>2, HeightType
    <3>4. p[1] \in Nat /\ p[1] <= peak
      <4>1. CASE p = Some(peak)
        BY <1>1, <4>1 DEF Some
      <4>2. CASE p \in {Some(k) : k \in 0 .. peak}
        BY <1>1, <4>2 DEF Some
      <4>3. QED  BY <3>1, <4>1, <4>2 DEF PeakHeight, If
    <3>5. SaturatingSub(p[1], h) <= peak - h
      BY <1>1, <3>3, <3>4 DEF SaturatingSub
    <3>6. QED  BY <3>1, <3>2, <3>5 DEF Some
  <2>4. QED  BY <1>3, <2>2, <2>3 DEF HeightInv, RecordInv
<1>8. QED  BY <1>5, <1>6, <1>7

LEMMA HeightInvariant == WalkSpec => [](WalkInv /\ HeightInv)
<1>1. WalkInv /\ HeightInv /\ [WalkNext]_walkVars => HeightInv'
  <2> SUFFICES ASSUME WalkInv, HeightInv, [WalkNext]_walkVars
               PROVE  HeightInv'
    OBVIOUS
  <2>1. CASE ChainMoves
    BY <2>1, HeightChainStep
  <2>2. ASSUME NEW o, NEW coin, StartCall(o, coin), UNCHANGED storeVars
        PROVE  HeightInv'
    BY <2>2 DEF StartCall, HeightInv, HeightsOrdered, RecordInv, DepthInv,
                storeVars, chainVars
  <2>3. CASE Read /\ UNCHANGED <<storeVars, seen, reorged>>
    BY <2>3, HeightCallStep
  <2>4. CASE UNCHANGED walkVars
    BY <2>4 DEF HeightInv, HeightsOrdered, RecordInv, DepthInv, HeightOf, Created,
                walkVars, callVars, storeVars, chainVars
  <2>5. QED  BY <2>1, <2>2, <2>3, <2>4 DEF WalkNext, CallSteps
<1>2. QED  BY <1>1, HeightInit, WalkInvariant, PTL DEF WalkSpec

\* Whatever the source withholds, swaps or makes up: a tip that a status
\* reported verified, with as many confirmations as the target, and a
\* target no smaller than the depth of any reorg, never leaves the chain
\* (store.rs:278-290).
THEOREM SettledCorrect == WalkSpec => []SettledIsFinal
<1>1. WalkInv /\ HeightInv => SettledIsFinal
  <2> SUFFICES ASSUME WalkInv, HeightInv, pc = "done", reply.have # None, ~reorged,
                      reply.have[1] >= ConfirmationTarget,
                      ConfirmationTarget >= MaxReorgDepth
               PROVE  cur \in OnChain
    BY DEF SettledIsFinal
  <2>1. reply.have[1] \in Nat
    BY HaveType DEF WalkInv
  <2>2. reply.have[1] >= MaxReorgDepth
    BY <2>1, BoundsAssumption, WalkAssumption
  <2>3. QED
    BY <2>2, CreatedOnChain DEF HeightInv, DepthInv, WalkInv, WalkTypeOK
<1>2. QED  BY <1>1, HeightInvariant, PTL

-----------------------------------------------------------------------------
(* A chain that does not reorg.                                            *)

LEMMA NoReorg ==
  ASSUME MaxReorgDepth = 0, ChainTypeOK
  PROVE  ~AnyReorg
  BY DEF AnyReorg, Reorg, ChainTypeOK

LEMMA NeverReorged ==
  ASSUME MaxReorgDepth = 0
  PROVE  WalkSpec => []~reorged
<1>1. WalkInit => ~reorged
  BY DEF WalkInit
<1>2. WalkInv /\ ~reorged /\ [WalkNext]_walkVars => ~reorged'
  <2> SUFFICES ASSUME WalkInv, ~reorged, [WalkNext]_walkVars
               PROVE  ~reorged'
    OBVIOUS
  <2>1. ~AnyReorg
    BY NoReorg DEF WalkInv, WalkTypeOK
  <2>2. QED  BY <2>1 DEF WalkNext, ChainMoves, CallSteps, walkVars
<1>3. QED  BY <1>1, <1>2, WalkInvariant, PTL DEF WalkSpec

\* However the peak lags, whatever the records lack and whenever blocks
\* land: the confirmations of a reply are at most those the tip has, if the
\* chain does not reorg (store.rs:282-285).
THEOREM OverstatedCorrect ==
  ASSUME MaxReorgDepth = 0
  PROVE  WalkSpec => []NeverOverstated
<1>1. WalkInv /\ HeightInv /\ ~reorged => NeverOverstated
  <2> SUFFICES ASSUME WalkInv, HeightInv, ~reorged,
                      pc = "done", reply.have # None
               PROVE  reply.have[1] <= peak - born[cur.store][Len(cur.path)]
    BY DEF NeverOverstated
  <2>1. reply.have[1] >= MaxReorgDepth
    BY HaveType DEF WalkInv
  <2>2. QED  BY <2>1 DEF HeightInv, DepthInv, HeightOf
<1>2. QED  BY <1>1, HeightInvariant, NeverReorged, PTL

-----------------------------------------------------------------------------
(* Stale answers, of a source that does not make up spends.                *)

\* A spend of the coin asked for is the one that spent it.
LEMMA SpendIsReal ==
  ASSUME "fabricated" \notin Faults, NEW coin, NEW spend \in CoinSpend(coin),
         spend # None, spend[1].coin = coin
  PROVE  Spent(coin) /\ spend[1] = SpendOf(coin)
<1>1. CASE spend = IF Spent(coin) THEN Some(SpendOf(coin)) ELSE None
  BY <1>1 DEF Some
<1>2. ASSUME NEW c \in {d \in OnChain : Spent(d)}, spend = Some(SpendOf(c))
      PROVE  Spent(coin) /\ spend[1] = SpendOf(coin)
  <2>1. spend[1] = SpendOf(c) /\ c = coin
    BY <1>2 DEF Some, SpendOf
  <2>2. QED  BY <2>1
<1>3. QED  BY <1>1, <1>2 DEF CoinSpend, If

\* It recreates the store as the next generation, or melted it.
LEMMA SpendExtends ==
  ASSUME ChainTypeOK, NEW coin \in Coin, Spent(coin)
  PROVE  /\ MissingLineage(SpendOf(coin)) =>
              coin.path = gens[coin.store] /\ Melted(coin.store)
         /\ ~MissingLineage(SpendOf(coin)) =>
              /\ Hydrate(SpendOf(coin)) \in Coin
              /\ Hydrate(SpendOf(coin)).store = coin.store
              /\ Created(Hydrate(SpendOf(coin)))
<1> DEFINE g == gens[coin.store]
           n == Len(coin.path)
           child == Hydrate(SpendOf(coin))
<1>1. /\ g \in Seq(Metadata) /\ Len(g) \in Nat /\ n \in Nat
      /\ coin.path \in Seq(Metadata) /\ Begins(coin.path, g)
  BY CoinPathLen, CreatedBegins DEF ChainTypeOK, Spent
<1>2. CASE n < Len(g)
  <2>1. n + 1 \in 1 .. Len(g) /\ g[n + 1] \in Metadata
    BY <1>1, <1>2
  <2>2. SpendOf(coin) = [coin |-> coin, child |-> Some(g[n + 1])]
    BY <1>2 DEF SpendOf
  <2>3. ~MissingLineage(SpendOf(coin)) /\ child = Successor(coin, g[n + 1])
    BY <2>2 DEF MissingLineage, Hydrate, Some, None
  <2>4. /\ child \in Coin /\ child.store = coin.store
        /\ Len(child.path) = n + 1 /\ child.path = Append(coin.path, g[n + 1])
        /\ \A i \in 1 .. n : child.path[i] = coin.path[i]
    BY <2>1, <2>3, SuccessorType
  <2>5. child.path[n + 1] = g[n + 1]
    BY <1>1, <2>1, <2>4
  <2>6. \A i \in 1 .. n + 1 : child.path[i] = g[i]
    BY <1>1, <2>4, <2>5 DEF Begins
  <2>7. Begins(child.path, g)
    BY <1>1, <1>2, <2>4, <2>6 DEF Begins
  <2>8. Created(child)
    BY <2>4, <2>7, CreatedBegins
  <2>9. QED  BY <2>3, <2>4, <2>8
<1>3. CASE ~(n < Len(g))
  <2>1. SpendOf(coin).child = None /\ Melted(coin.store)
    BY <1>3 DEF SpendOf, Spent
  <2>2. n = Len(g)
    BY <1>1, <1>3 DEF Begins
  <2>3. QED  BY <1>1, <2>1, <2>2, BeginsSame DEF MissingLineage
<1>4. QED  BY <1>2, <1>3

\* The walk is on the chain all along, and stays there after it answered.
Answered == pc = "done" /\ reply.kind \in {"melted", "live", "tip", "history"}

StaleInv ==
  /\ pc \in {"hop", "record", "peak"} => Created(cur)
  /\ Answered =>
       /\ IsLauncher(id) /\ LauncherCoin(cur.store) = id
       /\ Created(cur) /\ Pushed(cur.path, Len(cur.path))
       /\ reply.kind = "melted" => Melted(cur.store) /\ cur.path = gens[cur.store]

LEMMA StaleChainStep ==
  ASSUME WalkInv, StaleInv, Forward, UNCHANGED callVars
  PROVE  StaleInv'
<1>1. ChainTypeOK /\ cur \in Coin
  BY DEF WalkInv, WalkTypeOK
<1>2. UNCHANGED <<pc, op, id, cur, roots, record, reply>>
  BY DEF callVars
<1>3. PICK c \in Coin : c = cur
  BY <1>1
<1>4. c.store \in Stores
  BY DEF Coin
<1>5. Created(cur) => Created(cur)'
  <2>1. Created(c) => Created(c)'
    BY <1>1, ForwardKeepsCoin
  <2>2. QED  BY <1>2, <1>3, <2>1 DEF Created
<1>6. Melted(cur.store) => Melted(cur.store)' /\ gens'[cur.store] = gens[cur.store]
  <2>1. Melted(c.store) => Melted(c.store)' /\ gens'[c.store] = gens[c.store]
    BY <1>1, <1>4, ForwardGrows
  <2>2. QED  BY <1>2, <1>3, <2>1 DEF Melted
<1>7. QED  BY <1>2, <1>5, <1>6 DEF StaleInv, Answered, Pushed

\* A call that fails or finds nothing has answered nothing.
LEMMA StaleRefused ==
  ASSUME NEW kind \in {"error", "not_found"}, Answer(kind)
  PROVE  StaleInv'
  BY DEF Answer, StaleInv, Answered

LEMMA StaleLauncherStep ==
  ASSUME "fabricated" \notin Faults, WalkInv, StaleInv, ReadLauncher,
         UNCHANGED <<storeVars, seen, reorged>>
  PROVE  StaleInv'
<1>1. ChainTypeOK /\ id \in Coin /\ gens' = gens
  BY DEF WalkInv, WalkTypeOK, storeVars, chainVars
<1>2. CASE NotFound \/ ProofError
  BY <1>2, StaleRefused DEF NotFound, ProofError
<1>3. ASSUME NEW spend \in CoinSpend(id), spend # None, spend[1].coin = id,
             ~MissingLineage(spend[1]), cur' = Hydrate(spend[1]), pc' = "hop"
      PROVE  StaleInv'
  <2>1. Spent(id) /\ spend[1] = SpendOf(id)
    BY <1>3, SpendIsReal
  <2>2. Created(Hydrate(SpendOf(id)))
    BY <1>1, <1>3, <2>1, SpendExtends
  <2>3. Created(cur)'
    BY <1>1, <1>3, <2>1, <2>2 DEF Created
  <2>4. QED  BY <1>3, <2>3 DEF StaleInv, Answered
<1>4. QED  BY <1>2, <1>3 DEF ReadLauncher

LEMMA StaleHopStep ==
  ASSUME "fabricated" \notin Faults, WalkInv, StaleInv, Hop,
         UNCHANGED <<storeVars, seen, reorged>>
  PROVE  StaleInv'
<1>1. /\ ChainTypeOK /\ cur \in Coin /\ op \in Ops
      /\ UNCHANGED <<gens, meltedAt>>
  BY DEF WalkInv, WalkTypeOK, storeVars, chainVars
<1>2. pc = "hop" /\ Created(cur) /\ IsLauncher(id) /\ LauncherCoin(cur.store) = id
  BY DEF Hop, OverCap, ReachTip, RejectHop, ReachMelt, Advance, Push, WalkInv, StaleInv
<1>3. CASE OverCap \/ RejectHop
  BY <1>3, StaleRefused DEF OverCap, RejectHop, ProofError
<1>4. ASSUME Push, cur' = cur
      PROVE  /\ Pushed(cur.path, Len(cur.path))' /\ Created(cur)'
             /\ LauncherCoin(cur.store)' = id
  BY <1>1, <1>2, <1>4, PushStep DEF Pushed, Created
<1>5. CASE ReachTip
  <2>1. Push /\ LiveTip /\ cur' = cur
    BY <1>5 DEF ReachTip
  <2>2. CASE op # "status" /\ Answer(op)
    BY <1>1, <1>2, <1>4, <2>1, <2>2 DEF Answer, Ops, StaleInv, Answered
  <2>3. CASE pc' = "record"
    BY <1>4, <2>1, <2>3 DEF StaleInv, Answered
  <2>4. QED  BY <2>1, <2>2, <2>3 DEF LiveTip
<1>6. ASSUME NEW spend \in CoinSpend(cur), spend # None, ~WrongSpend(spend)
      PROVE  Spent(cur) /\ spend[1] = SpendOf(cur)
  BY <1>6, SpendIsReal DEF WrongSpend
<1>7. CASE ReachMelt
  <2>1. Push /\ Answer(MeltedAs[op]) /\ cur' = cur
    BY <1>7 DEF ReachMelt
  <2>2. PICK spend \in CoinSpend(cur) :
          spend # None /\ ~WrongSpend(spend) /\ MissingLineage(spend[1])
    BY <1>7 DEF ReachMelt
  <2>3. cur.path = gens[cur.store] /\ Melted(cur.store)
    BY <1>1, <1>6, <2>2, SpendExtends
  <2>4. Melted(cur.store)' /\ cur'.path = gens'[cur'.store]
    BY <1>1, <2>1, <2>3 DEF Melted
  <2>5. QED  BY <1>2, <1>4, <2>1, <2>4 DEF Answer, StaleInv, Answered
<1>8. CASE Advance
  <2>1. PICK spend \in CoinSpend(cur) :
          /\ spend # None /\ ~WrongSpend(spend) /\ ~MissingLineage(spend[1])
          /\ cur' = Hydrate(spend[1])
    BY <1>8 DEF Advance
  <2>2. Created(Hydrate(SpendOf(cur))) /\ cur' = Hydrate(SpendOf(cur))
    BY <1>1, <1>6, <2>1, SpendExtends
  <2>3. Created(cur)' /\ pc' = "hop"
    BY <1>1, <1>2, <1>8, <2>2 DEF Created, Advance
  <2>4. QED  BY <2>3 DEF StaleInv, Answered
<1>9. QED  BY <1>3, <1>5, <1>7, <1>8 DEF Hop

LEMMA StaleTailStep ==
  ASSUME WalkInv, StaleInv, ReadRecord \/ ReadPeak, UNCHANGED <<storeVars, seen, reorged>>
  PROVE  StaleInv'
<1>1. UNCHANGED <<gens, meltedAt>> /\ Created(cur)
  BY DEF storeVars, chainVars, ReadRecord, ReadPeak, StaleInv
<1>2. CASE ReadRecord
  <2>1. CASE ProofError
    BY <2>1, StaleRefused DEF ProofError
  <2>2. CASE pc' = "peak" /\ cur' = cur
    BY <1>1, <2>2 DEF StaleInv, Answered, Created
  <2>3. QED  BY <1>2, <2>1, <2>2 DEF ReadRecord
<1>3. CASE ReadPeak
  <2>1. /\ pc = "peak" /\ pc' = "done" /\ reply'.kind = "live"
        /\ UNCHANGED <<id, cur, roots>>
    BY <1>3 DEF ReadPeak
  <2>2. IsLauncher(id) /\ LauncherCoin(cur.store) = id /\ Pushed(cur.path, Len(cur.path))
    BY <2>1 DEF WalkInv
  <2>3. QED  BY <1>1, <2>1, <2>2 DEF StaleInv, Answered, Created, Pushed
<1>4. QED  BY <1>2, <1>3

LEMMA StaleInvariant ==
  ASSUME MaxReorgDepth = 0, "fabricated" \notin Faults
  PROVE  WalkSpec => [](WalkInv /\ StaleInv)
<1>1. WalkInit => StaleInv
  BY DEF WalkInit, StaleInv, Answered
<1>2. WalkInv /\ StaleInv /\ [WalkNext]_walkVars => StaleInv'
  <2> SUFFICES ASSUME WalkInv, StaleInv, [WalkNext]_walkVars
               PROVE  StaleInv'
    OBVIOUS
  <2>1. CASE ChainMoves
    <3>1. ~AnyReorg
      BY NoReorg DEF WalkInv, WalkTypeOK
    <3>2. QED  BY <2>1, <3>1, StaleChainStep DEF ChainMoves, Forward
  <2>2. ASSUME NEW o, NEW coin, StartCall(o, coin)
        PROVE  StaleInv'
    BY <2>2 DEF StartCall, StaleInv, Answered
  <2>3. CASE Read /\ UNCHANGED <<storeVars, seen, reorged>>
    <3>1. CASE ReadFails
      BY <3>1, StaleRefused DEF ReadFails, ProofError
    <3>2. QED  BY <2>3, <3>1, StaleLauncherStep, StaleHopStep, StaleTailStep DEF Read
  <2>4. CASE UNCHANGED walkVars
    BY <2>4 DEF StaleInv, Answered, Created, Pushed, Melted,
                walkVars, callVars, storeVars, chainVars
  <2>5. QED  BY <2>1, <2>2, <2>3, <2>4 DEF WalkNext, CallSteps
<1>3. QED  BY <1>1, <1>2, WalkInvariant, PTL DEF WalkSpec

\* The roots of a beginning of a lineage begin the roots of the lineage.
LEMMA RootsBegin ==
  ASSUME NEW p \in Seq(Metadata), NEW g \in Seq(Metadata), Begins(p, g),
         NEW r \in Seq(Roots), Len(r) = Len(p),
         \A i \in 1 .. Len(p) : r[i] = p[i].root
  PROVE  Len(r) <= Len(g) /\ r = SubSeq(RootsOf(g), 1, Len(r))
<1>0. Len(g) \in Nat /\ \A i \in 1 .. Len(g) : g[i].root \in Roots
  <2>1. \A i \in 1 .. Len(g) : g[i] \in Metadata
    OBVIOUS
  <2>2. QED  BY <2>1 DEF Metadata
<1>1. /\ RootsOf(g) \in Seq(Roots) /\ Len(RootsOf(g)) = Len(g)
      /\ \A i \in 1 .. Len(g) : RootsOf(g)[i] = g[i].root
  <2>1. RootsOf(g) \in [1 .. Len(g) -> Roots]
    BY <1>0 DEF RootsOf
  <2>2. RootsOf(g) \in Seq(Roots)
    BY <1>0, <2>1, SeqDef
  <2>3. Len(RootsOf(g)) = Len(g)
    BY <1>0, <2>1, <2>2
  <2>4. QED  BY <2>2, <2>3 DEF RootsOf
<1>2. Begins(r, RootsOf(g))
  BY <1>1 DEF Begins
<1>3. QED  BY <1>1, <1>2, BeginsIsPrefix

\* A source that withholds spends, or hands out those of other coins, makes
\* an answer stale at worst: the roots are the oldest of the store asked
\* for, and all of them if it is said to be melted (store.rs:408-427).
THEOREM StaleCorrect ==
  ASSUME MaxReorgDepth = 0, "fabricated" \notin Faults
  PROVE  WalkSpec => []StaleNeverWrong
<1>1. WalkInv /\ StaleInv => StaleNeverWrong
  <2> SUFFICES ASSUME WalkInv, StaleInv, Answered
               PROVE  /\ IsLauncher(id)
                      /\ Len(roots) <= Len(gens[id.store])
                      /\ roots = SubSeq(RootsOf(gens[id.store]), 1, Len(roots))
                      /\ reply.kind = "melted" =>
                           Melted(id.store) /\ Len(roots) = Len(gens[id.store])
    BY DEF StaleNeverWrong, Answered
  <2>1. /\ IsLauncher(id) /\ id.store = cur.store
        /\ Created(cur) /\ Pushed(cur.path, Len(cur.path))
        /\ reply.kind = "melted" => Melted(cur.store) /\ cur.path = gens[cur.store]
    BY DEF StaleInv, LauncherCoin
  <2>2. /\ ChainTypeOK /\ cur \in Coin /\ roots \in Seq(Roots)
        /\ cur.path \in Seq(Metadata) /\ gens[cur.store] \in Seq(Metadata)
    BY CoinPathLen DEF WalkInv, WalkTypeOK, ChainTypeOK
  <2>3. Begins(cur.path, gens[cur.store])
    BY <2>1, <2>2, CreatedBegins
  <2>4. /\ Len(roots) = Len(cur.path)
        /\ \A i \in 1 .. Len(cur.path) : roots[i] = cur.path[i].root
    BY <2>1 DEF Pushed
  <2>5. /\ Len(roots) <= Len(gens[cur.store])
        /\ roots = SubSeq(RootsOf(gens[cur.store]), 1, Len(roots))
    BY <2>2, <2>3, <2>4, RootsBegin
  <2>6. QED  BY <2>1, <2>4, <2>5
<1>2. QED  BY <1>1, StaleInvariant, PTL
=============================================================================
