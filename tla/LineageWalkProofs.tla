------------------------- MODULE LineageWalkProofs -------------------------
(***************************************************************************)
(* Theorems about LineageWalk: its type invariant, that a verified status  *)
(* is real, and that a call runs out of reads.  They hold of any stores,   *)
(* roots, cap and target, of reorgs of any depth, and of a source with any *)
(* of the faults.                                                          *)
(***************************************************************************)
EXTENDS LineageWalk, StoreChainProofs

\* The roots pushed are those of the first n generations of a lineage.
Pushed(path, n) ==
  /\ Len(roots) = n
  /\ \A i \in 1 .. n : roots[i] = path[i].root

\* Between reads, the walk is at a generation of the store asked for, has
\* pushed the roots up to it, and the store's present state is on record in
\* `seen`; a record that says unspent pins the tip to one of those states.
WalkInv ==
  /\ WalkTypeOK
  /\ pc \in Reading => View(id) \in seen
  /\ pc \in {"hop", "record", "peak"} =>
       IsLauncher(id) /\ LauncherCoin(cur.store) = id /\ cur.path # << >>
  /\ pc = "launcher" => roots = << >>
  /\ pc = "hop" => Pushed(cur.path, Len(cur.path) - 1)
  /\ pc \in {"record", "peak"} =>
       Pushed(cur.path, Len(cur.path)) /\ Len(roots) <= MaxGenerations
  /\ pc = "peak" /\ record # None =>
       \E v \in seen : v.path = cur.path /\ ~v.melted
  /\ reply.verified => pc = "done" /\ reply.kind = "live"
  /\ VerifiedIsReal

-----------------------------------------------------------------------------
(* What the source can answer.                                             *)

LEMMA CoinPathLen ==
  ASSUME NEW coin \in Coin
  PROVE  /\ coin.store \in Stores /\ coin.path \in Seq(Metadata)
         /\ Len(coin.path) \in Nat
         /\ coin.path # << >> => /\ Len(coin.path) \in 1 .. Len(coin.path)
                                 /\ MetadataOf(coin) \in Metadata
<1>1. coin.store \in Stores /\ coin.path \in Seq(Metadata) /\ Len(coin.path) \in Nat
  BY DEF Coin
<1>2. coin.path # << >> => Len(coin.path) # 0
  BY <1>1, EmptySeq
<1>3. QED  BY <1>1, <1>2 DEF MetadataOf

LEMMA SpendOfType ==
  ASSUME ChainTypeOK, NEW coin \in Coin
  PROVE  SpendOf(coin) \in Spend
<1> DEFINE g == gens[coin.store]
<1>1. Len(coin.path) \in Nat /\ g \in Seq(Metadata) /\ Len(g) \in Nat
  BY CoinPathLen DEF ChainTypeOK
<1>2. CASE Len(coin.path) < Len(g)
  <2>1. Len(coin.path) + 1 \in 1 .. Len(g)
    BY <1>1, <1>2
  <2>2. g[Len(coin.path) + 1] \in Metadata
    BY <1>1, <2>1
  <2>3. SpendOf(coin) = [coin |-> coin, child |-> Some(g[Len(coin.path) + 1])]
    BY <1>2 DEF SpendOf
  <2>4. QED  BY <2>2, <2>3, SpendType
<1>3. CASE ~(Len(coin.path) < Len(g))
  <2>1. None \in Option(Metadata)
    BY EmptySeq DEF None, Option
  <2>2. QED  BY <1>3, <2>1 DEF SpendOf, Spend
<1>4. QED  BY <1>2, <1>3

LEMMA OnChainType ==
  ASSUME ChainTypeOK
  PROVE  OnChain \subseteq Coin
<1>1. ASSUME NEW s \in Stores, NEW i \in 0 .. Len(gens[s])
      PROVE  [store |-> s, path |-> SubSeq(gens[s], 1, i)] \in Coin
  BY PrefixType DEF ChainTypeOK, Coin
<1>2. QED  BY <1>1 DEF OnChain

LEMMA CoinSpendType ==
  ASSUME ChainTypeOK, NEW coin \in Coin, NEW spend \in CoinSpend(coin), spend # None
  PROVE  spend[1] \in Spend
<1>1. CASE spend = Some(SpendOf(coin))
  BY <1>1, SpendOfType DEF Some
<1>2. CASE spend \in {Some(SpendOf(c)) : c \in {d \in OnChain : Spent(d)}}
  BY <1>2, OnChainType, SpendOfType DEF Some
<1>3. ASSUME NEW m \in Metadata, spend = Some([coin |-> coin, child |-> Some(m)])
      PROVE  spend[1] \in Spend
  <2>1. spend[1] = [coin |-> coin, child |-> Some(m)]
    BY <1>3 DEF Some
  <2>2. QED  BY <2>1, SpendType
<1>4. CASE spend = Some([coin |-> coin, child |-> None])
  <2>1. spend[1] = [coin |-> coin, child |-> None]
    BY <1>4 DEF Some
  <2>2. None \in Option(Metadata)
    BY EmptySeq DEF None, Option
  <2>3. QED  BY <2>1, <2>2 DEF Spend
<1>5. QED  BY <1>1, <1>2, <1>3, <1>4 DEF CoinSpend, If

LEMMA CoinRecordType ==
  ASSUME ChainTypeOK, NEW coin \in Coin, coin.path # << >>,
         NEW rec \in CoinRecordOf(coin)
  PROVE  rec \in Option(CoinRecord)
<1> DEFINE s == coin.store
           h == born[s][Len(coin.path)]
<1>1. None \in Option(CoinRecord) /\ None \in Option(Nat)
  BY EmptySeq DEF None, Option
<1>2. CASE Created(coin)
  <2>1. Len(coin.path) \in 1 .. Len(coin.path) /\ s \in Stores
    BY CoinPathLen
  <2>2. born[s] \in Seq(Nat) /\ Len(born[s]) = Len(gens[s]) /\ Len(gens[s]) \in Nat
    BY <2>1 DEF ChainTypeOK
  <2>3. Len(coin.path) \in 1 .. Len(born[s])
    BY <1>2, <2>1, <2>2 DEF Created
  <2>4. h \in Nat
    BY <2>2, <2>3
  <2>5. Some(h) \in Option(Nat) /\ Spent(coin) \in BOOLEAN
    BY <2>4 DEF Some, Option, Spent
  <2>6. /\ [spent |-> Spent(coin), height |-> Some(h)] \in CoinRecord
        /\ [spent |-> Spent(coin), height |-> None] \in CoinRecord
    BY <1>1, <2>5 DEF CoinRecord
  <2>7. /\ Some([spent |-> Spent(coin), height |-> Some(h)]) \in Option(CoinRecord)
        /\ Some([spent |-> Spent(coin), height |-> None]) \in Option(CoinRecord)
    BY <2>6 DEF Some, Option
  <2>8. QED  BY <1>1, <1>2, <2>7 DEF CoinRecordOf, If
<1>3. CASE ~Created(coin)
  BY <1>1, <1>3 DEF CoinRecordOf
<1>4. QED  BY <1>2, <1>3

\* An unspent record is proof: its coin is the live tip of its store, with
\* the lineage that the coin's id commits to.
LEMMA UnspentRecordIsTip ==
  ASSUME ChainTypeOK, NEW coin \in Coin,
         NEW rec \in CoinRecordOf(coin), rec # None, ~rec[1].spent
  PROVE  gens[coin.store] = coin.path /\ ~Melted(coin.store)
<1> DEFINE g == gens[coin.store]
<1>1. Len(coin.path) \in Nat /\ g \in Seq(Metadata) /\ Len(g) \in Nat
  BY CoinPathLen DEF ChainTypeOK
<1>2. Created(coin)
  BY DEF CoinRecordOf
<1>3. rec[1].spent = Spent(coin)
  BY <1>2 DEF CoinRecordOf, If, Some
<1>4. ~Melted(coin.store) /\ Len(coin.path) = Len(g)
  BY <1>1, <1>2, <1>3 DEF Spent, Created
<1>5. coin.path = SubSeq(g, 1, Len(g))
  BY <1>2, <1>4 DEF Created
<1>6. QED  BY <1>1, <1>4, <1>5, SubSeqFull

LEMMA PeakType ==
  ASSUME ChainTypeOK, NEW p \in PeakHeight, p # None
  PROVE  p[1] \in Nat
<1>1. CASE p = Some(peak)
  BY <1>1 DEF Some, ChainTypeOK
<1>2. CASE p \in {Some(h) : h \in 0 .. peak}
  BY <1>2 DEF Some
<1>3. QED  BY <1>1, <1>2 DEF PeakHeight, If

LEMMA ViewType ==
  ASSUME ChainTypeOK, NEW coin \in Coin
  PROVE  View(coin) \in [path : Seq(Metadata), melted : BOOLEAN]
  BY EmptySeq, CoinPathLen DEF View, ChainTypeOK, Melted

-----------------------------------------------------------------------------
(* Steps of the chain.                                                     *)

LEMMA ChainMovesStep ==
  ASSUME WalkInv, ChainMoves
  PROVE  WalkInv'
<1>1. ChainTypeOK' /\ UNCHANGED callVars
  <2>1. ChainStep
    BY DEF ChainMoves, Build, Grow, AnyReorg, ChainStep
  <2>2. QED  BY <2>1, ChainTypeStep DEF WalkInv, WalkTypeOK, ChainMoves
<1>2. UNCHANGED <<pc, op, id, cur, roots, record, reply>>
  BY <1>1 DEF callVars
<1>3. View(id)' \in [path : Seq(Metadata), melted : BOOLEAN]
  <2>1. id' \in Coin
    BY <1>2 DEF WalkInv, WalkTypeOK
  <2>2. ASSUME ChainTypeOK', NEW coin \in Coin
        PROVE  IF IsLauncher(coin)
               THEN gens'[coin.store] \in Seq(Metadata)
                    /\ (meltedAt'[coin.store] # None) \in BOOLEAN
               ELSE TRUE
    BY <2>2, CoinPathLen DEF ChainTypeOK
  <2>3. QED  BY <1>1, <2>1, <2>2, EmptySeq DEF View, Melted
<1>4. /\ seen \subseteq seen'
      /\ pc \in Reading => View(id)' \in seen'
      /\ pc = "done" => seen' = seen
      /\ seen' \subseteq seen \cup {View(id)'}
  BY DEF ChainMoves, Reading
<1>5. reorged' \in BOOLEAN
  BY DEF ChainMoves, WalkInv, WalkTypeOK
<1>6. WalkTypeOK'
  BY <1>1, <1>2, <1>3, <1>4, <1>5 DEF WalkInv, WalkTypeOK
<1>7. VerifiedIsReal'
  <2>1. \A v : Explains(v)' <=> Explains(v)
    BY <1>2 DEF Explains
  <2>2. QED  BY <1>2, <1>4, <2>1 DEF WalkInv, VerifiedIsReal
<1>8. \A path, n : Pushed(path, n)' <=> Pushed(path, n)
  BY <1>2 DEF Pushed
<1>9. (pc = "peak" /\ record # None => \E v \in seen : v.path = cur.path /\ ~v.melted)'
  BY <1>2, <1>4 DEF WalkInv
<1>10. QED  BY <1>2, <1>4, <1>6, <1>7, <1>8, <1>9 DEF WalkInv

-----------------------------------------------------------------------------
(* Steps of the call.                                                      *)

\* A step that returns, or goes on, without claiming anything verified.
LEMMA UnverifiedReply ==
  ASSUME WalkInv, WalkTypeOK', pc' = "done", ~reply'.verified
  PROVE  WalkInv'
  BY DEF WalkInv, Reading, VerifiedIsReal

LEMMA AnswerStep ==
  ASSUME WalkInv, UNCHANGED <<storeVars, seen, reorged>>,
         NEW kind \in {"error", "not_found", "melted", "tip", "history"},
         Answer(kind), cur' = cur, roots' \in Seq(Roots)
  PROVE  WalkInv'
<1>1. /\ pc' = "done" /\ UNCHANGED <<op, id, record>>
      /\ reply' = [kind |-> kind, verified |-> FALSE, have |-> None]
  BY DEF Answer
<1>2. None \in Option(Nat)
  BY EmptySeq DEF None, Option
<1>3. reply' \in Reply /\ ~reply'.verified
  BY <1>1, <1>2 DEF Reply
<1>4. ChainTypeOK'
  BY DEF storeVars, chainVars, ChainTypeOK, WalkInv, WalkTypeOK
<1>5. WalkTypeOK'
  BY <1>1, <1>3, <1>4 DEF WalkInv, WalkTypeOK
<1>6. QED  BY <1>1, <1>3, <1>5, UnverifiedReply

\* While only the call moves, the store looks the same.
LEMMA ViewUnchanged ==
  ASSUME UNCHANGED storeVars, id' = id
  PROVE  View(id)' = View(id)
  BY DEF storeVars, chainVars, View, Melted

LEMMA StartStep ==
  ASSUME WalkInv, UNCHANGED storeVars,
         NEW o \in Ops, NEW coin \in Coin, StartCall(o, coin),
         seen' = {View(coin)}, reorged' = FALSE
  PROVE  WalkInv'
<1>1. /\ pc' = "launcher" /\ op' = o /\ id' = coin /\ cur' = coin
      /\ roots' = << >> /\ record' = None
      /\ reply' = [kind |-> "none", verified |-> FALSE, have |-> None]
  BY DEF StartCall
<1>2. None \in Option(Nat) /\ None \in Option(CoinRecord) /\ << >> \in Seq(Roots)
  BY EmptySeq DEF None, Option
<1>3. reply' \in Reply
  BY <1>1, <1>2 DEF Reply
<1>4. ChainTypeOK'
  BY DEF storeVars, chainVars, ChainTypeOK, WalkInv, WalkTypeOK
<1>5. View(coin) \in [path : Seq(Metadata), melted : BOOLEAN]
  BY ViewType DEF WalkInv, WalkTypeOK
<1>6. WalkTypeOK'
  BY <1>1, <1>2, <1>3, <1>4, <1>5 DEF WalkInv, WalkTypeOK, Reading
<1>7. View(id)' = View(coin)
  BY <1>1 DEF storeVars, chainVars, View, Melted
<1>8. QED  BY <1>1, <1>6, <1>7 DEF WalkInv, VerifiedIsReal

LEMMA ReadLauncherStep ==
  ASSUME WalkInv, ReadLauncher, UNCHANGED <<storeVars, seen, reorged>>
  PROVE  WalkInv'
<1>1. PICK spend \in CoinSpend(id) :
        \/ spend = None /\ NotFound
        \/ spend # None /\ ProofError
        \/ /\ spend # None
           /\ spend[1].coin = id
           /\ ~MissingLineage(spend[1])
           /\ LauncherCoin(spend[1].coin.store) = id
           /\ cur' = Hydrate(spend[1])
           /\ pc' = "hop"
           /\ UNCHANGED <<op, id, roots, record, reply>>
  BY DEF ReadLauncher
<1>2. id \in Coin /\ roots \in Seq(Roots) /\ ChainTypeOK
  BY DEF WalkInv, WalkTypeOK
<1>3. CASE NotFound
  BY <1>2, <1>3, AnswerStep DEF NotFound
<1>4. CASE ProofError
  BY <1>2, <1>4, AnswerStep DEF ProofError
<1>5. CASE /\ spend # None
           /\ spend[1].coin = id
           /\ ~MissingLineage(spend[1])
           /\ LauncherCoin(spend[1].coin.store) = id
           /\ cur' = Hydrate(spend[1])
           /\ pc' = "hop"
           /\ UNCHANGED <<op, id, roots, record, reply>>
  <2>1. spend[1] \in Spend
    BY <1>2, <1>5, CoinSpendType
  <2>2. /\ cur' \in Coin /\ cur'.path # << >>
        /\ cur' = Successor(id, spend[1].child[1]) /\ spend[1].child[1] \in Metadata
    BY <1>5, <2>1, HydrateType
  <2>3. id.path = << >> /\ IsLauncher(id) /\ LauncherCoin(id.store) = id
    BY <1>5 DEF LauncherCoin, IsLauncher
  <2>4. cur'.store = id.store /\ Len(cur'.path) = 1
    <3>1. /\ Successor(id, spend[1].child[1]).store = id.store
          /\ Len(Successor(id, spend[1].child[1]).path) = Len(id.path) + 1
      BY <1>2, <2>2, SuccessorType
    <3>2. Len(id.path) = 0
      BY <2>3
    <3>3. QED  BY <2>2, <3>1, <3>2
  <2>5. View(id)' = View(id)
    BY <1>5, ViewUnchanged
  <2>6. roots = << >> /\ View(id) \in seen /\ ~reply.verified
    BY DEF WalkInv, ReadLauncher, Reading
  <2>7. QED
    <3>1. ChainTypeOK'
      BY <1>2 DEF storeVars, chainVars, ChainTypeOK
    <3>2. WalkTypeOK'
      BY <1>5, <2>2, <3>1 DEF WalkInv, WalkTypeOK, Reading
    <3>3. Pushed(cur.path, Len(cur.path) - 1)'
      BY <1>5, <2>4, <2>6 DEF Pushed
    <3>4. VerifiedIsReal'
      BY <1>5 DEF VerifiedIsReal
    <3>5. QED
      BY <1>5, <2>2, <2>3, <2>4, <2>5, <2>6, <3>2, <3>3, <3>4 DEF WalkInv, Reading
<1>6. QED  BY <1>1, <1>3, <1>4, <1>5

\* After a push, the roots are those of the whole lineage so far.
LEMMA PushStep ==
  ASSUME WalkInv, Push
  PROVE  /\ roots' \in Seq(Roots)
         /\ Len(roots') = Len(cur.path) /\ Len(roots') <= MaxGenerations
         /\ \A i \in 1 .. Len(cur.path) : roots'[i] = cur.path[i].root
<1>1. /\ pc = "hop" /\ Len(roots) < MaxGenerations
      /\ roots' = Append(roots, MetadataOf(cur).root)
  BY DEF Push
<1>2. /\ cur \in Coin /\ cur.path # << >> /\ roots \in Seq(Roots)
      /\ Pushed(cur.path, Len(cur.path) - 1)
  BY <1>1 DEF WalkInv, WalkTypeOK
<1>3. /\ Len(cur.path) \in 1 .. Len(cur.path) /\ Len(cur.path) \in Nat
      /\ MetadataOf(cur).root \in Roots
      /\ MetadataOf(cur).root = cur.path[Len(cur.path)].root
  BY <1>2, CoinPathLen DEF Metadata, MetadataOf
<1>4. /\ roots' \in Seq(Roots)
      /\ Len(roots') = Len(roots) + 1
      /\ \A i \in 1 .. Len(roots) : roots'[i] = roots[i]
      /\ roots'[Len(roots) + 1] = cur.path[Len(cur.path)].root
  BY <1>1, <1>2, <1>3
<1>5. Len(roots) = Len(cur.path) - 1 /\ \A i \in 1 .. Len(roots) : roots[i] = cur.path[i].root
  BY <1>2 DEF Pushed
<1>6. Len(roots') = Len(cur.path) /\ Len(roots') <= MaxGenerations
  BY <1>1, <1>3, <1>4, <1>5, WalkAssumption
<1>7. \A i \in 1 .. Len(cur.path) : roots'[i] = cur.path[i].root
  BY <1>3, <1>4, <1>5
<1>8. QED  BY <1>4, <1>6, <1>7

LEMMA HopStep ==
  ASSUME WalkInv, Hop, UNCHANGED <<storeVars, seen, reorged>>
  PROVE  WalkInv'
<1>1. /\ cur \in Coin /\ id \in Coin /\ roots \in Seq(Roots) /\ op \in Ops
      /\ ChainTypeOK
  BY DEF WalkInv, WalkTypeOK
<1>2. ChainTypeOK'
  BY <1>1 DEF storeVars, chainVars, ChainTypeOK
<1>3. pc = "hop"
  BY DEF Hop, OverCap, ReachTip, RejectHop, ReachMelt, Advance, Push
<1>4. /\ View(id) \in seen /\ ~reply.verified
      /\ IsLauncher(id) /\ LauncherCoin(cur.store) = id /\ cur.path # << >>
  BY <1>3 DEF WalkInv, Reading
<1>5. CASE OverCap
  BY <1>1, <1>5, AnswerStep DEF OverCap, ProofError
<1>6. CASE RejectHop
  BY <1>6, PushStep, AnswerStep DEF RejectHop
<1>7. CASE ReachMelt
  <2>1. MeltedAs[op] \in {"melted", "history", "error"}
    BY <1>1 DEF MeltedAs, Ops
  <2>2. QED  BY <1>7, <2>1, PushStep, AnswerStep DEF ReachMelt
<1>8. CASE ReachTip
  <2>1. Push /\ LiveTip /\ cur' = cur
    BY <1>8 DEF ReachTip
  <2>2. CASE op # "status" /\ Answer(op)
    <3>1. op \in {"tip", "history"}
      BY <1>1, <2>2 DEF Ops
    <3>2. QED  BY <2>1, <2>2, <3>1, PushStep, AnswerStep
  <2>3. CASE op = "status" /\ pc' = "record" /\ UNCHANGED <<op, id, record, reply>>
    <3>1. WalkTypeOK'
      BY <1>2, <2>1, <2>3, PushStep DEF WalkInv, WalkTypeOK, Reading
    <3>2. View(id)' = View(id)
      BY <2>3, ViewUnchanged
    <3>3. Pushed(cur.path, Len(cur.path))' /\ Len(roots') <= MaxGenerations
      BY <2>1, PushStep DEF Pushed
    <3>4. VerifiedIsReal'
      BY <2>3 DEF VerifiedIsReal
    <3>5. QED
      BY <1>4, <2>1, <2>3, <3>1, <3>2, <3>3, <3>4 DEF WalkInv
  <2>4. QED  BY <2>1, <2>2, <2>3 DEF LiveTip
<1>9. CASE Advance
  <2>1. /\ Push
        /\ UNCHANGED <<pc, op, id, record, reply>>
    BY <1>9 DEF Advance
  <2>2. PICK spend \in CoinSpend(cur) :
          /\ spend # None /\ spend[1].coin = cur /\ ~MissingLineage(spend[1])
          /\ cur' = Hydrate(spend[1])
    BY <1>9 DEF Advance, WrongSpend
  <2>3. spend[1] \in Spend
    BY <1>1, <2>2, CoinSpendType
  <2>4. /\ cur' = Successor(cur, spend[1].child[1]) /\ spend[1].child[1] \in Metadata
        /\ cur' \in Coin /\ cur'.path # << >>
    BY <2>2, <2>3, HydrateType
  <2>5. /\ cur'.store = cur.store
        /\ Len(cur'.path) = Len(cur.path) + 1
        /\ \A i \in 1 .. Len(cur.path) : cur'.path[i] = cur.path[i]
    BY <1>1, <2>4, SuccessorType
  <2>6. Pushed(cur.path, Len(cur.path) - 1)'
    <3>1. Len(cur.path) \in Nat
      BY <1>1, CoinPathLen
    <3>2. /\ Len(roots') = Len(cur.path)
          /\ \A i \in 1 .. Len(cur.path) : roots'[i] = cur.path[i].root
      BY <2>1, PushStep
    <3>3. Len(cur'.path) - 1 = Len(cur.path)
      BY <2>5, <3>1
    <3>4. QED  BY <2>5, <3>2, <3>3 DEF Pushed
  <2>7. WalkTypeOK'
    BY <1>2, <2>1, <2>4, PushStep DEF WalkInv, WalkTypeOK
  <2>8. View(id)' = View(id) /\ VerifiedIsReal'
    BY <1>3, <2>1, ViewUnchanged DEF VerifiedIsReal
  <2>9. QED
    BY <1>3, <1>4, <2>1, <2>4, <2>5, <2>6, <2>7, <2>8 DEF WalkInv
<1>10. QED  BY <1>5, <1>6, <1>7, <1>8, <1>9 DEF Hop

LEMMA ReadRecordStep ==
  ASSUME WalkInv, ReadRecord, UNCHANGED <<storeVars, seen, reorged>>
  PROVE  WalkInv'
<1>1. /\ pc = "record" /\ cur \in Coin /\ roots \in Seq(Roots) /\ ChainTypeOK
      /\ IsLauncher(id) /\ LauncherCoin(cur.store) = id /\ cur.path # << >>
      /\ View(id) \in seen /\ ~reply.verified
      /\ Pushed(cur.path, Len(cur.path)) /\ Len(roots) <= MaxGenerations
  BY DEF ReadRecord, WalkInv, WalkTypeOK, Reading
<1>2. CASE ProofError
  BY <1>1, <1>2, AnswerStep DEF ProofError
<1>3. ASSUME NEW rec \in CoinRecordOf(cur),
             rec # None => ~rec[1].spent,
             record' = rec, pc' = "peak", UNCHANGED <<op, id, cur, roots, reply>>
      PROVE  WalkInv'
  <2>1. rec \in Option(CoinRecord)
    BY <1>1, CoinRecordType
  <2>2. ChainTypeOK'
    BY <1>1 DEF storeVars, chainVars, ChainTypeOK
  <2>3. WalkTypeOK'
    BY <1>3, <2>1, <2>2 DEF WalkInv, WalkTypeOK, Reading
  <2>4. View(id)' = View(id) /\ VerifiedIsReal'
    BY <1>3, ViewUnchanged DEF VerifiedIsReal
  <2>5. rec # None => View(id).path = cur.path /\ ~View(id).melted
    <3>1. id.store = cur.store
      BY <1>1 DEF LauncherCoin
    <3>2. View(id) = [path |-> gens[cur.store], melted |-> Melted(cur.store)]
      BY <1>1, <3>1 DEF View
    <3>3. QED  BY <1>1, <1>3, <3>2, UnspentRecordIsTip
  <2>6. Pushed(cur.path, Len(cur.path))'
    BY <1>1, <1>3 DEF Pushed
  <2>7. QED
    BY <1>1, <1>3, <2>3, <2>4, <2>5, <2>6 DEF WalkInv
<1>4. QED  BY <1>2, <1>3 DEF ReadRecord

LEMMA ReadPeakStep ==
  ASSUME WalkInv, ReadPeak, UNCHANGED <<storeVars, seen, reorged>>
  PROVE  WalkInv'
<1>1. /\ pc = "peak" /\ cur \in Coin /\ roots \in Seq(Roots) /\ ChainTypeOK
      /\ record \in Option(CoinRecord)
      /\ IsLauncher(id) /\ LauncherCoin(cur.store) = id /\ cur.path # << >>
      /\ Pushed(cur.path, Len(cur.path)) /\ Len(roots) <= MaxGenerations
      /\ record # None => \E v \in seen : v.path = cur.path /\ ~v.melted
  BY DEF ReadPeak, WalkInv, WalkTypeOK
<1>2. PICK p \in PeakHeight :
        reply' = [kind |-> "live",
                  verified |-> Verified,
                  have |-> IF p # None /\ record # None /\ record[1].height # None
                           THEN Some(SaturatingSub(p[1], record[1].height[1]))
                           ELSE None]
  BY DEF ReadPeak
<1>3. pc' = "done" /\ UNCHANGED <<op, id, cur, roots, record>>
  BY DEF ReadPeak
<1>4. reply'.have \in Option(Nat)
  <2>1. None \in Option(Nat)
    BY EmptySeq DEF None, Option
  <2>2. ASSUME p # None, record # None, record[1].height # None
        PROVE  Some(SaturatingSub(p[1], record[1].height[1])) \in Option(Nat)
    <3>1. p[1] \in Nat
      BY <1>1, <2>2, PeakType
    <3>2. record[1] \in CoinRecord
      BY <1>1, <2>2, OptionCases
    <3>3. record[1].height \in Option(Nat)
      BY <3>2 DEF CoinRecord
    <3>4. record[1].height[1] \in Nat
      BY <2>2, <3>3, OptionCases
    <3>5. SaturatingSub(p[1], record[1].height[1]) \in Nat
      BY <3>1, <3>4 DEF SaturatingSub
    <3>6. QED  BY <3>5 DEF Some, Option
  <2>3. QED  BY <1>2, <2>1, <2>2
<1>5. Verified \in BOOLEAN
  <2>1. CASE record = None
    BY <2>1 DEF Verified
  <2>2. CASE record # None
    BY <1>1, <2>2, OptionCases DEF Verified, CoinRecord
  <2>3. QED  BY <2>1, <2>2
<1>6. reply' \in Reply
  BY <1>2, <1>4, <1>5 DEF Reply
<1>7. WalkTypeOK'
  <2>1. ChainTypeOK'
    BY <1>1 DEF storeVars, chainVars, ChainTypeOK
  <2>2. QED  BY <1>3, <1>6, <2>1 DEF WalkInv, WalkTypeOK
<1>8. VerifiedIsReal'
  <2>1. SUFFICES ASSUME reply'.verified PROVE \E v \in seen : Explains(v)'
    BY DEF VerifiedIsReal
  <2>2. record # None
    BY <1>2, <2>1 DEF Verified
  <2>3. PICK v \in seen : v.path = cur.path /\ ~v.melted
    BY <1>1, <2>2
  <2>4. Len(v.path) <= MaxGenerations
    BY <1>1, <2>3 DEF Pushed
  <2>5. roots = RootsOf(v.path)
    <3>1. Len(roots) = Len(cur.path) /\ Len(cur.path) \in Nat
      BY <1>1, CoinPathLen DEF Pushed
    <3>2. roots = [i \in 1 .. Len(cur.path) |-> cur.path[i].root]
      <4>1. roots = [i \in 1 .. Len(roots) |-> roots[i]]
        BY <1>1
      <4>2. \A i \in 1 .. Len(cur.path) : roots[i] = cur.path[i].root
        BY <1>1 DEF Pushed
      <4>3. QED  BY <3>1, <4>1, <4>2
    <3>3. QED  BY <2>3, <3>2 DEF RootsOf
  <2>6. Explains(v)'
    BY <1>1, <1>2, <1>3, <2>3, <2>4, <2>5 DEF Explains
  <2>7. QED  BY <2>6
<1>9. reply'.kind = "live"
  BY <1>2
<1>10. QED  BY <1>3, <1>7, <1>8, <1>9 DEF WalkInv, Reading

-----------------------------------------------------------------------------
LEMMA WalkInitInv == WalkInit => WalkInv
<1>1. SUFFICES ASSUME WalkInit PROVE WalkInv
  OBVIOUS
<1>2. ChainTypeOK
  BY <1>1, ChainTypeInit DEF WalkInit
<1>3. id \in Coin /\ cur \in Coin
  BY <1>1, LauncherType DEF WalkInit
<1>4. None \in Option(Nat) /\ None \in Option(CoinRecord) /\ << >> \in Seq(Roots)
  BY EmptySeq DEF None, Option
<1>5. reply \in Reply /\ ~reply.verified
  BY <1>1, <1>4 DEF WalkInit, Reply
<1>6. WalkTypeOK
  BY <1>1, <1>2, <1>3, <1>4, <1>5 DEF WalkInit, WalkTypeOK, Ops
<1>7. QED  BY <1>1, <1>5, <1>6 DEF WalkInit, WalkInv, VerifiedIsReal, Reading

LEMMA WalkStepInv ==
  ASSUME WalkInv, WalkNext
  PROVE  WalkInv'
<1>1. CASE ChainMoves
  BY <1>1, ChainMovesStep
<1>2. ASSUME UNCHANGED storeVars,
             NEW o \in Ops, NEW coin \in {LauncherCoin(s) : s \in Stores} \cup OnChain,
             StartCall(o, coin), seen' = {View(coin)}, reorged' = FALSE
      PROVE  WalkInv'
  <2>1. coin \in Coin
    BY LauncherType, OnChainType DEF WalkInv, WalkTypeOK
  <2>2. QED  BY <1>2, <2>1, StartStep
<1>3. ASSUME Read, UNCHANGED <<storeVars, seen, reorged>>
      PROVE  WalkInv'
  <2>1. CASE ReadFails
    BY <1>3, <2>1, AnswerStep DEF ReadFails, ProofError, WalkInv, WalkTypeOK
  <2>2. QED
    BY <1>3, <2>1, ReadLauncherStep, HopStep, ReadRecordStep, ReadPeakStep DEF Read
<1>4. QED  BY <1>1, <1>2, <1>3 DEF WalkNext, CallSteps

LEMMA WalkInvariant == WalkSpec => []WalkInv
<1>1. WalkInv /\ [WalkNext]_walkVars => WalkInv'
  <2>1. SUFFICES ASSUME WalkInv, [WalkNext]_walkVars
                 PROVE  WalkInv'
    OBVIOUS
  <2>2. CASE WalkNext
    BY <2>1, <2>2, WalkStepInv
  <2>3. CASE UNCHANGED walkVars
    BY <2>1, <2>3
       DEF WalkInv, WalkTypeOK, ChainTypeOK, VerifiedIsReal, Explains, Pushed,
           View, Melted, walkVars, storeVars, chainVars, callVars
  <2>4. QED  BY <2>1, <2>2, <2>3
<1>2. QED  BY <1>1, WalkInitInv, PTL DEF WalkSpec

\* The read side keeps its types; `have`, the difference of two heights, is
\* never negative whatever peak the source reports.
THEOREM WalkTypeCorrect == WalkSpec => []WalkTypeOK
<1>1. WalkInv => WalkTypeOK
  BY DEF WalkInv
<1>2. QED  BY <1>1, WalkInvariant, PTL

\* A verified status was true of the requested store at one moment of the
\* call: for every source that is honest about coin records, whatever it
\* answers to coin_spend, and for reorgs of every depth.
THEOREM VerifiedCorrect == WalkSpec => []VerifiedIsReal
<1>1. WalkInv => VerifiedIsReal
  BY DEF WalkInv
<1>2. QED  BY <1>1, WalkInvariant, PTL

-----------------------------------------------------------------------------
(* A call runs out of reads.                                               *)

\* How many reads a call has left at most: that of the launcher, one for
\* each generation below the cap, the record and the peak.
ReadsLeft ==
  [launcher |-> MaxGenerations + 3, hop |-> MaxGenerations - Len(roots) + 2,
   record |-> 2, peak |-> 1, idle |-> 0, done |-> 0][pc]

CapInv == pc = "hop" => Len(roots) <= MaxGenerations

\* A read takes one at least, and no step of the chain gives one back.
UsesUpReads ==
  pc \in Reading => /\ ReadsLeft' <= ReadsLeft
                    /\ Read => ReadsLeft' < ReadsLeft

LEMMA ReadsLeftNat ==
  ASSUME WalkInv, CapInv
  PROVE  /\ ReadsLeft \in Nat
         /\ pc \in Reading => ReadsLeft > 0
         /\ pc \notin Reading => ReadsLeft = 0
<1>1. Len(roots) \in Nat /\ MaxGenerations \in Nat /\ pc \in Reading \cup {"idle", "done"}
  BY WalkAssumption DEF WalkInv, WalkTypeOK
<1>2. QED  BY <1>1 DEF CapInv, ReadsLeft, Reading

\* Every read that does not return leaves one read less, and within the cap.
LEMMA ReadTakesOne ==
  ASSUME WalkInv, CapInv, Read
  PROVE  CapInv' /\ ReadsLeft' \in Nat /\ ReadsLeft' < ReadsLeft
<1>1. /\ Len(roots) \in Nat /\ MaxGenerations \in Nat
      /\ ReadsLeft \in Nat
      /\ pc \in Reading => ReadsLeft > 0
  BY WalkAssumption, ReadsLeftNat DEF WalkInv, WalkTypeOK
<1>2. /\ pc' = "done" => ReadsLeft' = 0
      /\ pc' = "peak" => ReadsLeft' = 1
      /\ pc' = "record" => ReadsLeft' = 2
      /\ pc' = "hop" => ReadsLeft' = MaxGenerations - Len(roots') + 2
  BY DEF ReadsLeft
<1>3. pc \in Reading
  BY DEF Read, ReadFails, ReadLauncher, Hop, OverCap, ReachTip, RejectHop, ReachMelt,
         Advance, Push, ReadRecord, ReadPeak, Reading
<1>4. CASE pc' = "done"
  BY <1>1, <1>2, <1>3, <1>4 DEF CapInv
<1>5. CASE ReadLauncher /\ pc' = "hop" /\ roots' = roots
  <2>1. pc = "launcher" /\ roots = << >>
    BY <1>5 DEF ReadLauncher, WalkInv
  <2>2. QED  BY <1>1, <1>5, <2>1 DEF CapInv, ReadsLeft
<1>6. CASE Push /\ (pc' = "hop" \/ pc' = "record")
  <2>1. pc = "hop" /\ Len(roots) = Len(cur.path) - 1 /\ Len(cur.path) \in Nat
    BY <1>6, CoinPathLen DEF Push, WalkInv, WalkTypeOK, Pushed
  <2>2. Len(roots') = Len(roots) + 1 /\ Len(roots') <= MaxGenerations
    BY <1>6, <2>1, PushStep
  <2>3. ReadsLeft = MaxGenerations - Len(roots) + 2
    BY <2>1 DEF ReadsLeft
  <2>4. CASE pc' = "hop"
    <3>1. ReadsLeft' = MaxGenerations - Len(roots') + 2
      BY <1>2, <2>4
    <3>2. QED  BY <1>1, <2>2, <2>3, <2>4, <3>1 DEF CapInv
  <2>5. CASE pc' = "record"
    <3>1. ReadsLeft' = 2
      BY <1>2, <2>5
    <3>2. QED  BY <1>1, <2>2, <2>3, <2>5, <3>1 DEF CapInv
  <2>6. QED  BY <1>6, <2>4, <2>5
<1>7. CASE pc = "record" /\ pc' = "peak"
  BY <1>7 DEF CapInv, ReadsLeft
<1>8. QED
  <2>1. CASE ReadFails \/ ReadLauncher
    BY <1>4, <1>5, <2>1 DEF ReadFails, ReadLauncher, NotFound, ProofError, Answer
  <2>2. CASE Hop
    <3>1. CASE OverCap \/ RejectHop \/ ReachMelt
      BY <1>4, <3>1 DEF OverCap, RejectHop, ReachMelt, ProofError, Answer
    <3>2. CASE ReachTip
      BY <1>4, <1>6, <3>2 DEF ReachTip, LiveTip, Answer
    <3>3. CASE Advance
      BY <1>6, <3>3 DEF Advance, Push
    <3>4. QED  BY <2>2, <3>1, <3>2, <3>3 DEF Hop
  <2>3. CASE ReadRecord \/ ReadPeak
    BY <1>4, <1>7, <2>3 DEF ReadRecord, ReadPeak, ProofError, Answer
  <2>4. QED  BY <2>1, <2>2, <2>3 DEF Read

\* Whatever the source answers, and however the chain moves meanwhile, a
\* call has at most MaxGenerations + 3 reads: each one uses up some of those
\* left, and nothing else gives any back (the cap, store.rs:359-365).  With
\* calls that keep reading this is WalkTerminates.
THEOREM ReadsRunOut ==
  WalkSpec => /\ [](ReadsLeft \in 0 .. MaxGenerations + 3)
              /\ [](pc \in Reading => ReadsLeft > 0)
              /\ [][UsesUpReads]_walkVars
<1>1. WalkInit => CapInv
  BY DEF WalkInit, CapInv
<1>2. ASSUME WalkInv, CapInv, [WalkNext]_walkVars
      PROVE  CapInv' /\ UsesUpReads
  <2>1. CASE Read
    BY <1>2, <2>1, ReadTakesOne, ReadsLeftNat DEF UsesUpReads
  <2>2. CASE UNCHANGED callVars /\ ~Read
    <3>1. ReadsLeft' = ReadsLeft /\ CapInv'
      BY <1>2, <2>2 DEF callVars, ReadsLeft, CapInv
    <3>2. QED  BY <1>2, <2>2, <3>1, ReadsLeftNat DEF UsesUpReads
  <2>3. CASE (\E o, coin : StartCall(o, coin)) /\ ~Read
    BY <2>3 DEF StartCall, CapInv, Reading, UsesUpReads
  <2>4. QED
    BY <1>2, <2>1, <2>2, <2>3 DEF WalkNext, ChainMoves, CallSteps, walkVars, callVars
<1>3. ASSUME WalkInv, CapInv
      PROVE  ReadsLeft \in 0 .. MaxGenerations + 3 /\ (pc \in Reading => ReadsLeft > 0)
  <2>1. Len(roots) \in Nat /\ MaxGenerations \in Nat /\ pc \in Reading \cup {"idle", "done"}
    BY <1>3, WalkAssumption DEF WalkInv, WalkTypeOK
  <2>2. ReadsLeft <= MaxGenerations + 3
    BY <2>1, <1>3 DEF ReadsLeft, CapInv, Reading
  <2>3. QED  BY <1>3, <2>1, <2>2, ReadsLeftNat
<1>4. QED  BY <1>1, <1>2, <1>3, WalkInvariant, PTL DEF WalkSpec
=============================================================================
