------------------------ MODULE WalkRefinementProofs ------------------------
(***************************************************************************)
(* Theorems about a source whose spends can be believed: calls look        *)
(* atomic, refusals are justified, and every step of a walk is a step of   *)
(* AtomicStore or invisible to it.  They hold of any stores, roots, sizes  *)
(* and cap, of blocks landing between any two reads, and each of as many   *)
(* faults of the source as it can bear; the second also through reorgs.    *)
(***************************************************************************)
EXTENDS WalkRefinement, WalkChainProofs

\* The source neither withholds spends nor makes them up; and beyond that,
\* all its coin_spend answers are right and only what a status reads after
\* the walk may be wanting; and then that the record is not withheld.
SpendsBelievable == "missing" \notin Faults /\ "fabricated" \notin Faults
SpendsRight == Faults \subseteq {"no_record", "no_height", "no_peak", "stale_peak"}
RecordsGiven == Faults \subseteq {"no_height", "no_peak", "stale_peak"}

LEMMA Honesty ==
  /\ RecordsGiven => SpendsRight
  /\ SpendsRight => SpendsBelievable
  BY DEF RecordsGiven, SpendsRight, SpendsBelievable

-----------------------------------------------------------------------------
(* What such a source answers, and what it tells of the store.             *)

\* No answer, or a spend of the coin asked for, can be believed.
LEMMA BelievedSpend ==
  ASSUME SpendsBelievable, NEW coin, NEW spend \in CoinSpend(coin)
  PROVE  /\ spend = None => ~Spent(coin)
         /\ spend # None /\ spend[1].coin = coin => Spent(coin) /\ spend[1] = SpendOf(coin)
<1>1. CASE spend = None
  BY <1>1 DEF CoinSpend, If, Some, None, SpendsBelievable
<1>2. CASE spend # None /\ spend[1].coin = coin
  BY <1>2, SpendIsReal DEF SpendsBelievable
<1>3. QED  BY <1>1, <1>2

LEMMA RightSpend ==
  ASSUME SpendsRight, NEW coin, NEW spend \in CoinSpend(coin), spend # None
  PROVE  spend[1].coin = coin
<1>1. spend = Some(SpendOf(coin))
  BY DEF CoinSpend, If, SpendsRight
<1>2. QED  BY <1>1 DEF Some, SpendOf

LEMMA RecordTells ==
  ASSUME NEW coin, NEW rec \in CoinRecordOf(coin)
  PROVE  /\ rec # None => rec[1].spent = Spent(coin)
         /\ RecordsGiven /\ Created(coin) => rec # None
  BY DEF CoinRecordOf, If, Some, None, RecordsGiven

\* A coin of the chain is unspent when it is all there is of an open store.
LEMMA UnspentIsLatest ==
  ASSUME ChainTypeOK, NEW coin \in Coin, Created(coin)
  PROVE  ~Spent(coin) <=> gens[coin.store] = coin.path /\ ~Melted(coin.store)
<1>1. /\ Len(coin.path) \in Nat /\ Len(gens[coin.store]) \in Nat
      /\ coin.path \in Seq(Metadata) /\ gens[coin.store] \in Seq(Metadata)
      /\ Begins(coin.path, gens[coin.store])
  BY CoinPathLen, CreatedBegins DEF ChainTypeOK
<1>2. Len(coin.path) = Len(gens[coin.store]) => coin.path = gens[coin.store]
  BY <1>1, BeginsSame
<1>3. QED  BY <1>1, <1>2 DEF Spent, Begins

\* The view of the store that a walk is in.
LEMMA ViewOfWalk ==
  ASSUME IsLauncher(id), LauncherCoin(cur.store) = id
  PROVE  View(id) = [path |-> gens[cur.store], melted |-> Melted(cur.store)]
<1>1. id.store = cur.store
  BY DEF LauncherCoin
<1>2. QED  BY <1>1 DEF View

\* Two views make more than one.
LEMMA TwoSeen ==
  ASSUME NEW S, IsFiniteSet(S), NEW v \in S, NEW w \in S, v # w
  PROVE  Cardinality(S) > 1
<1>1. Cardinality({v, w}) = 2
  <2>1. {v} \cup {w} = {v, w} /\ w \notin {v}
    OBVIOUS
  <2>2. IsFiniteSet({v}) /\ Cardinality({v}) = 1
    BY FS_Singleton
  <2>3. Cardinality({v} \cup {w}) = Cardinality({v}) + 1
    BY <2>1, <2>2, FS_AddElement
  <2>4. QED  BY <2>1, <2>2, <2>3
<1>2. Cardinality({v, w}) <= Cardinality(S)
  BY FS_Subset
<1>3. Cardinality(S) \in Nat
  BY FS_CardinalityType
<1>4. QED  BY <1>1, <1>2, <1>3

-----------------------------------------------------------------------------
(* Only a store that was created can be melted, and not before its latest  *)
(* generation: so no reorg undoes the generations but not the melt.        *)

MeltInv ==
  /\ \A s \in Stores : Melted(s) =>
       /\ gens[s] # << >>
       /\ \A i \in 1 .. Len(born[s]) : born[s][i] <= meltedAt[s][1]
  /\ \A b \in built : MissingLineage(b) => b.coin.path # << >>

LEMMA MeltInit == WalkInit => MeltInv
  BY DEF WalkInit, ChainInit, MeltInv, Melted

\* What a builder returns is no melt of a launcher.
LEMMA BuildMelts ==
  ASSUME ChainTypeOK, Build
  PROVE  \E b : built' = built \cup {b} /\ (MissingLineage(b) => b.coin.path # << >>)
<1> DEFINE P(b) == built' = built \cup {b} /\ (MissingLineage(b) => b.coin.path # << >>)
<1>1. ASSUME NEW s \in Stores, NEW params \in Metadata, CreateStore(s, params)
      PROVE  \E b : P(b)
  <2>1. P([coin |-> LauncherCoin(s), child |-> Some(params)])
    BY <1>1 DEF CreateStore, Return, MissingLineage, Some, None
  <2>2. QED  BY <2>1
<1>2. ASSUME NEW ds \in Held, NEW r \in Roots, ModifyStore(ds, r)
      PROVE  \E b : P(b)
  <2>1. P([coin |-> ds, child |-> Some([MetadataOf(ds) EXCEPT !.root = r])])
    BY <1>2 DEF ModifyStore, Return, MissingLineage, Some, None
  <2>2. QED  BY <2>1
<1>3. ASSUME NEW ds \in Held, MeltStore(ds)
      PROVE  \E b : P(b)
  <2>1. ds.path # << >>
    BY HeldType DEF ChainTypeOK
  <2>2. P([coin |-> ds, child |-> None])
    BY <1>3, <2>1 DEF MeltStore, Return
  <2>3. QED  BY <2>2
<1>4. QED
  <2> HIDE DEF P
  <2>1. \E b : P(b)
    BY <1>1, <1>2, <1>3 DEF Build
  <2>2. QED  BY <2>1 DEF P

LEMMA MeltForward ==
  ASSUME ChainTypeOK, HeightsOrdered, MeltInv, Forward
  PROVE  MeltInv'
<1>1. CASE Build
  BY <1>1, BuildMelts, BuildEffect DEF MeltInv, Melted, chainVars
<1>2. CASE Grow
  <2>1. built' = built
    BY <1>2 DEF Grow, EmptyBlock, Confirm
  <2>2. /\ gens \in [Stores -> Seq(Metadata)] /\ born \in [Stores -> Seq(Nat)]
        /\ meltedAt \in [Stores -> Option(Nat)] /\ peak \in Nat
    BY DEF ChainTypeOK
  <2>3. CASE UNCHANGED <<gens, born, meltedAt>>
    BY <2>1, <2>3 DEF MeltInv, Melted
  <2>4. ASSUME NEW s \in Stores, meltedAt' = [meltedAt EXCEPT ![s] = Some(peak + 1)],
               gens' = gens, born' = born,
               NEW b \in built, MissingLineage(b), b.coin.path = gens[s]
        PROVE  MeltInv'
    <3>1. gens[s] # << >>
      BY <2>4 DEF MeltInv
    <3>2. \A i \in 1 .. Len(born[s]) : born[s][i] <= peak + 1
      <4>1. \A i \in 1 .. Len(born[s]) : born[s][i] \in Nat /\ born[s][i] <= peak
        BY <2>2 DEF HeightsOrdered
      <4>2. QED  BY <2>2, <4>1
    <3>3. meltedAt'[s][1] = peak + 1
      BY <2>2, <2>4 DEF Some
    <3>4. \A u \in Stores : u # s => meltedAt'[u] = meltedAt[u]
      BY <2>2, <2>4
    <3>5. QED  BY <2>1, <2>4, <3>1, <3>2, <3>3, <3>4 DEF MeltInv, Melted
  <2>5. ASSUME NEW s \in Stores, NEW m \in Metadata, ~Melted(s),
               gens' = [gens EXCEPT ![s] = Append(gens[s], m)],
               born' = [born EXCEPT ![s] = Append(born[s], peak + 1)],
               meltedAt' = meltedAt
        PROVE  MeltInv'
    <3>1. \A u \in Stores : Melted(u) => gens'[u] = gens[u] /\ born'[u] = born[u]
      BY <2>2, <2>5
    <3>2. QED  BY <2>1, <2>5, <3>1 DEF MeltInv, Melted
  <2>6. QED  BY <2>3, <2>4, <2>5, ForwardEffect
<1>3. QED  BY <1>1, <1>2 DEF Forward

\* A melt that a reorg leaves in place keeps all the generations before it.
LEMMA MeltReorg ==
  ASSUME ChainTypeOK, HeightsOrdered, MeltInv, NEW f \in Int, Reorg(f)
  PROVE  MeltInv'
<1>1. ASSUME NEW s \in Stores, Melted(s)'
      PROVE  /\ gens'[s] # << >>
             /\ \A i \in 1 .. Len(born'[s]) : born'[s][i] <= meltedAt'[s][1]
  <2>1. meltedAt'[s] = IF Melted(s) /\ meltedAt[s][1] > f THEN None ELSE meltedAt[s]
    BY DEF Reorg
  <2>2. Melted(s) /\ meltedAt'[s] = meltedAt[s] /\ ~(meltedAt[s][1] > f)
    BY <1>1, <2>1 DEF Melted
  <2>3. meltedAt[s][1] \in Nat
    BY <2>2, OptionCases DEF ChainTypeOK, Melted
  <2>4. /\ gens[s] \in Seq(Metadata) /\ gens[s] # << >>
        /\ born[s] \in Seq(Nat) /\ Len(born[s]) = Len(gens[s]) /\ Len(born[s]) \in Nat
        /\ \A i \in 1 .. Len(born[s]) : born[s][i] \in Nat /\ born[s][i] <= meltedAt[s][1]
    BY <2>2 DEF ChainTypeOK, MeltInv
  <2>5. Len(born[s]) \in 1 .. Len(born[s]) /\ born[s][Len(born[s])] <= f
    <3>1. Len(born[s]) \in 1 .. Len(born[s])
      BY <2>4, EmptySeq
    <3>2. QED  BY <2>2, <2>3, <2>4, <3>1
  <2>6. Len(born[s]) <= Kept(s, f)
    BY <2>5, KeptAtLeast
  <2>7. /\ Kept(s, f) \in 0 .. Len(gens[s])
        /\ Len(gens'[s]) = Kept(s, f) /\ Len(born'[s]) = Kept(s, f)
        /\ \A i \in 1 .. Kept(s, f) : born'[s][i] = born[s][i]
    BY ReorgEffect
  <2>8. Len(gens'[s]) > 0
    BY <2>4, <2>5, <2>6, <2>7
  <2>9. QED  BY <2>2, <2>4, <2>7, <2>8
<1>2. built' = built
  BY DEF Reorg
<1>3. QED  BY <1>1, <1>2 DEF MeltInv

LEMMA MeltInvariant == WalkSpec => []MeltInv
<1>1. WalkInv /\ HeightInv /\ MeltInv /\ [WalkNext]_walkVars => MeltInv'
  <2> SUFFICES ASSUME WalkInv, HeightInv, MeltInv, [WalkNext]_walkVars
               PROVE  MeltInv'
    OBVIOUS
  <2>1. ChainTypeOK /\ HeightsOrdered /\ peak \in Nat
    BY DEF WalkInv, WalkTypeOK, ChainTypeOK, HeightInv
  <2>2. CASE Forward
    BY <2>1, <2>2, MeltForward
  <2>3. CASE AnyReorg
    BY <2>1, <2>3, MeltReorg DEF AnyReorg
  <2>4. CASE UNCHANGED storeVars
    BY <2>4 DEF MeltInv, Melted, storeVars, chainVars
  <2>5. QED  BY <2>2, <2>3, <2>4 DEF WalkNext, ChainMoves, Forward, CallSteps, walkVars
<1>2. QED  BY <1>1, MeltInit, HeightInvariant, PTL DEF WalkSpec

-----------------------------------------------------------------------------
(* The look: what the store is at the read that settles the answer.        *)

LEMMA LauncherLook ==
  ASSUME ChainTypeOK, MeltInv, id \in Coin
  PROVE  /\ ~Spent(id) => View(id).path = << >>
         /\ IsLauncher(id) /\ Spent(id) => ~MissingLineage(SpendOf(id))
<1>1. CASE ~IsLauncher(id)
  BY <1>1 DEF View
<1>2. CASE IsLauncher(id)
  <2>1. Created(id) /\ id.path = << >> /\ id.store \in Stores
    BY <1>2, LauncherCreated, CoinPathLen DEF IsLauncher
  <2>2. ~Spent(id) => gens[id.store] = << >>
    BY <2>1, UnspentIsLatest
  <2>3. Spent(id) /\ MissingLineage(SpendOf(id)) => gens[id.store] = << >> /\ Melted(id.store)
    BY <2>1, SpendExtends
  <2>4. QED  BY <1>2, <2>1, <2>2, <2>3 DEF View, MeltInv
<1>3. QED  BY <1>1, <1>2

LEMMA TipLook ==
  ASSUME ChainTypeOK, cur \in Coin, Created(cur), ~Spent(cur),
         IsLauncher(id), LauncherCoin(cur.store) = id
  PROVE  View(id) = [path |-> cur.path, melted |-> FALSE]
  BY UnspentIsLatest, ViewOfWalk

LEMMA MeltLook ==
  ASSUME ChainTypeOK, cur \in Coin, Spent(cur), MissingLineage(SpendOf(cur)),
         IsLauncher(id), LauncherCoin(cur.store) = id
  PROVE  View(id) = [path |-> cur.path, melted |-> TRUE]
  BY SpendExtends, ViewOfWalk

\* A walk at a generation past the cap is in a store with more than the cap.
LEMMA OverCapLook ==
  ASSUME WalkInv, Created(cur), OverCap
  PROVE  Len(View(id).path) > MaxGenerations
<1>1. /\ ChainTypeOK /\ cur \in Coin /\ IsLauncher(id) /\ LauncherCoin(cur.store) = id
      /\ Len(roots) = Len(cur.path) - 1 /\ Len(roots) >= MaxGenerations
  BY DEF WalkInv, WalkTypeOK, OverCap, Pushed
<1>2. /\ Len(cur.path) \in Nat /\ MaxGenerations \in Nat
      /\ gens[cur.store] \in Seq(Metadata) /\ Len(cur.path) <= Len(gens[cur.store])
  BY <1>1, CoinPathLen, CreatedBegins, WalkAssumption DEF ChainTypeOK, Begins
<1>3. View(id).path = gens[cur.store]
  BY <1>1, ViewOfWalk
<1>4. Len(gens[cur.store]) > MaxGenerations
  BY <1>1, <1>2
<1>5. QED  BY <1>3, <1>4

\* After a push the roots are all those of the lineage so far.
LEMMA PushedAll ==
  ASSUME WalkInv, Push
  PROVE  /\ roots' = RootsOf(cur.path)
         /\ cur.path # << >> /\ Len(cur.path) <= MaxGenerations /\ Len(cur.path) > 0
<1>1. /\ roots' \in Seq(Roots) /\ Len(roots') = Len(cur.path)
      /\ Len(roots') <= MaxGenerations
      /\ \A i \in 1 .. Len(cur.path) : roots'[i] = cur.path[i].root
  BY PushStep
<1>2. roots' = [i \in 1 .. Len(roots') |-> roots'[i]]
  BY <1>1
<1>3. roots' = RootsOf(cur.path)
  BY <1>1, <1>2 DEF RootsOf
<1>4. cur.path # << >> /\ cur \in Coin
  BY DEF WalkInv, WalkTypeOK, Push
<1>5. QED  BY <1>1, <1>3, <1>4, CoinPathLen

LEMMA RootsAtTip ==
  ASSUME WalkInv, pc \in {"record", "peak"}
  PROVE  /\ roots = RootsOf(cur.path)
         /\ Len(cur.path) <= MaxGenerations /\ Len(cur.path) > 0
<1>1. /\ cur \in Coin /\ cur.path # << >> /\ roots \in Seq(Roots)
      /\ Pushed(cur.path, Len(cur.path)) /\ Len(roots) <= MaxGenerations
  BY DEF WalkInv, WalkTypeOK
<1>2. roots = [i \in 1 .. Len(roots) |-> roots[i]]
  BY <1>1
<1>3. QED  BY <1>1, <1>2, CoinPathLen DEF Pushed, RootsOf

-----------------------------------------------------------------------------
(* Answers.                                                                *)

\* The store was seen with the tip that a status is about to report, and a
\* finished call was true of something seen.
LookInv ==
  /\ IsFiniteSet(seen)
  /\ pc = "idle" => seen = {}
  /\ pc \in {"record", "peak"} =>
       op = "status" /\ \E v \in seen : v.path = cur.path /\ ~v.melted
  /\ Linearizable

HonestInv == WalkInv /\ StaleInv /\ MeltInv /\ LookInv

LEMMA LookInit == WalkInit => LookInv
  BY FS_EmptySet DEF WalkInit, LookInv, Linearizable

LEMMA LookChainStep ==
  ASSUME LookInv, ChainMoves
  PROVE  LookInv'
<1>1. /\ UNCHANGED <<pc, op, id, cur, roots, record, reply>>
      /\ seen \subseteq seen' /\ IsFiniteSet(seen')
      /\ pc \in {"idle", "done"} => seen' = seen
  BY FS_AddElement DEF ChainMoves, callVars, LookInv, Reading
<1>2. \A v : Explains(v)' <=> Explains(v)
  BY <1>1 DEF Explains
<1>3. Linearizable'
  BY <1>1, <1>2 DEF LookInv, Linearizable
<1>4. QED  BY <1>1, <1>3 DEF LookInv

\* A step that answers.
LEMMA LookAnswered ==
  ASSUME LookInv, pc' = "done", UNCHANGED seen,
         reply'.kind = "error" \/ \E v \in seen : Explains(v)'
  PROVE  LookInv'
  BY DEF LookInv, Linearizable

\* A step that refuses.
LEMMA LookRefused ==
  ASSUME LookInv, UNCHANGED seen, Answer("error")
  PROVE  LookInv'
  BY LookAnswered DEF Answer

\* A step that goes on to another read.
LEMMA LookGoesOn ==
  ASSUME LookInv, UNCHANGED seen, pc' \in {"launcher", "hop"}
  PROVE  LookInv'
  BY DEF LookInv, Linearizable

LEMMA LookLauncherStep ==
  ASSUME SpendsBelievable, HonestInv, ReadLauncher, UNCHANGED <<storeVars, seen, reorged>>
  PROVE  LookInv'
<1>1. ChainTypeOK /\ id \in Coin /\ View(id) \in seen /\ LookInv /\ MeltInv
  BY DEF HonestInv, WalkInv, WalkTypeOK, ReadLauncher, Reading
<1>2. CASE ProofError
  BY <1>1, <1>2, LookRefused DEF ProofError
<1>3. CASE pc' = "hop"
  BY <1>1, <1>3, LookGoesOn
<1>4. ASSUME NEW spend \in CoinSpend(id), spend = None, NotFound
      PROVE  LookInv'
  <2>1. View(id).path = << >>
    BY <1>1, <1>4, BelievedSpend, LauncherLook
  <2>2. CASE op = "status"
    <3>1. pc' = "done" /\ reply'.kind = "not_found"
      BY <1>4, <2>2 DEF NotFound, Answer
    <3>2. PICK v \in seen : v = View(id)
      BY <1>1
    <3>3. Explains(v)'
      BY <2>1, <3>1, <3>2 DEF Explains
    <3>4. QED  BY <1>1, <3>1, <3>3, LookAnswered
  <2>3. CASE op # "status"
    BY <1>1, <1>4, <2>3, LookRefused DEF NotFound
  <2>4. QED  BY <2>2, <2>3
<1>5. QED  BY <1>2, <1>3, <1>4 DEF ReadLauncher

LEMMA LookHopStep ==
  ASSUME SpendsBelievable, HonestInv, Hop, UNCHANGED <<storeVars, seen, reorged>>
  PROVE  LookInv'
<1>1. /\ pc = "hop" /\ ChainTypeOK /\ cur \in Coin /\ op \in Ops
      /\ IsLauncher(id) /\ LauncherCoin(cur.store) = id /\ Created(cur)
      /\ View(id) \in seen /\ LookInv /\ WalkInv
  BY DEF Hop, OverCap, ReachTip, RejectHop, ReachMelt, Advance, Push,
         HonestInv, WalkInv, WalkTypeOK, StaleInv, Reading
<1>2. CASE OverCap \/ RejectHop
  BY <1>1, <1>2, LookRefused DEF OverCap, RejectHop, ProofError
<1>3. CASE ReachTip
  <2>1. Push /\ LiveTip /\ cur' = cur
    BY <1>3 DEF ReachTip
  <2>2. ~Spent(cur)
    BY <1>3, BelievedSpend DEF ReachTip
  <2>3. PICK v \in seen : v = [path |-> cur.path, melted |-> FALSE]
    BY <1>1, <2>2, TipLook
  <2>4. CASE op # "status" /\ Answer(op)
    <3>1. /\ pc' = "done" /\ reply'.kind = op /\ op \in {"tip", "history"}
          /\ UNCHANGED <<id, op, seen>>
      BY <1>1, <2>4 DEF Answer, Ops
    <3>2. Explains(v)'
      BY <1>1, <2>1, <2>3, <3>1, PushedAll DEF Explains
    <3>3. QED  BY <1>1, <3>1, <3>2, LookAnswered
  <2>5. CASE op = "status" /\ pc' = "record" /\ op' = op
    BY <1>1, <2>1, <2>3, <2>5 DEF LookInv, Linearizable
  <2>6. QED  BY <2>1, <2>4, <2>5 DEF LiveTip
<1>4. CASE ReachMelt
  <2>1. Push /\ Answer(MeltedAs[op]) /\ cur' = cur
    BY <1>4 DEF ReachMelt
  <2>2. Spent(cur) /\ MissingLineage(SpendOf(cur))
    BY <1>4, BelievedSpend DEF ReachMelt, WrongSpend
  <2>3. PICK v \in seen : v = [path |-> cur.path, melted |-> TRUE]
    BY <1>1, <2>2, MeltLook
  <2>4. CASE op = "tip"
    BY <1>1, <2>1, <2>4, LookRefused DEF MeltedAs
  <2>5. CASE op # "tip"
    <3>1. /\ pc' = "done" /\ reply'.kind \in {"melted", "history"}
          /\ UNCHANGED <<id, op, seen>>
      BY <1>1, <2>1, <2>5 DEF Answer, Ops, MeltedAs
    <3>2. Explains(v)'
      BY <1>1, <2>1, <2>3, <3>1, PushedAll DEF Explains
    <3>3. QED  BY <1>1, <3>1, <3>2, LookAnswered
  <2>6. QED  BY <2>4, <2>5
<1>5. CASE Advance
  BY <1>1, <1>5, LookGoesOn DEF Advance
<1>6. QED  BY <1>2, <1>3, <1>4, <1>5 DEF Hop

LEMMA LookTailStep ==
  ASSUME HonestInv, ReadRecord \/ ReadPeak, UNCHANGED <<storeVars, seen, reorged>>
  PROVE  LookInv'
<1>1. LookInv
  BY DEF HonestInv
<1>2. CASE ReadRecord
  <2>1. CASE ProofError
    BY <1>1, <2>1, LookRefused DEF ProofError
  <2>2. CASE pc' = "peak" /\ UNCHANGED <<op, cur>>
    BY <1>1, <1>2, <2>2 DEF LookInv, Linearizable, ReadRecord
  <2>3. QED  BY <1>2, <2>1, <2>2 DEF ReadRecord
<1>3. CASE ReadPeak
  <2>1. /\ pc = "peak" /\ pc' = "done" /\ reply'.kind = "live"
        /\ UNCHANGED <<op, id, cur, roots, record>>
    BY <1>3 DEF ReadPeak
  <2>2. PICK v \in seen : v.path = cur.path /\ ~v.melted
    BY <1>1, <2>1 DEF LookInv
  <2>3. /\ LauncherCoin(cur.store) = id /\ cur.path # << >>
        /\ Len(cur.path) <= MaxGenerations /\ roots = RootsOf(cur.path)
    BY <2>1, RootsAtTip DEF HonestInv, WalkInv
  <2>4. Explains(v)'
    BY <2>1, <2>2, <2>3 DEF Explains
  <2>5. QED  BY <1>1, <2>1, <2>4, LookAnswered
<1>4. QED  BY <1>2, <1>3

LEMMA HonestInvariant ==
  ASSUME SpendsBelievable, MaxReorgDepth = 0
  PROVE  WalkSpec => []HonestInv
<1>1. HonestInv /\ [WalkNext]_walkVars => LookInv'
  <2> SUFFICES ASSUME HonestInv, [WalkNext]_walkVars
               PROVE  LookInv'
    OBVIOUS
  <2>1. CASE ChainMoves
    BY <2>1, LookChainStep DEF HonestInv
  <2>2. ASSUME NEW o, NEW coin, StartCall(o, coin), seen' = {View(coin)}
        PROVE  LookInv'
    <3>1. IsFiniteSet(seen') /\ pc' = "launcher"
      BY <2>2, FS_Singleton DEF StartCall
    <3>2. QED  BY <3>1 DEF LookInv, Linearizable
  <2>3. CASE Read /\ UNCHANGED <<storeVars, seen, reorged>>
    <3>1. CASE ReadFails
      BY <2>3, <3>1, LookRefused DEF ReadFails, ProofError, HonestInv
    <3>2. QED  BY <2>3, <3>1, LookLauncherStep, LookHopStep, LookTailStep DEF Read
  <2>4. CASE UNCHANGED walkVars
    BY <2>4 DEF HonestInv, LookInv, Linearizable, Explains, walkVars, callVars
  <2>5. QED  BY <2>1, <2>2, <2>3, <2>4 DEF WalkNext, CallSteps
<1>2. WalkSpec => [](WalkInv /\ StaleInv)
  BY StaleInvariant DEF SpendsBelievable
<1>3. WalkSpec => []MeltInv
  BY MeltInvariant
<1>4. WalkInv /\ StaleInv /\ MeltInv /\ LookInv <=> HonestInv
  BY DEF HonestInv
<1>5. QED  BY <1>1, <1>2, <1>3, <1>4, LookInit, PTL DEF WalkSpec

\* Although blocks land between its reads, what a successful call returns
\* was true of the store, all of it together, at one moment of the call
\* (store.rs:205-213).  Reads may fail, spends may be swapped for those of
\* other coins, and records and peaks may be missing or old.
THEOREM LinearizableCorrect ==
  ASSUME SpendsBelievable, MaxReorgDepth = 0
  PROVE  WalkSpec => []Linearizable
<1>1. HonestInv => Linearizable
  BY DEF HonestInv, LookInv
<1>2. QED  BY <1>1, HonestInvariant, PTL

-----------------------------------------------------------------------------
(* Refusals.                                                               *)

Justified ==
  \/ ~IsLauncher(id)
  \/ \E v \in seen : \/ Len(v.path) > MaxGenerations
                     \/ op # "status" /\ v.path = << >>
                     \/ op = "tip" /\ v.melted
  \/ op = "status" /\ Cardinality(seen) > 1

\* What a walk has found was in the store at some moment of the call: the
\* generation it is at, and, when it took that for the tip, a state in which
\* it was the tip or had been undone.
FoundInv ==
  /\ IsFiniteSet(seen)
  /\ pc = "hop" => \E v \in seen : Begins(cur.path, v.path)
  /\ pc = "record" =>
       /\ op = "status"
       /\ \E v \in seen : Begins(cur.path, v.path) => v.path = cur.path /\ ~v.melted

LEMMA FoundChainStep ==
  ASSUME FoundInv, ChainMoves
  PROVE  FoundInv'
<1>1. UNCHANGED <<pc, op, cur>> /\ seen \subseteq seen' /\ IsFiniteSet(seen')
  BY FS_AddElement DEF ChainMoves, callVars, FoundInv
<1>2. QED  BY <1>1 DEF FoundInv

\* What a spend recreates is in the store at that moment.
LEMMA FoundChild ==
  ASSUME ChainTypeOK, NEW coin \in Coin, Spent(coin), ~MissingLineage(SpendOf(coin)),
         IsLauncher(id), LauncherCoin(coin.store) = id
  PROVE  Begins(Hydrate(SpendOf(coin)).path, View(id).path)
<1>1. /\ Hydrate(SpendOf(coin)) \in Coin /\ Created(Hydrate(SpendOf(coin)))
      /\ Hydrate(SpendOf(coin)).store = coin.store
  BY SpendExtends
<1>2. Begins(Hydrate(SpendOf(coin)).path, gens[coin.store])
  BY <1>1, CreatedBegins
<1>3. View(id).path = gens[coin.store]
  BY DEF View, LauncherCoin
<1>4. QED  BY <1>2, <1>3

\* So is the end of the walk, unless it was undone.
LEMMA FoundTip ==
  ASSUME ChainTypeOK, cur \in Coin, ~Spent(cur), IsLauncher(id), LauncherCoin(cur.store) = id,
         Begins(cur.path, View(id).path)
  PROVE  View(id).path = cur.path /\ ~View(id).melted
<1>1. View(id) = [path |-> gens[cur.store], melted |-> Melted(cur.store)]
  BY ViewOfWalk
<1>2. Created(cur)
  BY <1>1, CreatedBegins
<1>3. QED  BY <1>1, <1>2, UnspentIsLatest

LEMMA FoundReadStep ==
  ASSUME SpendsRight, WalkInv, FoundInv, Read, UNCHANGED seen
  PROVE  FoundInv'
<1>1. ChainTypeOK /\ id \in Coin /\ cur \in Coin /\ IsFiniteSet(seen')
  BY DEF WalkInv, WalkTypeOK, FoundInv
<1>2. CASE pc' \in {"peak", "done"}
  BY <1>1, <1>2 DEF FoundInv
<1>3. ASSUME NEW spend \in CoinSpend(id), ReadLauncher,
             spend # None, spend[1].coin = id, ~MissingLineage(spend[1]),
             LauncherCoin(spend[1].coin.store) = id, cur' = Hydrate(spend[1]), pc' = "hop"
      PROVE  FoundInv'
  <2>1. Spent(id) /\ spend[1] = SpendOf(id)
    BY <1>3, Honesty, BelievedSpend
  <2>2. IsLauncher(id) /\ LauncherCoin(id.store) = id
    BY <1>3 DEF LauncherCoin, IsLauncher
  <2>3. View(id) \in seen
    BY <1>3 DEF WalkInv, ReadLauncher, Reading
  <2>4. Begins(cur'.path, View(id).path)
    BY <1>1, <1>3, <2>1, <2>2, FoundChild
  <2>5. QED  BY <1>1, <1>3, <2>3, <2>4 DEF FoundInv
<1>4. CASE Push
  <2>1. View(id) \in seen /\ IsLauncher(id) /\ LauncherCoin(cur.store) = id
    BY <1>4 DEF Push, WalkInv, Reading
  <2>2. CASE ReachTip /\ op = "status" /\ pc' = "record" /\ op' = op
    <3>1. ~Spent(cur) /\ cur' = cur
      BY <2>2, Honesty, BelievedSpend DEF ReachTip
    <3>2. Begins(cur.path, View(id).path) => View(id).path = cur.path /\ ~View(id).melted
      BY <1>1, <2>1, <3>1, FoundTip
    <3>3. QED  BY <1>1, <2>1, <2>2, <3>1, <3>2 DEF FoundInv
  <2>3. CASE Advance
    <3>1. PICK spend \in CoinSpend(cur) :
            /\ spend # None /\ ~WrongSpend(spend) /\ ~MissingLineage(spend[1])
            /\ cur' = Hydrate(spend[1])
      BY <2>3 DEF Advance
    <3>2. Spent(cur) /\ spend[1] = SpendOf(cur)
      BY <3>1, Honesty, BelievedSpend DEF WrongSpend
    <3>3. Begins(cur'.path, View(id).path)
      BY <1>1, <2>1, <3>1, <3>2, FoundChild
    <3>4. pc' = "hop"
      BY <2>3 DEF Advance, Push
    <3>5. QED  BY <1>1, <2>1, <3>3, <3>4 DEF FoundInv
  <2>4. CASE RejectHop \/ ReachMelt \/ (ReachTip /\ Answer(op))
    BY <1>2, <2>4 DEF RejectHop, ReachMelt, Answer
  <2>5. ~OverCap
    BY <1>4, WalkAssumption DEF Push, OverCap, WalkInv, WalkTypeOK
  <2>6. ReachTip \/ RejectHop \/ ReachMelt \/ Advance
    BY <1>4, <2>5
       DEF Read, ReadFails, ReadLauncher, Hop, ReadRecord, ReadPeak, Push, SpendsRight
  <2>7. QED  BY <2>2, <2>3, <2>4, <2>6 DEF ReachTip, LiveTip
<1>5. CASE ~Push /\ ~ReadLauncher
  BY <1>2, <1>5
     DEF Read, ReadFails, Hop, OverCap, ReachTip, RejectHop, ReachMelt, Advance,
         ReadRecord, ReadPeak, ProofError, Answer
<1>6. CASE ReadLauncher
  BY <1>2, <1>3, <1>6 DEF ReadLauncher, NotFound, ProofError, Answer
<1>7. QED  BY <1>4, <1>5, <1>6

LEMMA FoundInvariant ==
  ASSUME SpendsRight
  PROVE  WalkSpec => []FoundInv
<1>1. WalkInit => FoundInv
  BY FS_EmptySet DEF WalkInit, FoundInv
<1>2. WalkInv /\ FoundInv /\ [WalkNext]_walkVars => FoundInv'
  <2> SUFFICES ASSUME WalkInv, FoundInv, [WalkNext]_walkVars
               PROVE  FoundInv'
    OBVIOUS
  <2>1. CASE ChainMoves
    BY <2>1, FoundChainStep
  <2>2. ASSUME NEW o, NEW coin, StartCall(o, coin), seen' = {View(coin)}
        PROVE  FoundInv'
    <3>1. IsFiniteSet(seen') /\ pc' = "launcher"
      BY <2>2, FS_Singleton DEF StartCall
    <3>2. QED  BY <3>1 DEF FoundInv
  <2>3. CASE Read /\ UNCHANGED <<storeVars, seen, reorged>>
    BY <2>3, FoundReadStep
  <2>4. CASE UNCHANGED walkVars
    BY <2>4 DEF FoundInv, walkVars, callVars
  <2>5. QED  BY <2>1, <2>2, <2>3, <2>4 DEF WalkNext, CallSteps
<1>3. QED  BY <1>1, <1>2, WalkInvariant, PTL DEF WalkSpec

\* A walk that is on chain all along has found what it has.
LEMMA HonestFound == HonestInv => FoundInv
<1>1. SUFFICES ASSUME HonestInv PROVE FoundInv
  OBVIOUS
<1>2. ASSUME pc = "hop"
      PROVE  \E v \in seen : Begins(cur.path, v.path)
  <2>1. /\ ChainTypeOK /\ cur \in Coin /\ Created(cur) /\ View(id) \in seen
        /\ IsLauncher(id) /\ LauncherCoin(cur.store) = id
    BY <1>1, <1>2 DEF HonestInv, WalkInv, WalkTypeOK, StaleInv, Reading
  <2>2. QED  BY <2>1, CreatedBegins, ViewOfWalk
<1>3. QED  BY <1>1, <1>2 DEF HonestInv, LookInv, FoundInv

\* The record contradicts the walk only if the store moved.
LEMMA RecordLook ==
  ASSUME WalkInv, FoundInv, pc = "record",
         NEW rec \in CoinRecordOf(cur), rec # None, rec[1].spent
  PROVE  op = "status" /\ Cardinality(seen) > 1
<1>1. /\ ChainTypeOK /\ cur \in Coin /\ op = "status"
      /\ IsLauncher(id) /\ LauncherCoin(cur.store) = id
      /\ View(id) \in seen /\ IsFiniteSet(seen)
  BY DEF WalkInv, WalkTypeOK, FoundInv, Reading
<1>2. Spent(cur) /\ Created(cur)
  BY RecordTells DEF Spent
<1>3. Begins(cur.path, View(id).path) /\ (View(id).path # cur.path \/ View(id).melted)
  BY <1>1, <1>2, UnspentIsLatest, ViewOfWalk, CreatedBegins
<1>4. PICK v \in seen : Begins(cur.path, v.path) => v.path = cur.path /\ ~v.melted
  BY DEF FoundInv
<1>5. v # View(id)
  BY <1>3, <1>4
<1>6. QED  BY <1>1, <1>5, TwoSeen

\* Every step that refuses has its reason.
LEMMA LauncherRefuses ==
  ASSUME SpendsRight, WalkInv, MeltInv, ReadLauncher, reply'.kind = "error", pc' = "done"
  PROVE  \/ ~IsLauncher(id)
         \/ op # "status" /\ View(id).path = << >>
<1>1. ChainTypeOK /\ id \in Coin
  BY DEF WalkInv, WalkTypeOK
<1>2. ASSUME NEW spend \in CoinSpend(id), spend = None, NotFound
      PROVE  op # "status" /\ View(id).path = << >>
  <2>1. View(id).path = << >>
    BY <1>1, <1>2, Honesty, BelievedSpend, LauncherLook
  <2>2. op # "status"
    BY <1>2 DEF NotFound, Answer
  <2>3. QED  BY <2>1, <2>2
<1>3. ASSUME NEW spend \in CoinSpend(id), spend # None,
             \/ spend[1].coin # id
             \/ MissingLineage(spend[1])
             \/ LauncherCoin(spend[1].coin.store) # id
      PROVE  ~IsLauncher(id)
  <2>1. spend[1].coin = id
    BY <1>3, RightSpend
  <2>2. Spent(id) /\ spend[1] = SpendOf(id)
    BY <1>3, <2>1, Honesty, BelievedSpend
  <2>3. QED
    BY <1>1, <1>3, <2>1, <2>2, LauncherLook DEF IsLauncher, LauncherCoin, Coin
<1>4. QED  BY <1>2, <1>3 DEF ReadLauncher

LEMMA HopRefuses ==
  ASSUME SpendsRight, WalkInv, FoundInv, Hop, reply'.kind = "error", pc' = "done"
  PROVE  \/ \E v \in seen : Len(v.path) > MaxGenerations
         \/ op = "tip" /\ View(id).melted
<1>1. /\ pc = "hop" /\ ChainTypeOK /\ cur \in Coin /\ op \in Ops
      /\ IsLauncher(id) /\ LauncherCoin(cur.store) = id
  BY DEF Hop, OverCap, ReachTip, RejectHop, ReachMelt, Advance, Push, WalkInv, WalkTypeOK
<1>2. CASE OverCap
  <2>1. PICK v \in seen : Begins(cur.path, v.path)
    BY <1>1 DEF FoundInv
  <2>2. v.path \in Seq(Metadata) /\ Len(v.path) \in Nat
    BY DEF WalkInv, WalkTypeOK
  <2>3. Len(roots) = Len(cur.path) - 1 /\ Len(roots) >= MaxGenerations
    BY <1>1, <1>2 DEF WalkInv, OverCap, Pushed
  <2>4. Len(v.path) > MaxGenerations
    BY <1>1, <2>1, <2>2, <2>3, CoinPathLen, WalkAssumption DEF Begins
  <2>5. QED  BY <2>4
<1>3. CASE RejectHop
  BY <1>3, RightSpend DEF RejectHop, WrongSpend
<1>4. CASE ReachTip
  BY <1>1, <1>4 DEF ReachTip, LiveTip, Answer, Ops
<1>5. CASE ReachMelt
  <2>1. Spent(cur) /\ MissingLineage(SpendOf(cur))
    BY <1>5, Honesty, BelievedSpend DEF ReachMelt, WrongSpend
  <2>2. op = "tip"
    BY <1>1, <1>5 DEF ReachMelt, Answer, MeltedAs, Ops
  <2>3. QED  BY <1>1, <2>1, <2>2, MeltLook
<1>6. CASE Advance
  BY <1>1, <1>6 DEF Advance
<1>7. QED  BY <1>2, <1>3, <1>4, <1>5, <1>6 DEF Hop

LEMMA ReadRefuses ==
  ASSUME SpendsRight, WalkInv, MeltInv, FoundInv, Read, reply'.kind = "error", pc' = "done"
  PROVE  Justified
<1>1. View(id) \in seen
  BY DEF WalkInv, Read, ReadFails, ReadLauncher, Hop, OverCap, ReachTip, RejectHop,
         ReachMelt, Advance, Push, ReadRecord, ReadPeak, Reading
<1>2. CASE ReadFails
  BY <1>2 DEF ReadFails, SpendsRight
<1>3. CASE ReadLauncher
  BY <1>1, <1>3, LauncherRefuses DEF Justified
<1>4. CASE Hop
  BY <1>1, <1>4, HopRefuses DEF Justified
<1>5. CASE ReadRecord
  BY <1>5, RecordLook DEF ReadRecord, Justified
<1>6. CASE ReadPeak
  BY <1>6 DEF ReadPeak
<1>7. QED  BY <1>2, <1>3, <1>4, <1>5, <1>6 DEF Read

\* A call is refused only for an id that is no store, for a store that was
\* absent, melted or past the cap during the call, or, by the status
\* cross-check, for one that moved during it (store.rs:268-276).  Reorgs of
\* any depth may come in between.
THEOREM ErrorsCorrect ==
  ASSUME SpendsRight
  PROVE  WalkSpec => []ErrorsAreJustified
<1>1. WalkInit => ErrorsAreJustified
  BY DEF WalkInit, ErrorsAreJustified
<1>2. WalkInv /\ MeltInv /\ FoundInv /\ ErrorsAreJustified /\ [WalkNext]_walkVars => ErrorsAreJustified'
  <2> SUFFICES ASSUME WalkInv, MeltInv, FoundInv, ErrorsAreJustified, [WalkNext]_walkVars
               PROVE  ErrorsAreJustified'
    OBVIOUS
  <2>1. CASE ChainMoves
    BY <2>1 DEF ErrorsAreJustified, ChainMoves, callVars, Reading
  <2>2. ASSUME NEW o, NEW coin, StartCall(o, coin)
        PROVE  ErrorsAreJustified'
    BY <2>2 DEF StartCall, ErrorsAreJustified
  <2>3. CASE Read /\ UNCHANGED <<storeVars, seen, reorged>>
    <3>1. UNCHANGED <<id, op, seen>>
      BY <2>3 DEF Read, ReadFails, ReadLauncher, Hop, OverCap, ReachTip, RejectHop,
                  ReachMelt, Advance, Push, ReadRecord, ReadPeak, LiveTip, ProofError,
                  NotFound, Answer
    <3>2. QED  BY <2>3, <3>1, ReadRefuses DEF ErrorsAreJustified, Justified
  <2>4. CASE UNCHANGED walkVars
    BY <2>4 DEF ErrorsAreJustified, walkVars, callVars
  <2>5. QED  BY <2>1, <2>2, <2>3, <2>4 DEF WalkNext, CallSteps
<1>3. WalkSpec => []FoundInv
  BY FoundInvariant
<1>4. QED  BY <1>1, <1>2, <1>3, WalkInvariant, MeltInvariant, PTL DEF WalkSpec

-----------------------------------------------------------------------------
(* The refinement mapping, name by name.                                   *)

StoreNow == [s \in Stores |-> View(LauncherCoin(s))]
Phase == IF pc = "idle" THEN "idle" ELSE IF Settled THEN "answered" ELSE "calling"
Moved == ~Settled /\ Cardinality(seen) > 1
Told ==
  IF Settled
  THEN [kind  |-> SettledKind,
        roots |-> IF SettledKind \in {"melted", "live", "history"} THEN roots ELSE << >>,
        tip   |-> IF SettledKind \in {"live", "tip"} THEN cur.path ELSE << >>]
  ELSE [kind |-> "none", roots |-> << >>, tip |-> << >>]

LEMMA AtomicData ==
  /\ Atomic!Metadata = Metadata /\ Atomic!Coin = Coin /\ Atomic!Ops = Ops
  /\ \A s : Atomic!LauncherCoin(s) = LauncherCoin(s)
  /\ \A path : Atomic!RootsOf(path) = RootsOf(path)
  BY DEF Atomic!Metadata, Atomic!Coin, Atomic!Ops, Atomic!LauncherCoin, Atomic!RootsOf,
         Metadata, Coin, Ops, LauncherCoin, RootsOf

LEMMA AtomicGive ==
  ASSUME NEW kind, NEW r, NEW t
  PROVE  Atomic!Give(kind, r, t) <=>
           /\ Phase = "calling" /\ Phase' = "answered"
           /\ Told' = [kind |-> kind, roots |-> r, tip |-> t]
           /\ Moved' = FALSE
           /\ UNCHANGED <<StoreNow, op, id>>
  BY DEF Atomic!Give, Phase, Told, Moved, StoreNow

LEMMA AtomicVars ==
  UNCHANGED <<StoreNow, Phase, op, id, Moved, Told>> => UNCHANGED Atomic!atomicVars
  BY DEF Atomic!atomicVars, Phase, Told, Moved, StoreNow

\* The store asked for is the view of the walk.
LEMMA AtomicAsked ==
  ASSUME id \in Coin
  PROVE  Atomic!Asked = View(id)
<1>1. CASE IsLauncher(id)
  <2>1. id.store \in Stores /\ LauncherCoin(id.store) = id
    BY <1>1 DEF IsLauncher, LauncherCoin, Coin
  <2>2. QED  BY <1>1, <2>1 DEF Atomic!Asked, Atomic!IsLauncher, IsLauncher
<1>2. CASE ~IsLauncher(id)
  BY <1>2 DEF Atomic!Asked, Atomic!IsLauncher, IsLauncher, View
<1>3. QED  BY <1>1, <1>2

\* What a look at the store may answer, in terms of the walk.
LEMMA AtomicLook ==
  ASSUME id \in Coin
  PROVE  /\ ~IsLauncher(id) /\ Atomic!Give("error", << >>, << >>) => Atomic!Look
         /\ /\ View(id).path = << >>
            /\ \/ op = "status" /\ Atomic!Give("not_found", << >>, << >>)
               \/ op # "status" /\ Atomic!Give("error", << >>, << >>)
            => Atomic!Look
         /\ Len(View(id).path) > MaxGenerations /\ Atomic!Give("error", << >>, << >>)
            => Atomic!Look
         /\ op = "status" /\ Moved /\ Atomic!Give("error", << >>, << >>) => Atomic!Look
<1>1. Len(<< >>) = 0
  BY EmptySeq
<1>2. QED
  BY <1>1, AtomicAsked
     DEF Atomic!Look, Atomic!Refuse, Atomic!LookAtAbsent, Atomic!LookForStatus,
         Atomic!Length, Atomic!IsLauncher, IsLauncher, Moved

LEMMA AtomicLookAtStore ==
  ASSUME id \in Coin, Len(View(id).path) > 0, Len(View(id).path) <= MaxGenerations
  PROVE  LET path == View(id).path IN
         /\ /\ View(id).melted
            /\ \/ op = "status" /\ Atomic!Give("melted", RootsOf(path), << >>)
               \/ op = "history" /\ Atomic!Give("history", RootsOf(path), << >>)
               \/ op = "tip" /\ Atomic!Give("error", << >>, << >>)
            => Atomic!Look
         /\ /\ ~View(id).melted
            /\ \/ op = "status" /\ Atomic!Give("live", RootsOf(path), path)
               \/ op = "history" /\ Atomic!Give("history", RootsOf(path), << >>)
               \/ op = "tip" /\ Atomic!Give("tip", << >>, path)
            => Atomic!Look
  BY AtomicAsked, AtomicData
     DEF Atomic!Look, Atomic!Refuse, Atomic!LookForTip, Atomic!LookForHistory,
         Atomic!LookForStatus, Atomic!InReach, Atomic!Length

-----------------------------------------------------------------------------
(* The reads: one is the look, the others go unnoticed.                    *)

LEMMA StoreStays ==
  ASSUME UNCHANGED storeVars
  PROVE  StoreNow' = StoreNow
  BY DEF StoreNow, View, Melted, storeVars, chainVars

\* A read that returns answers, and one that goes on does not show.
LEMMA GiveStep ==
  ASSUME pc \in {"launcher", "hop", "record"}, NEW kind, Answer(kind), UNCHANGED storeVars
  PROVE  Atomic!Give(kind,
                     IF kind \in {"melted", "live", "history"} THEN roots' ELSE << >>,
                     IF kind \in {"live", "tip"} THEN cur'.path ELSE << >>)
<1>1. /\ pc' = "done" /\ reply'.kind = kind /\ UNCHANGED <<op, id>>
  BY DEF Answer
<1>2. Phase = "calling" /\ Phase' = "answered" /\ Moved' = FALSE
  BY <1>1 DEF Phase, Settled, Moved
<1>3. Told' = [kind  |-> kind,
               roots |-> IF kind \in {"melted", "live", "history"} THEN roots' ELSE << >>,
               tip   |-> IF kind \in {"live", "tip"} THEN cur'.path ELSE << >>]
  BY <1>1 DEF Told, Settled, SettledKind
<1>4. QED  BY <1>1, <1>2, <1>3, AtomicGive, StoreStays

LEMMA RefuseStep ==
  ASSUME pc \in {"launcher", "hop", "record"}, Answer("error"), UNCHANGED storeVars
  PROVE  Atomic!Give("error", << >>, << >>)
  BY GiveStep

LEMMA StutterStep ==
  ASSUME pc \in {"launcher", "hop", "record"}, pc' \in {"launcher", "hop", "record"},
         UNCHANGED <<storeVars, op, id, seen>>
  PROVE  UNCHANGED Atomic!atomicVars
<1>1. StoreNow' = StoreNow
  BY StoreStays
<1>2. Phase' = Phase /\ Moved' = Moved /\ Told' = Told
  BY DEF Phase, Moved, Told, Settled
<1>3. QED  BY <1>1, <1>2, AtomicVars

LEMMA AtomicLauncher ==
  ASSUME SpendsRight, HonestInv, ReadLauncher, UNCHANGED <<storeVars, seen, reorged>>
  PROVE  Atomic!Look \/ UNCHANGED Atomic!atomicVars
<1>1. ChainTypeOK /\ id \in Coin /\ pc = "launcher"
  BY DEF HonestInv, WalkInv, WalkTypeOK, ReadLauncher
<1>2. CASE Answer("error")
  <2>1. Atomic!Give("error", << >>, << >>)
    BY <1>1, <1>2, RefuseStep
  <2>2. ~IsLauncher(id) \/ (op # "status" /\ View(id).path = << >>)
    BY <1>2, LauncherRefuses DEF Answer, HonestInv
  <2>3. QED  BY <1>1, <2>1, <2>2, AtomicLook
<1>3. ASSUME NEW spend \in CoinSpend(id), spend = None, op = "status", Answer("not_found")
      PROVE  Atomic!Look
  <2>1. View(id).path = << >>
    BY <1>1, <1>3, Honesty, BelievedSpend, LauncherLook DEF HonestInv
  <2>2. Atomic!Give("not_found", << >>, << >>)
    BY <1>1, <1>3, GiveStep
  <2>3. QED  BY <1>1, <1>3, <2>1, <2>2, AtomicLook
<1>4. CASE pc' = "hop" /\ UNCHANGED <<op, id>>
  BY <1>1, <1>4, StutterStep
<1>5. QED  BY <1>2, <1>3, <1>4 DEF ReadLauncher, NotFound, ProofError

LEMMA AtomicHop ==
  ASSUME SpendsRight, HonestInv, Hop, UNCHANGED <<storeVars, seen, reorged>>
  PROVE  Atomic!Look \/ UNCHANGED Atomic!atomicVars
<1>1. /\ pc = "hop" /\ ChainTypeOK /\ cur \in Coin /\ id \in Coin /\ op \in Ops
      /\ IsLauncher(id) /\ LauncherCoin(cur.store) = id /\ Created(cur) /\ WalkInv
  BY DEF Hop, OverCap, ReachTip, RejectHop, ReachMelt, Advance, Push,
         HonestInv, WalkInv, WalkTypeOK, StaleInv
<1>2. CASE OverCap
  <2>1. Len(View(id).path) > MaxGenerations
    BY <1>1, <1>2, OverCapLook
  <2>2. Atomic!Give("error", << >>, << >>)
    BY <1>1, <1>2, RefuseStep DEF OverCap, ProofError
  <2>3. QED  BY <1>1, <2>1, <2>2, AtomicLook
<1>3. CASE RejectHop
  BY <1>3, RightSpend DEF RejectHop, WrongSpend
<1>4. CASE ReachTip
  <2>1. Push /\ LiveTip /\ cur' = cur
    BY <1>4 DEF ReachTip
  <2>2. View(id) = [path |-> cur.path, melted |-> FALSE]
    BY <1>1, <1>4, Honesty, BelievedSpend, TipLook DEF ReachTip
  <2>3. /\ roots' = RootsOf(View(id).path) /\ cur'.path = View(id).path
        /\ Len(View(id).path) > 0 /\ Len(View(id).path) <= MaxGenerations
    BY <1>1, <2>1, <2>2, PushedAll
  <2>4. CASE op = "tip" /\ Answer("tip")
    <3>1. Atomic!Give("tip", << >>, View(id).path)
      BY <1>1, <2>3, <2>4, GiveStep
    <3>2. QED  BY <1>1, <2>2, <2>3, <2>4, <3>1, AtomicLookAtStore
  <2>5. CASE op = "history" /\ Answer("history")
    <3>1. Atomic!Give("history", RootsOf(View(id).path), << >>)
      BY <1>1, <2>3, <2>5, GiveStep
    <3>2. QED  BY <1>1, <2>2, <2>3, <2>5, <3>1, AtomicLookAtStore
  <2>6. CASE pc' = "record" /\ UNCHANGED <<op, id>>
    BY <1>1, <2>6, StutterStep
  <2>7. QED  BY <1>1, <2>1, <2>4, <2>5, <2>6 DEF LiveTip, Ops
<1>5. CASE ReachMelt
  <2>1. Push /\ Answer(MeltedAs[op]) /\ cur' = cur
    BY <1>5 DEF ReachMelt
  <2>2. View(id) = [path |-> cur.path, melted |-> TRUE]
    BY <1>1, <1>5, Honesty, BelievedSpend, MeltLook DEF ReachMelt, WrongSpend
  <2>3. /\ roots' = RootsOf(View(id).path)
        /\ Len(View(id).path) > 0 /\ Len(View(id).path) <= MaxGenerations
    BY <1>1, <2>1, <2>2, PushedAll
  <2>4. CASE op = "tip"
    <3>1. Atomic!Give("error", << >>, << >>)
      BY <1>1, <2>1, <2>4, RefuseStep DEF MeltedAs
    <3>2. QED  BY <1>1, <2>2, <2>3, <2>4, <3>1, AtomicLookAtStore
  <2>5. CASE op = "history"
    <3>1. Answer("history")
      BY <2>1, <2>5 DEF MeltedAs
    <3>2. Atomic!Give("history", RootsOf(View(id).path), << >>)
      BY <1>1, <2>3, <3>1, GiveStep
    <3>3. QED  BY <1>1, <2>2, <2>3, <2>5, <3>2, AtomicLookAtStore
  <2>6. CASE op = "status"
    <3>1. Answer("melted")
      BY <2>1, <2>6 DEF MeltedAs
    <3>2. Atomic!Give("melted", RootsOf(View(id).path), << >>)
      BY <1>1, <2>3, <3>1, GiveStep
    <3>3. QED  BY <1>1, <2>2, <2>3, <2>6, <3>2, AtomicLookAtStore
  <2>7. QED  BY <1>1, <2>4, <2>5, <2>6 DEF Ops
<1>6. CASE Advance
  BY <1>1, <1>6, StutterStep DEF Advance
<1>7. QED  BY <1>2, <1>3, <1>4, <1>5, <1>6 DEF Hop

LEMMA AtomicRecord ==
  ASSUME RecordsGiven, HonestInv, ReadRecord, UNCHANGED <<storeVars, seen, reorged>>
  PROVE  Atomic!Look \/ UNCHANGED Atomic!atomicVars
<1>1. /\ pc = "record" /\ op = "status" /\ ChainTypeOK /\ WalkInv
      /\ cur \in Coin /\ id \in Coin /\ Created(cur)
      /\ IsLauncher(id) /\ LauncherCoin(cur.store) = id
  BY DEF ReadRecord, HonestInv, LookInv, StaleInv, WalkInv, WalkTypeOK
<1>2. PICK rec \in CoinRecordOf(cur) :
        \/ rec # None /\ rec[1].spent /\ ProofError
        \/ /\ rec # None => ~rec[1].spent
           /\ record' = rec /\ pc' = "peak" /\ UNCHANGED <<op, id, cur, roots, reply>>
  BY DEF ReadRecord
<1>3. CASE rec # None /\ rec[1].spent /\ ProofError
  <2>1. Moved
    BY <1>1, <1>3, HonestFound, RecordLook DEF Moved, Settled
  <2>2. Atomic!Give("error", << >>, << >>)
    BY <1>1, <1>3, RefuseStep DEF ProofError
  <2>3. QED  BY <1>1, <2>1, <2>2, AtomicLook
<1>4. CASE /\ rec # None => ~rec[1].spent
           /\ pc' = "peak" /\ UNCHANGED <<op, id, cur, roots>>
  <2>1. gens[cur.store] = cur.path /\ ~Melted(cur.store)
    BY <1>1, <1>4, RecordTells, UnspentIsLatest
  <2>2. View(id).path = cur.path /\ ~View(id).melted
    BY <1>1, <2>1, ViewOfWalk
  <2>3. /\ roots = RootsOf(cur.path)
        /\ Len(cur.path) > 0 /\ Len(cur.path) <= MaxGenerations
    BY <1>1, RootsAtTip
  <2>4. Atomic!Give("live", RootsOf(View(id).path), View(id).path)
    <3>1. Phase = "calling" /\ Phase' = "answered" /\ Moved' = FALSE
      BY <1>1, <1>4 DEF Phase, Settled, Moved
    <3>2. Told' = [kind |-> "live", roots |-> roots, tip |-> cur.path]
      BY <1>4 DEF Told, Settled, SettledKind
    <3>3. QED  BY <1>4, <2>2, <2>3, <3>1, <3>2, AtomicGive, StoreStays
  <2>5. QED  BY <1>1, <2>2, <2>3, <2>4, AtomicLookAtStore
<1>5. QED  BY <1>2, <1>3, <1>4

LEMMA AtomicPeak ==
  ASSUME ReadPeak, UNCHANGED <<storeVars, seen, reorged>>
  PROVE  UNCHANGED Atomic!atomicVars
<1>1. /\ pc = "peak" /\ pc' = "done" /\ reply'.kind = "live"
      /\ UNCHANGED <<op, id, cur, roots>>
  BY DEF ReadPeak
<1>2. Phase' = Phase /\ Moved' = Moved /\ Told' = Told
  BY <1>1 DEF Phase, Moved, Told, Settled, SettledKind
<1>3. QED  BY <1>1, <1>2, StoreStays, AtomicVars

-----------------------------------------------------------------------------
(* The blocks: each is a move of one store, or goes unnoticed.             *)

LEMMA StoreOf ==
  ASSUME NEW s \in Stores
  PROVE  StoreNow[s] = [path |-> gens[s], melted |-> Melted(s)]
  BY DEF StoreNow, View, LauncherCoin, IsLauncher

LEMMA OpenStore ==
  ASSUME NEW s \in Stores, ~Melted(s)
  PROVE  /\ StoreNow[s] = [path |-> gens[s], melted |-> FALSE]
         /\ StoreNow[s].path = gens[s] /\ ~StoreNow[s].melted
<1>1. StoreNow[s] = [path |-> gens[s], melted |-> FALSE]
  BY StoreOf DEF Melted
<1>2. QED  BY <1>1

Views == [path : Seq(Metadata), melted : BOOLEAN]

\* A view that differs in one field.
LEMMA ViewMelts ==
  ASSUME NEW v \in Views, NEW w \in Views, w.path = v.path, w.melted
  PROVE  w = [v EXCEPT !.melted = TRUE]
  BY DEF Views

LEMMA ViewGrows ==
  ASSUME NEW v \in Views, NEW w \in Views, NEW path, w.path = path, w.melted = v.melted
  PROVE  w = [v EXCEPT !.path = path]
  BY DEF Views

\* A store that moves is all that changes.
LEMMA OneStoreMoves ==
  ASSUME NEW s \in Stores, NEW v, StoreNow'[s] = v,
         \A t \in Stores \ {s} : gens'[t] = gens[t] /\ meltedAt'[t] = meltedAt[t]
  PROVE  StoreNow' = [StoreNow EXCEPT ![s] = v]
<1>1. \A t \in Stores \ {s} : StoreNow'[t] = StoreNow[t]
  BY DEF StoreNow, View, LauncherCoin, IsLauncher, Melted
<1>2. /\ StoreNow' = [t \in Stores |-> StoreNow'[t]]
      /\ StoreNow = [t \in Stores |-> StoreNow[t]]
  BY DEF StoreNow
<1>3. QED  BY <1>1, <1>2

LEMMA AtomicMove ==
  ASSUME NEW s \in Stores, ~StoreNow[s].melted,
         \/ \E m \in Metadata :
              /\ StoreNow[s].path # << >> => m.size = StoreNow[s].path[1].size
              /\ StoreNow' = [StoreNow EXCEPT ![s].path = Append(@, m)]
         \/ StoreNow[s].path # << >> /\ StoreNow' = [StoreNow EXCEPT ![s].melted = TRUE],
         Moved' = (Moved \/ (Phase = "calling" /\ id = LauncherCoin(s))),
         UNCHANGED <<Phase, op, id, Told>>
  PROVE  Atomic!AtomicNext
<1>1. Atomic!Move(s)
  BY AtomicData DEF Atomic!Move, StoreNow, Moved, Phase, Told
<1>2. QED  BY <1>1 DEF Atomic!AtomicNext

\* The call sees a move of the store it is about, and of no other.
LEMMA MovedStep ==
  ASSUME WalkInv, LookInv, ChainMoves, NEW s \in Stores,
         \A t \in Stores \ {s} : gens'[t] = gens[t] /\ meltedAt'[t] = meltedAt[t],
         gens'[s] # gens[s] \/ (Melted(s)' /\ ~Melted(s))
  PROVE  Moved' = (Moved \/ (Phase = "calling" /\ id = LauncherCoin(s)))
<1>1. /\ UNCHANGED <<pc, op, id, cur, roots, record, reply>> /\ id \in Coin
      /\ seen' = IF pc \in Reading THEN seen \cup {View(id)'} ELSE seen
      /\ IsFiniteSet(seen) /\ pc \in Reading \cup {"idle", "done"}
      /\ pc \in Reading => View(id) \in seen
  BY DEF ChainMoves, callVars, WalkInv, WalkTypeOK, LookInv
<1>2. CASE pc \in {"peak", "done"}
  BY <1>1, <1>2 DEF Moved, Settled, Phase
<1>3. CASE pc = "idle"
  BY <1>1, <1>3 DEF Moved, Settled, Phase, Reading
<1>4. CASE pc \in {"launcher", "hop", "record"} /\ id = LauncherCoin(s)
  <2>1. /\ View(id) = [path |-> gens[s], melted |-> Melted(s)]
        /\ View(id)' = [path |-> gens'[s], melted |-> Melted(s)']
    BY <1>1, <1>4 DEF View, LauncherCoin, IsLauncher, Melted
  <2>2. View(id) # View(id)'
    BY <2>1
  <2>3. IsFiniteSet(seen') /\ View(id) \in seen' /\ View(id)' \in seen'
    BY <1>1, <1>4, FS_AddElement DEF Reading
  <2>4. Cardinality(seen') > 1
    BY <2>2, <2>3, TwoSeen
  <2>5. QED  BY <1>1, <1>4, <2>4 DEF Moved, Settled, Phase
<1>5. CASE pc \in {"launcher", "hop", "record"} /\ id # LauncherCoin(s)
  <2>1. View(id)' = View(id)
    <3>1. CASE IsLauncher(id)
      <4>1. id.store \in Stores \ {s}
        BY <1>1, <1>5, <3>1 DEF IsLauncher, LauncherCoin, Coin
      <4>2. QED  BY <1>1, <4>1 DEF View, Melted
    <3>2. CASE ~IsLauncher(id)
      BY <1>1, <3>2 DEF View
    <3>3. QED  BY <3>1, <3>2
  <2>2. seen' = seen
    BY <1>1, <1>5, <2>1 DEF Reading
  <2>3. QED  BY <1>1, <1>5, <2>2 DEF Moved, Settled, Phase
<1>6. QED  BY <1>1, <1>2, <1>3, <1>4, <1>5 DEF Reading

LEMMA AtomicChain ==
  ASSUME WalkInv, LookInv, MeltInv, MintInv, ChainMoves, Forward
  PROVE  Atomic!AtomicNext \/ UNCHANGED Atomic!atomicVars
<1>1. /\ UNCHANGED <<pc, op, id, cur, roots, record, reply>>
      /\ UNCHANGED <<Phase, op, id, Told>>
  BY DEF ChainMoves, callVars, Phase, Told, Settled, SettledKind
<1>2. /\ ChainTypeOK /\ gens \in [Stores -> Seq(Metadata)]
      /\ meltedAt \in [Stores -> Option(Nat)]
  BY DEF WalkInv, WalkTypeOK, ChainTypeOK
<1>3. CASE UNCHANGED <<gens, meltedAt>>
  <2>1. StoreNow' = StoreNow /\ View(id)' = View(id)
    BY <1>1, <1>3 DEF StoreNow, View, Melted
  <2>2. seen' = seen
    BY <1>1, <2>1 DEF ChainMoves, WalkInv
  <2>3. Moved' = Moved
    BY <1>1, <2>2 DEF Moved, Settled
  <2>4. QED  BY <1>1, <2>1, <2>3, AtomicVars
<1>4. ASSUME NEW s \in Stores, ~Melted(s), gens' = gens,
             meltedAt' = [meltedAt EXCEPT ![s] = Some(peak + 1)],
             NEW b \in built, MissingLineage(b), b.coin.path = gens[s]
      PROVE  Atomic!AtomicNext
  <2>1. Melted(s)' /\ \A t \in Stores \ {s} : meltedAt'[t] = meltedAt[t]
    BY <1>2, <1>4 DEF Melted, Some, None
  <2>2. gens[s] # << >>
    BY <1>4 DEF MeltInv
  <2>3. StoreNow'[s] = [StoreNow[s] EXCEPT !.melted = TRUE]
    <3>1. StoreNow'[s] = [path |-> gens[s], melted |-> TRUE]
      BY <1>4, <2>1 DEF StoreNow, View, LauncherCoin, IsLauncher
    <3>2. StoreNow[s] = [path |-> gens[s], melted |-> FALSE]
      BY <1>4, OpenStore
    <3>3. StoreNow[s] \in Views /\ StoreNow'[s] \in Views
      BY <1>2, <3>1, <3>2 DEF Views
    <3>4. StoreNow'[s].path = StoreNow[s].path /\ StoreNow'[s].melted
      BY <3>1, <3>2
    <3>5. QED  BY <3>3, <3>4, ViewMelts
  <2>4. StoreNow' = [StoreNow EXCEPT ![s].melted = TRUE]
    BY <1>4, <2>1, <2>3, OneStoreMoves
  <2>5. Moved' = (Moved \/ (Phase = "calling" /\ id = LauncherCoin(s)))
    BY <1>4, <2>1, MovedStep
  <2>6. StoreNow[s].path # << >> /\ ~StoreNow[s].melted
    BY <1>4, <2>2, OpenStore
  <2>7. QED  BY <1>1, <2>4, <2>5, <2>6, AtomicMove
<1>5. ASSUME NEW s \in Stores, ~Melted(s), NEW m \in Metadata, UNCHANGED meltedAt,
             gens' = [gens EXCEPT ![s] = Append(gens[s], m)]
      PROVE  Atomic!AtomicNext
  <2>1. /\ gens'[s] = Append(gens[s], m) /\ gens[s] \in Seq(Metadata)
        /\ \A t \in Stores \ {s} : gens'[t] = gens[t]
    BY <1>2, <1>5
  <2>2. gens'[s] # gens[s]
    <3>1. Len(gens'[s]) = Len(gens[s]) + 1 /\ Len(gens[s]) \in Nat
      BY <2>1
    <3>2. QED  BY <3>1
  <2>3. gens[s] # << >> => m.size = gens[s][1].size
    <3>1. MintInv'
      BY MintStep DEF Forward, Build, Grow, ChainStep
    <3>2. SameSize(gens'[s])
      BY <3>1 DEF MintInv
    <3>3. ASSUME gens[s] # << >>
          PROVE  /\ Len(gens[s]) + 1 \in DOMAIN gens'[s]
                 /\ gens'[s][Len(gens[s]) + 1] = m /\ gens'[s][1] = gens[s][1]
      <4>1. Len(gens[s]) # 0
        BY <2>1, <3>3, EmptySeq
      <4>2. QED  BY <2>1, <4>1
    <3>4. QED  BY <3>2, <3>3 DEF SameSize
  <2>4. StoreNow'[s] = [StoreNow[s] EXCEPT !.path = Append(StoreNow[s].path, m)]
    <3>1. StoreNow'[s] = [path |-> Append(gens[s], m), melted |-> FALSE]
      BY <1>5, <2>1 DEF StoreNow, View, LauncherCoin, IsLauncher, Melted
    <3>2. StoreNow[s] = [path |-> gens[s], melted |-> FALSE]
      BY <1>5, OpenStore
    <3>3. StoreNow[s] \in Views /\ StoreNow'[s] \in Views
      BY <2>1, <3>1, <3>2 DEF Views
    <3>4. /\ StoreNow'[s].path = Append(StoreNow[s].path, m)
          /\ StoreNow'[s].melted = StoreNow[s].melted
      BY <3>1, <3>2
    <3>5. QED  BY <3>3, <3>4, ViewGrows
  <2>5. StoreNow' = [StoreNow EXCEPT ![s].path = Append(@, m)]
    BY <1>5, <2>1, <2>4, OneStoreMoves
  <2>6. Moved' = (Moved \/ (Phase = "calling" /\ id = LauncherCoin(s)))
    BY <1>5, <2>1, <2>2, MovedStep
  <2>7. /\ ~StoreNow[s].melted
        /\ StoreNow[s].path # << >> => m.size = StoreNow[s].path[1].size
    BY <1>5, <2>3, OpenStore
  <2>8. QED  BY <1>1, <2>5, <2>6, <2>7, AtomicMove
<1>6. QED  BY <1>2, <1>3, <1>4, <1>5, ForwardEffect

-----------------------------------------------------------------------------
LEMMA AtomicBegin ==
  ASSUME WalkInv, NEW o \in Ops, NEW coin \in Coin, StartCall(o, coin),
         seen' = {View(coin)}, UNCHANGED storeVars
  PROVE  Atomic!AtomicNext
<1>1. /\ pc \in {"idle", "done"} /\ pc' = "launcher" /\ op' = o /\ id' = coin
  BY DEF StartCall
<1>2. Phase # "calling" /\ Phase' = "calling"
  BY <1>1 DEF Phase, Settled
<1>3. Moved' = FALSE
  <2>1. Cardinality(seen') = 1
    BY FS_Singleton
  <2>2. QED  BY <2>1 DEF Moved
<1>4. Told' = [kind |-> "none", roots |-> << >>, tip |-> << >>]
  BY <1>1 DEF Told, Settled
<1>5. Atomic!Begin
  BY <1>1, <1>2, <1>3, <1>4, StoreStays, AtomicData
     DEF Atomic!Begin, Atomic!NoAnswer, Phase, Moved, Told, StoreNow
<1>6. QED  BY <1>5 DEF Atomic!AtomicNext

LEMMA AtomicStart ==
  ASSUME WalkInit
  PROVE  Atomic!AtomicInit
<1>1. \A s \in Stores : View(LauncherCoin(s)) = [path |-> << >>, melted |-> FALSE]
  BY DEF WalkInit, ChainInit, View, LauncherCoin, IsLauncher, Melted
<1>2. pc = "idle" /\ op \in Ops /\ id \in Coin
  BY LauncherType DEF WalkInit, Ops
<1>3. Moved = FALSE
  <2>1. Cardinality(seen) = 0
    BY FS_EmptySet DEF WalkInit
  <2>2. QED  BY <2>1 DEF Moved
<1>4. QED
  BY <1>1, <1>2, <1>3, AtomicData DEF Atomic!AtomicInit, Atomic!NoAnswer, Settled, Moved

LEMMA AtomicStep ==
  ASSUME RecordsGiven, MaxReorgDepth = 0, HonestInv, MintInv, WalkNext
  PROVE  Atomic!AtomicNext \/ UNCHANGED Atomic!atomicVars
<1>1. WalkInv /\ LookInv /\ MeltInv /\ ChainTypeOK /\ ~AnyReorg
  BY NoReorg DEF HonestInv, WalkInv, WalkTypeOK
<1>2. CASE ChainMoves
  <2>1. Forward
    BY <1>1, <1>2 DEF ChainMoves, Forward
  <2>2. QED  BY <1>1, <1>2, <2>1, AtomicChain
<1>3. ASSUME NEW o \in Ops, NEW coin \in {LauncherCoin(s) : s \in Stores} \cup OnChain,
             StartCall(o, coin), seen' = {View(coin)}, UNCHANGED storeVars
      PROVE  Atomic!AtomicNext
  <2>1. coin \in Coin
    BY <1>1, LauncherType, OnChainType
  <2>2. QED  BY <1>1, <1>3, <2>1, AtomicBegin
<1>4. CASE Read /\ UNCHANGED <<storeVars, seen, reorged>>
  <2>1. ~ReadFails
    BY DEF ReadFails, RecordsGiven
  <2>2. Atomic!Look \/ UNCHANGED Atomic!atomicVars
    BY <1>4, <2>1, Honesty, AtomicLauncher, AtomicHop, AtomicRecord, AtomicPeak DEF Read
  <2>3. QED  BY <2>2 DEF Atomic!AtomicNext
<1>5. QED  BY <1>2, <1>3, <1>4 DEF WalkNext, CallSteps

LEMMA MintInvariant == WalkSpec => []MintInv
<1>1. WalkInit => MintInv
  BY MintInit DEF WalkInit
<1>2. MintInv /\ [WalkNext]_walkVars => MintInv'
  <2> SUFFICES ASSUME MintInv, [WalkNext]_walkVars
               PROVE  MintInv'
    OBVIOUS
  <2>1. CASE ChainMoves
    BY <2>1, MintStep DEF ChainMoves, Build, Grow, AnyReorg, ChainStep
  <2>2. CASE UNCHANGED storeVars
    BY <2>2 DEF MintInv, ChainTypeOK, Held, storeVars, chainVars
  <2>3. QED  BY <2>1, <2>2 DEF WalkNext, CallSteps, walkVars
<1>3. QED  BY <1>1, <1>2, PTL DEF WalkSpec

\* A walk of many reads keeps the promise of AtomicStore: it starts as that
\* does, and each of its steps is one look, a move of one store, the begin
\* of a call, or nothing at all to the caller.  The peak and the height of
\* the tip, which only count confirmations, may be missing or old.
THEOREM WalkIsAtomic ==
  ASSUME RecordsGiven, MaxReorgDepth = 0
  PROVE  WalkSpec => Atomic!AtomicInit /\ [][Atomic!AtomicNext]_(Atomic!atomicVars)
<1>1. HonestInv /\ MintInv /\ [WalkNext]_walkVars
        => [Atomic!AtomicNext]_(Atomic!atomicVars)
  <2>1. CASE UNCHANGED walkVars
    <3>1. UNCHANGED <<storeVars, pc, op, id, cur, roots, reply, seen>>
      BY <2>1 DEF walkVars, callVars
    <3>2. StoreNow' = StoreNow /\ Phase' = Phase /\ Moved' = Moved /\ Told' = Told
      BY <3>1, StoreStays DEF Phase, Moved, Told, Settled, SettledKind
    <3>3. QED  BY <3>1, <3>2, AtomicVars
  <2>2. QED  BY <2>1, AtomicStep
<1>2. WalkSpec => []HonestInv
  BY Honesty, HonestInvariant
<1>3. QED  BY <1>1, <1>2, AtomicStart, MintInvariant, PTL DEF WalkSpec
=============================================================================
