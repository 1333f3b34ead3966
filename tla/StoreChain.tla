---------------------------- MODULE StoreChain ----------------------------
(***************************************************************************)
(* The write side: the spend builders of lifecycle.rs, and the chain their *)
(* unsigned spends end up on.                                              *)
(*                                                                         *)
(* The builders are pure: a call returns an unsigned spend and the child   *)
(* datastore it will create, and nothing checks that the datastore handed  *)
(* in is the confirmed tip.  `built` collects what calls have returned;    *)
(* whoever holds such a spend may sign and push it at any later time, any  *)
(* number of times, and it may never confirm.                              *)
(*                                                                         *)
(* The chain is not this crate's code.  It is modelled from how the crate  *)
(* uses it: a coin is spent at most once, only after it was created, and a *)
(* reorg of bounded depth may undo recent blocks.                          *)
(***************************************************************************)
EXTENDS Lineage, Integers, FiniteSets

CONSTANTS
  MaxHeight,      \* bound: the chain stops growing here
  MaxBuilt,       \* bound: number of spends built
  MaxReorgDepth   \* how many blocks a reorg may undo, 0 for none

ASSUME BoundsAssumption == {MaxHeight, MaxBuilt, MaxReorgDepth} \subseteq Nat

VARIABLES
  gens,      \* gens[s]: metadata of the confirmed generations, oldest first
  born,      \* born[s][i]: height at which generation i was confirmed
  meltedAt,  \* meltedAt[s]: height of the terminal melt, None while open
  peak,      \* height of the chain
  built      \* every spend the builders have returned

chainVars == <<gens, born, meltedAt, peak>>
storeVars == <<chainVars, built>>

-----------------------------------------------------------------------------
(* The chain's own view of coins.                                          *)

Melted(s) == meltedAt[s] # None
\* The latest confirmed coin of s: its launcher while s is not created.
LatestCoin(s) == [store |-> s, path |-> gens[s]]
\* The coin exists on chain / has been spent on chain.
Created(coin) == /\ Len(coin.path) <= Len(gens[coin.store])
                 /\ coin.path = SubSeq(gens[coin.store], 1, Len(coin.path))
Spent(coin) == /\ Created(coin)
               /\ \/ Len(coin.path) < Len(gens[coin.store])
                  \/ Melted(coin.store)

\* The spend that spent a coin.
SpendOf(coin) ==
  [coin |-> coin,
   child |-> IF Len(coin.path) < Len(gens[coin.store])
             THEN Some(gens[coin.store][Len(coin.path) + 1])
             ELSE None]

-----------------------------------------------------------------------------
(* lifecycle.rs.  Each builder adds the spend it returns to `built`.       *)

Return(spend) ==
  /\ Cardinality(built) < MaxBuilt
  /\ built' = built \cup {spend}
  /\ UNCHANGED chainVars

\* The datastores a caller can hold: the child each builder call returned.
\* A confirmed tip read back from chain is one of them.
Held == {Hydrate(spend) : spend \in {b \in built : ~MissingLineage(b)}}

\* Bug: the launch anchors the root alone.
CreateStoreBug(s, params) ==
  Return([coin |-> LauncherCoin(s), child |-> Some([root |-> params.root])])

\* create_store: the parent coin fixes the launcher id s, so creating twice
\* from the same parent builds two spends of the same launcher.
CreateStore(s, params) ==
  Return([coin |-> LauncherCoin(s), child |-> Some(params)])

\* Bug: the caller's metadata replaces the store's.
ModifyStoreBug(ds, newRoot) ==
  \E m \in Metadata :
    m.root = newRoot /\ Return([coin |-> ds, child |-> Some(m)])

\* modify_store: a new root, every other metadata field carried forward.
ModifyStore(ds, newRoot) ==
  Return([coin |-> ds, child |-> Some([MetadataOf(ds) EXCEPT !.root = newRoot])])

\* melt_store: a spend with no successor.
MeltStore(ds) == Return([coin |-> ds, child |-> None])

Build ==
  \/ \E s \in Stores, params \in Metadata : CreateStore(s, params)
  \/ \E ds \in Held : \/ \E r \in Roots : ModifyStore(ds, r)
                      \/ MeltStore(ds)

-----------------------------------------------------------------------------
(* The chain.  One block holds at most one spend of a store.               *)

\* A block confirms a spend that was signed and pushed, if its coin is
\* the unspent latest coin of its store.
Confirm(spend) ==
  LET s == spend.coin.store IN
  /\ peak < MaxHeight
  /\ spend.coin = LatestCoin(s) /\ ~Melted(s)
  /\ peak' = peak + 1
  /\ IF MissingLineage(spend)
     THEN /\ meltedAt' = [meltedAt EXCEPT ![s] = Some(peak + 1)]
          /\ UNCHANGED <<gens, born>>
     ELSE /\ gens' = [gens EXCEPT ![s] = Append(@, spend.child[1])]
          /\ born' = [born EXCEPT ![s] = Append(@, peak + 1)]
          /\ UNCHANGED meltedAt
  /\ UNCHANGED built

\* A block with no store spend in it.
EmptyBlock ==
  /\ peak < MaxHeight
  /\ peak' = peak + 1
  /\ UNCHANGED <<gens, born, meltedAt, built>>

\* How many generations of s were confirmed at height f or below.
Kept(s, f) == Cardinality({i \in DOMAIN born[s] : born[s][i] <= f})

\* The chain switches to a longer branch that leaves it at height f.  The
\* undone spends stay in `built` and may confirm again, or lose to others.
Reorg(f) ==
  /\ peak < MaxHeight
  /\ peak - f <= MaxReorgDepth
  /\ peak' = peak + 1
  /\ gens' = [s \in Stores |-> SubSeq(gens[s], 1, Kept(s, f))]
  /\ born' = [s \in Stores |-> SubSeq(born[s], 1, Kept(s, f))]
  /\ meltedAt' = [s \in Stores |->
                    IF Melted(s) /\ meltedAt[s][1] > f THEN None ELSE meltedAt[s]]
  /\ UNCHANGED built

Grow == EmptyBlock \/ \E spend \in built : Confirm(spend)
AnyReorg == \E f \in 0 .. peak - 1 : Reorg(f)

-----------------------------------------------------------------------------
ChainInit ==
  /\ gens = [s \in Stores |-> << >>]
  /\ born = [s \in Stores |-> << >>]
  /\ meltedAt = [s \in Stores |-> None]
  /\ peak = 0
  /\ built = {}

ChainNext == Build \/ Grow \/ AnyReorg

ChainSpec == ChainInit /\ [][ChainNext]_storeVars

-----------------------------------------------------------------------------
(* Properties.                                                             *)

\* The type invariant of the write side.
ChainTypeOK ==
  /\ gens \in [Stores -> Seq(Metadata)]
  /\ born \in [Stores -> Seq(Nat)]
  /\ \A s \in Stores : Len(born[s]) = Len(gens[s])
  /\ meltedAt \in [Stores -> Option(Nat)]
  /\ peak \in Nat
  /\ built \subseteq Spend

\* modify_store carries forward every field but the root.  So, whatever
\* was built from stale or unconfirmed datastores, whatever confirmed, was
\* undone and confirmed again, all generations of a store agree with the
\* metadata its launch anchored (lifecycle.rs:148-151, SPEC 3.2).
MetadataIsMintTime ==
  \A s \in Stores : \A i \in DOMAIN gens[s] : gens[s][i].size = gens[s][1].size
=============================================================================
