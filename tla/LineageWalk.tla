---------------------------- MODULE LineageWalk ----------------------------
(***************************************************************************)
(* The read side: one caller of the on-chain getters of store.rs, walking  *)
(* a store's lineage through a ChainSource while the chain moves.          *)
(*                                                                         *)
(* Every getter makes one read after another (`coin_spend` per generation, *)
(* then for get_store_status `coin_record` and `peak_height`); any number  *)
(* of blocks may land between two reads, and every read is a step here.    *)
(* Calls share no state, so one call at a time stands for any number.      *)
(*                                                                         *)
(* The source is the caller's.  It answers from the chain; CONSTANT Faults *)
(* says in which ways it may also misbehave.                               *)
(***************************************************************************)
EXTENDS StoreChain

CONSTANTS
  MaxGenerations,      \* MAX_LINEAGE_GENERATIONS
  ConfirmationTarget,  \* the confirmation_target a status caller passes
  Faults               \* how the source may misbehave

FaultKinds == {
  "error",       \* a read fails, or returns a spend that does not hydrate
  "missing",     \* coin_spend answers None for a spent coin
  "wrong_coin",  \* coin_spend answers with the spend of another coin
  "fabricated",  \* coin_spend answers with a spend that never happened
  "no_record",   \* coin_record answers None for an existing coin
  "no_height",   \* the record lacks its confirmed height
  "no_peak",     \* peak_height answers None
  "stale_peak"}  \* peak_height answers with an earlier height

ASSUME WalkAssumption ==
  MaxGenerations \in Nat /\ ConfirmationTarget \in Nat /\ Faults \subseteq FaultKinds

VARIABLES
  pc,       \* which read the call makes next
  op,       \* the getter called
  id,       \* the coin whose id was passed as store_id
  cur,      \* `current`, the generation hydrated last
  roots,    \* `roots`, pushed so far
  record,   \* the tip's coin record
  reply,    \* what the call returned; with it go `cur` and `roots`
  seen,     \* history: the states store `id` was in during the call
  reorged   \* history: a reorg came between the record and the peak read

callVars == <<pc, op, id, cur, roots, record, reply>>
walkVars == <<storeVars, callVars, seen, reorged>>

\* get_store_singleton_tip (and the projections of it), get_root_history,
\* get_store_status.
Ops == {"tip", "history", "status"}
Reading == {"launcher", "hop", "record", "peak"}

CoinRecord == [spent : BOOLEAN, height : Option(Nat)]
Reply == [kind : {"none", "error", "not_found", "melted", "live", "tip", "history"},
          verified : BOOLEAN,
          have : Option(Nat)]   \* confirmations.have

-----------------------------------------------------------------------------
(* The source.                                                             *)

OnChain == UNION {{[store |-> s, path |-> SubSeq(gens[s], 1, i)] : i \in 0 .. Len(gens[s])}
                    : s \in Stores}

If(fault, answers) == IF fault \in Faults THEN answers ELSE {}

CoinSpend(coin) ==
  {IF Spent(coin) THEN Some(SpendOf(coin)) ELSE None}
    \cup If("missing", {None})
    \cup If("wrong_coin", {Some(SpendOf(c)) : c \in {d \in OnChain : Spent(d)}})
    \cup If("fabricated", {Some([coin |-> coin, child |-> Some(m)]) : m \in Metadata}
                            \cup {Some([coin |-> coin, child |-> None])})

CoinRecordOf(coin) ==
  LET height == Some(born[coin.store][Len(coin.path)]) IN
  IF ~Created(coin) THEN {None}
  ELSE {Some([spent |-> Spent(coin), height |-> height])}
         \cup If("no_record", {None})
         \cup If("no_height", {Some([spent |-> Spent(coin), height |-> None])})

PeakHeight ==
  {Some(peak)} \cup If("no_peak", {None})
               \cup If("stale_peak", {Some(h) : h \in 0 .. peak})

-----------------------------------------------------------------------------
(* The call.                                                               *)

\* A fresh call of getter o.  Nothing checks that the id passed in is the
\* id of a launcher; it may as well be that of a later coin of a store.
StartCall(o, coin) ==
  /\ pc \in {"idle", "done"}
  /\ pc' = "launcher"
  /\ op' = o /\ id' = coin /\ cur' = coin
  /\ roots' = << >> /\ record' = None
  /\ reply' = [kind |-> "none", verified |-> FALSE, have |-> None]

Answer(kind) ==
  /\ pc' = "done"
  /\ reply' = [kind |-> kind, verified |-> FALSE, have |-> None]
  /\ UNCHANGED <<op, id, record>>

ProofError == Answer("error") /\ UNCHANGED <<cur, roots>>

\* What each getter makes of NotFound and Melted; of Live, the status
\* getter goes on to read the tip's record.
NotFound == /\ Answer(IF op = "status" THEN "not_found" ELSE "error")
            /\ UNCHANGED <<cur, roots>>
MeltedAs == [status |-> "melted", history |-> "history", tip |-> "error"]
LiveTip == \/ op # "status" /\ Answer(op)
           \/ /\ op = "status" /\ pc' = "record"
              /\ UNCHANGED <<op, id, record, reply>>

\* Bug: a failed read starts the walk over.
ReadFailsBug ==
  /\ pc \in Reading /\ "error" \in Faults
  /\ pc' = "launcher" /\ cur' = id /\ roots' = << >> /\ record' = None
  /\ UNCHANGED <<op, id, reply>>

\* Any read fails: DigStoreError::Proof.
ReadFails ==
  /\ pc \in Reading /\ "error" \in Faults
  /\ ProofError

\* read_verified_spend(store_id), then hydrate and the launcher_id check.
ReadLauncher ==
  /\ pc = "launcher"
  /\ \E spend \in CoinSpend(id) :
       \/ spend = None /\ NotFound
       \/ /\ spend # None
          /\ \/ spend[1].coin # id
             \/ MissingLineage(spend[1])
             \/ LauncherCoin(spend[1].coin.store) # id
          /\ ProofError
       \/ /\ spend # None
          /\ spend[1].coin = id
          /\ ~MissingLineage(spend[1])
          /\ LauncherCoin(spend[1].coin.store) = id
          /\ cur' = Hydrate(spend[1])
          /\ pc' = "hop"
          /\ UNCHANGED <<op, id, roots, record, reply>>

\* Bug: the cap refuses a lineage that is exactly as long as it.
OverCapBug == pc = "hop" /\ Len(roots) + 1 >= MaxGenerations /\ ProofError

\* One turn of the loop: the cap, the push, then the read of the spend of
\* `current`, which is the tip, was melted, or was recreated as its child.
OverCap ==
  /\ pc = "hop" /\ Len(roots) >= MaxGenerations
  /\ ProofError

Push ==
  /\ pc = "hop" /\ Len(roots) < MaxGenerations
  /\ roots' = Append(roots, MetadataOf(cur).root)

\* Bug: the coin of the returned spend is not compared.
WrongSpendBug(spend) == FALSE

WrongSpend(spend) == spend # None /\ spend[1].coin # cur

ReachTip ==
  /\ Push
  /\ None \in CoinSpend(cur)
  /\ LiveTip
  /\ UNCHANGED cur

RejectHop ==
  /\ Push
  /\ \E spend \in CoinSpend(cur) : WrongSpend(spend)
  /\ Answer("error")
  /\ UNCHANGED cur

ReachMelt ==
  /\ Push
  /\ \E spend \in CoinSpend(cur) :
       spend # None /\ ~WrongSpend(spend) /\ MissingLineage(spend[1])
  /\ Answer(MeltedAs[op])
  /\ UNCHANGED cur

Advance ==
  /\ Push
  /\ \E spend \in CoinSpend(cur) :
       /\ spend # None /\ ~WrongSpend(spend) /\ ~MissingLineage(spend[1])
       /\ cur' = Hydrate(spend[1])
  /\ UNCHANGED <<pc, op, id, record, reply>>

Hop == OverCap \/ ReachTip \/ RejectHop \/ ReachMelt \/ Advance

\* Bug: the status getter resolves the tip a second time.
ReadRecordBug ==
  /\ pc = "record"
  /\ cur' = LatestCoin(cur.store)
  /\ record' \in CoinRecordOf(cur')
  /\ pc' = "peak"
  /\ UNCHANGED <<op, id, roots, reply>>

\* get_store_status: the tip's record must not contradict the walk.
ReadRecord ==
  /\ pc = "record"
  /\ \E rec \in CoinRecordOf(cur) :
       \/ rec # None /\ rec[1].spent /\ ProofError
       \/ /\ rec # None => ~rec[1].spent
          /\ record' = rec
          /\ pc' = "peak"
          /\ UNCHANGED <<op, id, cur, roots, reply>>

\* Bugs: the subtraction underflows, wraps around, or counts the tip's block.
PlainSub(a, b) == a - b
WrappingSub(a, b) == (a - b) % 16
InclusiveSub(a, b) == IF a >= b THEN a - b + 1 ELSE 0

SaturatingSub(a, b) == IF a >= b THEN a - b ELSE 0

\* Bug: a tip without a record counts as verified.
VerifiedBug == record = None \/ ~record[1].spent

Verified == record # None /\ ~record[1].spent

ReadPeak ==
  /\ pc = "peak"
  /\ \E p \in PeakHeight :
       reply' = [kind |-> "live",
                 verified |-> Verified,
                 have |-> IF p # None /\ record # None /\ record[1].height # None
                          THEN Some(SaturatingSub(p[1], record[1].height[1]))
                          ELSE None]
  /\ pc' = "done"
  /\ UNCHANGED <<op, id, cur, roots, record>>

Read == ReadFails \/ ReadLauncher \/ Hop \/ ReadRecord \/ ReadPeak

-----------------------------------------------------------------------------
\* What there is to see of the store an id names; an id that is not a
\* launcher's names no store.
View(coin) ==
  IF IsLauncher(coin)
  THEN [path |-> gens[coin.store], melted |-> Melted(coin.store)]
  ELSE [path |-> << >>, melted |-> FALSE]

ChainMoves ==
  /\ \/ (Build \/ Grow) /\ UNCHANGED reorged
     \/ AnyReorg /\ reorged' = (reorged \/ pc = "peak")
  /\ UNCHANGED callVars
  /\ seen' = IF pc \in Reading THEN seen \cup {View(id)'} ELSE seen

CallSteps ==
  /\ \/ /\ \E o \in Ops, coin \in {LauncherCoin(s) : s \in Stores} \cup OnChain :
             StartCall(o, coin) /\ seen' = {View(coin)}
        /\ reorged' = FALSE
     \/ Read /\ UNCHANGED <<seen, reorged>>
  /\ UNCHANGED storeVars

WalkInit ==
  /\ ChainInit
  /\ pc = "idle" /\ op = "tip"
  /\ id \in {LauncherCoin(s) : s \in Stores} /\ cur = id
  /\ roots = << >> /\ record = None
  /\ reply = [kind |-> "none", verified |-> FALSE, have |-> None]
  /\ seen = {} /\ reorged = FALSE

WalkNext == ChainMoves \/ CallSteps

WalkSpec == WalkInit /\ [][WalkNext]_walkVars

\* A getter is a straight-line loop over synchronous reads: once called it
\* keeps running.  Nothing obliges anyone to call, to build or to mine.
FairWalkSpec == WalkSpec /\ WF_walkVars(Read /\ UNCHANGED <<storeVars, seen, reorged>>)

-----------------------------------------------------------------------------
(* Properties.                                                             *)

\* The type invariant.
WalkTypeOK ==
  /\ ChainTypeOK
  /\ pc \in Reading \cup {"idle", "done"}
  /\ op \in Ops
  /\ id \in Coin /\ cur \in Coin
  /\ roots \in Seq(Roots)
  /\ record \in Option(CoinRecord)
  /\ reply \in Reply
  /\ reorged \in BOOLEAN
  /\ \A v \in seen : v \in [path : Seq(Metadata), melted : BOOLEAN]

\* State v of the store accounts for all that a successful call returned.
Explains(v) ==
  /\ reply.kind = "not_found" => v.path = << >>
  /\ reply.kind \in {"melted", "live", "history"} =>
       /\ v.path # << >> /\ Len(v.path) <= MaxGenerations
       /\ roots = RootsOf(v.path)
  /\ reply.kind \in {"live", "tip"} =>
       /\ LauncherCoin(cur.store) = id
       /\ v.path = cur.path /\ Len(v.path) <= MaxGenerations
  /\ reply.kind = "melted" => v.melted
  /\ reply.kind \in {"live", "tip"} => ~v.melted

\* Reads of a moving chain look atomic: although blocks land between any
\* two reads, what a successful call returns was true of the store, all of
\* it together, at one moment of the call ("one consistent walk",
\* store.rs:205-213).  Holds of a source that answers from a chain that
\* does not reorg.
Linearizable ==
  pc = "done" /\ reply.kind # "error" => \E v \in seen : Explains(v)

\* A source whose answers are right causes no spurious refusal, reorgs or
\* not: Proof is returned for an id that is no store, for an absent store,
\* for a melted one asked for its tip, for one with more than the cap of
\* generations, or by the status cross-check when the store moved during
\* the call (store.rs:268-276).
ErrorsAreJustified ==
  pc = "done" /\ reply.kind = "error" =>
    \/ ~IsLauncher(id)
    \/ \E v \in seen : \/ Len(v.path) > MaxGenerations
                       \/ op # "status" /\ v.path = << >>
                       \/ op = "tip" /\ v.melted
    \/ op = "status" /\ Cardinality(seen) > 1

\* Whatever the source answers to coin_spend, and through any reorg: a
\* status that says verified describes a state the requested store was
\* really in during the call, down to its root history, tip and live-ness.
\* The walk alone cannot promise this; the identity checks on every hop and
\* the coin record of the tip do (store.rs:408-427, 264-290).
VerifiedIsReal ==
  pc = "done" /\ reply.verified => \E v \in seen : Explains(v)

\* A source that withholds spends or swaps them for those of other coins
\* can make an answer stale, never wrong: the roots reported are the oldest
\* roots of the very store asked for, all of them if it is reported melted
\* (the identity proof, store.rs:408-427).  The chain does not reorg.
StaleNeverWrong ==
  pc = "done" /\ reply.kind \in {"melted", "live", "tip", "history"} =>
    /\ IsLauncher(id)
    /\ Len(roots) <= Len(gens[id.store])
    /\ roots = SubSeq(RootsOf(gens[id.store]), 1, Len(roots))
    /\ reply.kind = "melted" => Melted(id.store) /\ Len(roots) = Len(gens[id.store])

\* A lagging peak, a missing height or a block between the two reads never
\* make a tip look deeper than it is (saturating_sub, store.rs:282-285).
\* The chain does not reorg.
NeverOverstated ==
  pc = "done" /\ reply.have # None =>
    reply.have[1] <= peak - born[cur.store][Len(cur.path)]

\* Once a status reports as many confirmations as the caller's target, and
\* no reorg is deeper than that target, the tip it reported is in the
\* store's history for good.  The record and the peak are two reads, so
\* this needs that no reorg came between them.
SettledIsFinal ==
  pc = "done" /\ reply.have # None /\ reply.verified /\ ~reorged
    /\ reply.have[1] >= ConfirmationTarget /\ ConfirmationTarget >= MaxReorgDepth
  => cur \in OnChain

\* No source, not even one that makes up recreations without end, can keep
\* a call from returning (the cap, store.rs:359-365).
WalkTerminates == pc \in Reading ~> pc = "done"

\* "fail-closed at every missing hop" (store.rs:14-15, SPEC 129): a walk
\* that a source answers None for a coin that was spent returns no tip
\* older than every state the store was in during the call.
MissingHopFailsClosed ==
  pc = "done" /\ reply.kind = "tip" => \E v \in seen : v.path = cur.path
=============================================================================
