--------------------------- MODULE WalkRefinement ---------------------------
(***************************************************************************)
(* A call made of many reads implements a call that takes one look.  The   *)
(* look is the read that settles the answer: the one that finds the end of *)
(* the lineage, or for a live status the one of the tip's coin record.     *)
(* Until then the call has answered nothing, and the read of the peak that *)
(* follows only adds the number of confirmations.                          *)
(***************************************************************************)
EXTENDS LineageWalk

Settled == pc \in {"peak", "done"}
SettledKind == IF pc = "peak" THEN "live" ELSE reply.kind

Atomic == INSTANCE AtomicStore WITH
  store <- [s \in Stores |-> View(LauncherCoin(s))],
  phase <- IF pc = "idle" THEN "idle" ELSE IF Settled THEN "answered" ELSE "calling",
  moved <- ~Settled /\ Cardinality(seen) > 1,
  answer <-
    IF Settled
    THEN [kind  |-> SettledKind,
          roots |-> IF SettledKind \in {"melted", "live", "history"} THEN roots ELSE << >>,
          tip   |-> IF SettledKind \in {"live", "tip"} THEN cur.path ELSE << >>]
    ELSE [kind |-> "none", roots |-> << >>, tip |-> << >>]

\* The getters keep the promise of AtomicStore: every step of a walk is
\* invisible but one, which answers from the whole lineage as it is then,
\* and that one is taken in every call ("one consistent walk",
\* store.rs:205-213).  Holds of a source that answers from a chain that
\* does not reorg.
ImplementsAtomic == Atomic!AtomicSpec
=============================================================================
