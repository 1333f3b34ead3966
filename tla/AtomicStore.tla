---------------------------- MODULE AtomicStore ----------------------------
(***************************************************************************)
(* What the getters of store.rs promise their caller, with the walk        *)
(* forgotten: a store is a lineage that grows and is finally closed, and a *)
(* call takes one look at it and answers from that look alone.  The one    *)
(* liberty left to a call is that a status may be refused if the store     *)
(* moved while it was asked for.                                           *)
(*                                                                         *)
(* WalkRefinement shows that LineageWalk, whose calls make a read for      *)
(* every generation, implements this.                                      *)
(***************************************************************************)
EXTENDS Lineage

CONSTANT MaxGenerations

VARIABLES
  store,   \* store[s]: the metadata of its generations, and if it is melted
  phase,   \* of the caller: "idle", "calling" or "answered"
  op, id,  \* the getter called, and the coin whose id was passed
  moved,   \* the store asked for changed since the call began
  answer   \* what the call answered

atomicVars == <<store, phase, op, id, moved, answer>>

Ops == {"tip", "history", "status"}
NoAnswer == [kind |-> "none", roots |-> << >>, tip |-> << >>]

-----------------------------------------------------------------------------
(* The store.                                                              *)

\* Bug: a modify anchors whatever metadata its caller passes.
MoveBug(s) ==
  /\ ~store[s].melted
  /\ \/ \E m \in Metadata : store' = [store EXCEPT ![s].path = Append(@, m)]
     \/ store[s].path # << >> /\ store' = [store EXCEPT ![s].melted = TRUE]
  /\ moved' = (moved \/ (phase = "calling" /\ id = LauncherCoin(s)))
  /\ UNCHANGED <<phase, op, id, answer>>

\* Store s gets a generation, with the metadata of its launch and any root,
\* or is melted.
Move(s) ==
  /\ ~store[s].melted
  /\ \/ \E m \in Metadata :
          /\ store[s].path # << >> => m.size = store[s].path[1].size
          /\ store' = [store EXCEPT ![s].path = Append(@, m)]
     \/ store[s].path # << >> /\ store' = [store EXCEPT ![s].melted = TRUE]
  /\ moved' = (moved \/ (phase = "calling" /\ id = LauncherCoin(s)))
  /\ UNCHANGED <<phase, op, id, answer>>

-----------------------------------------------------------------------------
(* The call.                                                               *)

Begin ==
  /\ phase # "calling"
  /\ phase' = "calling"
  /\ op' \in Ops /\ id' \in Coin
  /\ moved' = FALSE /\ answer' = NoAnswer
  /\ UNCHANGED store

Give(kind, roots, tip) ==
  /\ phase = "calling"
  /\ phase' = "answered"
  /\ answer' = [kind |-> kind, roots |-> roots, tip |-> tip]
  /\ moved' = FALSE
  /\ UNCHANGED <<store, op, id>>

Refuse == Give("error", << >>, << >>)

\* The store asked for, an empty one if the id is not a launcher's.
Asked == IF IsLauncher(id) THEN store[id.store] ELSE [path |-> << >>, melted |-> FALSE]
Length == Len(Asked.path)
InReach == Length > 0 /\ Length <= MaxGenerations

\* walk_lineage: the getters but the status refuse an absent store.
LookAtAbsent == Length = 0 /\ op # "status" /\ Refuse

\* get_store_singleton_tip: a melted store has none.
LookForTip ==
  /\ op = "tip" /\ InReach
  /\ IF Asked.melted THEN Refuse ELSE Give("tip", << >>, Asked.path)

\* get_root_history, live or melted.
LookForHistory == op = "history" /\ InReach /\ Give("history", RootsOf(Asked.path), << >>)

\* get_store_status; the refusal is that of its cross-check.
LookForStatus ==
  /\ op = "status"
  /\ \/ Length = 0 /\ Give("not_found", << >>, << >>)
     \/ InReach /\ Asked.melted /\ Give("melted", RootsOf(Asked.path), << >>)
     \/ InReach /\ ~Asked.melted /\ Give("live", RootsOf(Asked.path), Asked.path)
     \/ moved /\ Refuse

Look ==
  \/ LookAtAbsent \/ LookForTip \/ LookForHistory \/ LookForStatus
  \/ Length > MaxGenerations /\ Refuse
  \/ ~IsLauncher(id) /\ Refuse

-----------------------------------------------------------------------------
AtomicInit ==
  /\ store = [s \in Stores |-> [path |-> << >>, melted |-> FALSE]]
  /\ phase = "idle"
  /\ op \in Ops /\ id \in Coin
  /\ moved = FALSE /\ answer = NoAnswer

AtomicNext == (\E s \in Stores : Move(s)) \/ Begin \/ Look

\* Every call is answered.  A look is possible as long as a call waits, so
\* this asks of a call no more than weak fairness of Look.
AtomicSpec == /\ AtomicInit /\ [][AtomicNext]_atomicVars
              /\ phase = "calling" ~> phase = "answered"
=============================================================================
