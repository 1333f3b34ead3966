---------------------------- MODULE StoreClient ----------------------------
(***************************************************************************)
(* The client the crate is written for (SPEC 4, dig-node): it is asked for *)
(* a store by its rootless URN, reads the anchored size and the latest     *)
(* root with two getters, downloads a capsule, opens it, checks its size,  *)
(* and keeps it under its retrieval key.                                   *)
(*                                                                         *)
(* The getters are the one-look calls of AtomicStore, which WalkRefinement *)
(* shows they are.  The store moves between and during them.  What the     *)
(* network sends is any module at all: of another store, of an older       *)
(* generation, of another length, or unreadable; several may be tried.     *)
(***************************************************************************)
EXTENDS AtomicStore, SizeProof

CONSTANTS
  Compiled,      \* Compiled[r]: length of the module its publisher compiled for r
  Lengths,       \* lengths of the modules on the network
  MaxPublished   \* bound: generations of a store

ASSUME ClientAssumption ==
  /\ Sizes = SizeBucket
  /\ Lengths \subseteq Nat
  /\ Compiled \in [Roots -> Lengths]

VARIABLES
  step,       \* of the client: "idle", "size", "root", "download" or "served"
  wanted,     \* the store URN it was asked for
  bucket,     \* the size bucket it read
  pinned,     \* the capsule URN it read
  cache,      \* modules kept, by retrieval key
  served,     \* the module it last served
  discarded,  \* the module it last discarded for its size, and the error
  atStart     \* history: the wanted store when the client began

clientVars == <<step, wanted, bucket, pinned, cache, served, discarded, atStart>>
vars == <<atomicVars, clientVars>>

-----------------------------------------------------------------------------
(* urn.rs and types.rs.  An URN names a store, or one generation of it.    *)

StoreUrn(s) == [store |-> s, root |-> None]
CapsuleUrn(s, r) == [store |-> s, root |-> Some(r)]

\* Bug: the key is derived from the store's part of the URN.
RetrievalKeyBug(urn) == [sha256 |-> StoreUrn(urn.store)]

\* retrieval_key: a hash of the whole URN, injective and never an URN.
RetrievalKey(urn) == [sha256 |-> urn]

-----------------------------------------------------------------------------
(* capsule.rs.                                                             *)

\* The reader recomputes the root, so what it can read has the root it says.
Module == [store : Stores, root : Roots, bytes : Lengths, readable : BOOLEAN]

\* get_capsule_identity, None for an error.
GetCapsuleIdentity(m) ==
  IF m.readable THEN Some([store_id |-> m.store, root_hash |-> m.root]) ELSE None

\* Bug: an identity is returned whatever store the module declares.
OpenCapsuleBug(m, expected) == GetCapsuleIdentity(m)

\* open_capsule.
OpenCapsule(m, expected) ==
  IF m.readable /\ m.store = expected THEN GetCapsuleIdentity(m) ELSE None

-----------------------------------------------------------------------------
(* The publisher.                                                          *)

\* A generation or a melt of store s.  The mint anchors the bucket of what
\* was compiled for its root; modify_store has no size to give.
Publish(s) ==
  /\ Move(s)
  /\ Len(store'[s].path) <= MaxPublished
  /\ store[s].path = << >> =>
       LET mint == store'[s].path[1] IN mint.size \in ForByteLen(Compiled[mint.root])
  /\ UNCHANGED clientVars

-----------------------------------------------------------------------------
(* The client.                                                             *)

\* A getter that projects the tip: get_store_size_bucket, get_latest_root_urn.
CallTipGetter(s) == op' = "tip" /\ id' = LauncherCoin(s) /\ Begin

TipAnswered == phase = "answered" /\ answer.kind = "tip"
Tip == answer.tip[Len(answer.tip)]

AskSize(s) ==
  /\ step \in {"idle", "served"}
  /\ CallTipGetter(s)
  /\ step' = "size" /\ wanted' = StoreUrn(s) /\ atStart' = store[s]
  /\ bucket' = None /\ pinned' = None /\ served' = None /\ discarded' = None
  /\ UNCHANGED cache

\* get_store_size_bucket has returned; a second walk is begun.  Its None, for
\* a store minted without a size, is left out: create_store always gives one
\* (lifecycle.rs:124), and without one there is no size to check.
AskRoot ==
  /\ step = "size" /\ TipAnswered
  /\ bucket' = Some(Tip.size)
  /\ CallTipGetter(wanted.store)
  /\ step' = "root"
  /\ UNCHANGED <<wanted, pinned, cache, served, discarded, atStart>>

\* get_latest_root_urn has returned: serve what is kept for it, or fetch it.
LookUp ==
  /\ step = "root" /\ TipAnswered
  /\ LET urn == CapsuleUrn(wanted.store, Tip.root)
         key == RetrievalKey(urn)
     IN /\ pinned' = Some(urn)
        /\ IF key \in DOMAIN cache
           THEN step' = "served" /\ served' = Some(cache[key])
           ELSE step' = "download" /\ UNCHANGED served
  /\ UNCHANGED <<atomicVars, wanted, bucket, cache, discarded, atStart>>

\* A getter refused.
GiveUp ==
  /\ step \in {"size", "root"} /\ phase = "answered" /\ answer.kind = "error"
  /\ step' = "idle"
  /\ UNCHANGED <<atomicVars, wanted, bucket, pinned, cache, served, discarded, atStart>>

\* open_capsule binds the store; the root is the caller's to compare.
IsPinned(m) ==
  LET opened == OpenCapsule(m, wanted.store) IN
  opened # None /\ opened[1].root_hash = pinned[1].root[1]

Reject(m) ==
  /\ ~IsPinned(m)
  /\ UNCHANGED <<step, cache, served, discarded>>

\* SizeProof::require refuses its length: neither kept nor served.
Discard(m) ==
  /\ IsPinned(m)
  /\ LET checked == Require(bucket[1], m.bytes) IN
     checked.kind # "Ok" /\ discarded' = Some([module |-> m, error |-> checked])
  /\ UNCHANGED <<step, cache, served>>

\* Bug: the capsule's URN itself is used as the key.
KeyBug(identity) == CapsuleUrn(identity.store_id, identity.root_hash)

\* The retrieval key of CapsuleIdentity::capsule_urn.
Key(identity) == RetrievalKey(CapsuleUrn(identity.store_id, identity.root_hash))

Keep(m) ==
  /\ IsPinned(m) /\ Require(bucket[1], m.bytes).kind = "Ok"
  /\ step' = "served" /\ served' = Some(m)
  /\ LET key == Key(OpenCapsule(m, wanted.store)[1]) IN
     cache' = [k \in DOMAIN cache \cup {key} |-> IF k = key THEN m ELSE cache[k]]
  /\ UNCHANGED discarded

Receive(m) ==
  /\ step = "download"
  /\ Reject(m) \/ Discard(m) \/ Keep(m)
  /\ UNCHANGED <<atomicVars, wanted, bucket, pinned, atStart>>

\* No source has the capsule.
Abandon ==
  /\ step = "download"
  /\ step' = "idle"
  /\ UNCHANGED <<atomicVars, wanted, bucket, pinned, cache, served, discarded, atStart>>

-----------------------------------------------------------------------------
Init ==
  /\ op = "tip" /\ id \in {LauncherCoin(s) : s \in Stores}
  /\ AtomicInit
  /\ step = "idle" /\ wanted \in {StoreUrn(s) : s \in Stores}
  /\ bucket = None /\ pinned = None /\ served = None /\ discarded = None
  /\ cache = << >>
  /\ atStart = [path |-> << >>, melted |-> FALSE]

Client ==
  \/ \E s \in Stores : AskSize(s)
  \/ AskRoot \/ LookUp \/ GiveUp \/ Abandon
  \/ \E m \in Module : Receive(m)

Next ==
  \/ \E s \in Stores : Publish(s)
  \/ Look /\ UNCHANGED clientVars
  \/ Client

Spec == Init /\ [][Next]_vars

-----------------------------------------------------------------------------
(* Properties.                                                             *)

\* The type invariant of the client.
ClientTypeOK ==
  /\ store \in [Stores -> [path : Seq(Metadata), melted : BOOLEAN]]
  /\ step \in {"idle", "size", "root", "download", "served"}
  /\ wanted \in {StoreUrn(s) : s \in Stores}
  /\ bucket \in Option(Sizes)
  /\ pinned \in Option({CapsuleUrn(s, r) : s \in Stores, r \in Roots})
  /\ DOMAIN cache \subseteq {RetrievalKey(CapsuleUrn(s, r)) : s \in Stores, r \in Roots}
  /\ \A key \in DOMAIN cache : cache[key] \in Module
  /\ served \in Option(Module)
  /\ discarded # None => discarded[1].module \in Module

\* Generation i of m's store anchored both m's root and its size.
CommittedAs(m, i) ==
  /\ store[m.store].path[i].root = m.root
  /\ InInterval(store[m.store].path[i].size, m.bytes)

\* A node keeps only what one generation of the store committed to, root
\* and size together (SPEC 4), although it read the bucket and the root
\* with two walks between which the store may have got new generations
\* (store.rs:42-52, 170-178).
KeptIsCommitted ==
  \A key \in DOMAIN cache :
    \E i \in DOMAIN store[cache[key].store].path : CommittedAs(cache[key], i)

\* What is served for a store is that store's capsule, and was its latest
\* generation at some moment since the client was asked; a store melted
\* before that is not served.  open_capsule does not check the root
\* (capsule.rs:65-66), so the caller's comparison and a retrieval key that has
\* the root in it must keep older generations out.
ServedIsCurrent ==
  step = "served" =>
    /\ served[1].store = wanted.store
    /\ ~atStart.melted
    /\ \E i \in DOMAIN store[wanted.store].path :
         i >= Len(atStart.path) /\ store[wanted.store].path[i].root = served[1].root

\* The error of a discarded module names two different buckets: the one
\* that the whole lineage anchors, mint to tip, and that of the module's
\* own length, or the one over the ceiling if it has none (size.rs:69-74).
ErrorIsTelling ==
  discarded # None =>
    LET m == discarded[1].module
        e == discarded[1].error
    IN /\ \A i \in DOMAIN store[m.store].path : store[m.store].path[i].size = e.anchored_k
       /\ e.actual_k # e.anchored_k
       /\ IF m.bytes > ByteLen[MaxExponent] THEN e.actual_k = OverCeiling
          ELSE e.actual_k \in SizeBucket /\ InInterval(e.actual_k, m.bytes)

\* "A wrong-size artifact is never what the store committed to"
\* (size.rs:48-50), with its one exception: what the publisher compiled for
\* a root is discarded only if a modify anchored that root, and the module
\* has outgrown, or shrunk below, the bucket modify_store carries over from
\* the mint (lifecycle.rs:148-151).
DiscardedIsOutgrown ==
  discarded # None =>
    LET m == discarded[1].module
        mint == store[m.store].path[1]
    IN m.bytes = Compiled[m.root] => m.root # mint.root /\ ~InInterval(mint.size, m.bytes)
=============================================================================
