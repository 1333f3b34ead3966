------------------------------ MODULE Lineage ------------------------------
(***************************************************************************)
(* The data a DIG store is made of: metadata, singleton coins, the spends  *)
(* that recreate or melt them, and what dig-merkle's `hydrate` recovers    *)
(* from a spend.  No state; StoreChain and LineageWalk build on it.        *)
(*                                                                         *)
(* A coin id is the hash of (parent id, puzzle hash, amount), and a store  *)
(* coin's puzzle hash commits to its metadata, so two store coins have the *)
(* same id exactly when they descend from the same launcher through the    *)
(* same metadata.  A coin is therefore its own ancestry: the store it      *)
(* belongs to and the metadata of every generation up to and including it. *)
(***************************************************************************)
EXTENDS Naturals, Sequences

CONSTANTS
  Stores,   \* launcher ids, one per funding coin that could parent a launcher
  Roots,    \* merkle roots
  Sizes     \* the anchored size bucket; it stands for every metadata field a
            \* modify carries forward (size, label, description, program hash)

(***************************************************************************)
(* Rust's Option: None is the empty sequence, Some(x) is <<x>>.            *)
(***************************************************************************)
None == << >>
Some(x) == << x >>
Option(S) == {o \in Seq(S) : Len(o) \in {0, 1}}

Metadata == [root : Roots, size : Sizes]

(***************************************************************************)
(* The launcher coin has an empty path; its spend anchors generation 0.    *)
(* Every other coin is a Datastore: the coin plus what it hydrates to.     *)
(***************************************************************************)
Coin == [store : Stores, path : Seq(Metadata)]
LauncherCoin(s) == [store |-> s, path |-> << >>]
IsLauncher(coin) == coin.path = << >>
Successor(coin, m) == [store |-> coin.store, path |-> Append(coin.path, m)]

\* info.metadata of a hydrated store, and its root_hash.
MetadataOf(coin) == coin.path[Len(coin.path)]
RootsOf(path) == [i \in 1 .. Len(path) |-> path[i].root]

(***************************************************************************)
(* A spend names the coin it spends and the metadata of the child it       *)
(* recreates, None for a terminal melt.                                    *)
(***************************************************************************)
Spend == [coin : Coin, child : Option(Metadata)]

\* hydrate(spend) fails with MerkleError::MissingLineage on a melt ...
MissingLineage(spend) == spend.child = None
\* ... and otherwise yields the child store.
Hydrate(spend) == Successor(spend.coin, spend.child[1])
=============================================================================
