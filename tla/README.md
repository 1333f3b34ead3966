# dig-store in TLA+

A formal model of `dig-store`, the crate that creates, updates, closes and reads
DIG stores on the Chia blockchain. This directory holds the specifications, the
configurations TLC checks, and proofs checked by TLAPS.

## The system

A *store* is a singleton on chain. It is launched with metadata (a merkle root,
a size bucket, optional label, description and program hash); each *modify*
spends its latest coin and recreates it with a new root; a *melt* spends it
without a successor. The crate itself keeps no state and owns no network, thread
or clock. What makes it hard is what it stands between: spends that are built
now and confirmed later, or never, and a chain that moves while it is read one
coin at a time through a source that may not be truthful.

| part | source | state | operations | models |
|---|---|---|---|---|
| spend builders | `lifecycle.rs` | none; returns unsigned spends | `create_store`, `modify_store`, `melt_store` | `StoreChain` |
| lineage walk, on-chain getters | `store.rs` | local to a call: current generation, roots, record | tip and its projections, root history, status | `LineageWalk` |
| owner DID | `store.rs:81`, logic in dig-merkle | none | one call | not modelled |
| size proof | `size.rs` | none | `verify`, `require` | `SizeProof`, `StoreClient` |
| capsule getters | `capsule.rs` | none | `get_capsule_identity`, `open_capsule` | `StoreClient` |
| URNs | `urn.rs` | none | `store_urn`, `capsule_urn`, `retrieval_key` | `StoreClient`, without the strings |
| types, errors | `types.rs`, `error.rs` | none | | replies of `LineageWalk` and `StoreClient` |
| chain and `ChainSource` | external | coins, heights | confirm, reorg; `coin_spend`, `coin_record`, `peak_height` | `StoreChain`, `LineageWalk` |
| release pipeline | `.github/workflows/release.yml`, `publish.yml`, `ensure-version-increment.yml` | branch, tags, queue, crates | merge, release run, publish run, rerun | `ReleasePipeline` |
| lockfile gate | `scripts/check-lockfile-version.py` | none | one decision | `LockfileGate` |

Interaction: an owner reads a tip with a getter, hands it to a builder, signs and
pushes the spend; blocks confirm it or a competing one; readers walk the result.
Readers share no state with each other. Every link is asynchronous: the tip handed
to a builder may be stale, and the chain may move between any two reads of a walk.
A client of the crate (SPEC 4) pairs two getters, each a walk of its own, with
downloads from anyone. Beside the crate, and apart from it, its repository releases
itself: concurrent workflow runs that push to one branch, where any step may fail
and be run again.

What makes each part correct:

- *builders*: whatever datastore they are given, the store keeps its mint's
  metadata but for the root, and a melt ends it.
- *walk*: the answer put together from many reads was true of the requested store
  at one moment; failing that, it is no worse than the source's faults allow; no
  source can hang it; it refuses only with cause.
- *status*: `verified` means what it says, confirmations are never overstated,
  and a tip that reached the target stays.
- *size proof*: a length is accepted for exactly one bucket, and a mismatch tells
  which.
- *capsule getters, URNs, client*: what a client keeps is what one generation
  committed to, what it serves is current, and what was published is not discarded.
- *release*: a tag is on the branch, on a commit whose lock matches; what is released
  was published from there; the newest version gets that far.
- *lockfile gate*: green means in sync, and which red ones a re-lock makes green.

## Modules

| module | what it is |
|---|---|
| `Lineage` | data: metadata, coins, spends, what hydrating a spend yields |
| `StoreChain` | the builders and the chain; extends `Lineage` |
| `LineageWalk` | a getter call reading that chain; extends `StoreChain` |
| `AtomicStore` | what a call promises: one look at the store |
| `WalkRefinement` | the refinement mapping from `LineageWalk` to `AtomicStore` |
| `SizeProof` | the bucket ladder and the size check; operators only |
| `StoreClient` | a client that reads, downloads, opens, checks, keeps and serves; extends `AtomicStore` and `SizeProof` |
| `ReleasePipeline` | merges, release and publish workflows |
| `LockfileGate` | the lock file check, and what authors do to the tree |
| `StoreChainProofs`, `LineageWalkProofs`, `SizeProofProofs`, `StoreClientProofs`, `ReleasePipelineProofs`, `LockfileGateProofs` | theorems about the module of that name |
| `WalkChainProofs` | theorems on what a walk's answers have to do with the chain's heights and prefixes; extends `LineageWalkProofs` |
| `WalkRefinementProofs` | theorems on answers and refusals being atomic, and the refinement, step by step; extends `WalkRefinement` and `WalkChainProofs` |
| `MCStoreChain`, `MCLineageWalk`, `MCStoreClient` | model values, ladders and symmetry for TLC |

Operators named `...Bug` are alternatives of the one that follows them, for checking
that the properties notice; no specification uses them.

### Lineage: coins are their own ancestry

A coin id hashes its parent's id and its puzzle, and a store coin's puzzle commits
to its metadata. So a coin is modelled as the pair of its store and the metadata
of all generations up to its own: two coins are the same exactly when their
ancestries are. This is the one assumption about hashing the results rest on. The
launcher coin has the empty ancestry. `Sizes` stands for every metadata field that
a modify carries over. That `hydrate` reads from a spend the coin *and* metadata
that this coin's id commits to is dig-merkle's contract, not modelled further.

### StoreChain

`built` holds each spend a builder returned. It is never emptied: a signed spend
can be pushed at any later time. `CreateStore`, `ModifyStore`, `MeltStore` are the
functions of `lifecycle.rs`; the datastore given to the last two is any child a
builder ever returned (`Held`), confirmed or not, since the code checks nothing.
Creating twice from the same parent coin gives two spends of one launcher.

The chain is external. `gens[s]`, `born[s]` and `meltedAt[s]` are a store's
confirmed metadata, the heights they confirmed at, and its melt. `Confirm` takes a
built spend whose coin is the store's unspent latest; `EmptyBlock` adds a block;
`Reorg(f)` undoes what confirmed above height `f` and leaves the chain one block
longer; undone spends may confirm again. A block holds at most one store spend.
The new branch starts without store spends, which then confirm in later blocks, so
a reorg that swaps one generation for another is two steps here, with nothing
forcing a read between them.

### LineageWalk

One call at a time: `pc` is the read it makes next, `cur`, `roots`, `record` are
the code's locals, `reply` its result. The id passed in may be any coin's.

| read | action | code |
|---|---|---|
| launcher spend, launcher id check | `ReadLauncher` | `store.rs:433-447` |
| one loop turn: cap, push, spend of `current` | `OverCap`, `ReachTip`, `RejectHop`, `ReachMelt`, `Advance` | `store.rs:450-478` |
| coin record, contradiction check | `ReadRecord` | `store.rs:264-276` |
| peak, reply | `ReadPeak` | `store.rs:278-304` |
| any read fails, or its spend does not hydrate | `ReadFails` | `store.rs:437`, `472`, `494`, `265`, `311` |

`Ops` has three getters: `tip` stands for `get_store_singleton_tip` and for all
that project its result (latest root, label, description, size bucket, program
hash, latest-root URN). Chain steps (`ChainMoves`) interleave with reads freely.
Two history variables serve properties only: `seen`, the states the requested
store was in during the call, and `reorged`, whether a reorg came between the
record read and the peak read.

`Faults` selects how the source misbehaves: failing reads, withheld spends, spends
of other coins, made-up spends, missing records, heights or peaks, an old peak.
Coin records, when present, are the chain's own.

### AtomicStore and WalkRefinement

`AtomicStore` says what a caller is promised, with coins, reads and heights gone: a
store gets generations and is finally closed, and a call answers from one look: for
the tip, the history or the status (`LookForTip`, `LookForHistory`, `LookForStatus`), an
error if the store is absent and no status was asked for (`LookAtAbsent`), or a refusal
when the lineage is longer than the cap. Two more refusals are allowed: the id is no
launcher's, or a status was asked for and the store moved meanwhile. Every call is
answered.

`WalkRefinement` maps a walk to that. The look is the read that settles the answer:
the launcher read that finds nothing, the hop read that finds the melt or no spend,
the cap; for a live status the record read, since until then the call may still be
refused. All other reads are stutters, the peak read included. `moved` is read off
`seen`.

### SizeProof and StoreClient

`SizeProof` takes the ladder as a parameter, since it is dig-merkle's: bucket `k`
holds `ByteLen[k]` bytes, growing with `k`. `ForByteLen` returns the bucket of a
length, or nothing above the ceiling; `Verify` and `Require` are the functions of
`size.rs`, `OverCeiling` what `require` reports for a length without a bucket.

`StoreClient` is what the crate is written for: SPEC 4 tells a node how to use it.
The client is external; each call it makes is the crate's.

| action | calls |
|---|---|
| `AskSize`, `AskRoot` | begin `get_store_size_bucket`, `get_latest_root_urn` (`store.rs:42-52, 170-178`) |
| `LookUp` | `capsule_urn`, `retrieval_key` (`urn.rs`); serves what it has kept |
| `Receive` | `open_capsule` (`capsule.rs`), then `SizeProof::require`: `Reject`, `Discard` or `Keep` |
| `GiveUp`, `Abandon` | a getter refused, or nobody has the capsule |
| `Publish` | not the client's: a store gets a generation, or melts |

It composes `AtomicStore`, not `LineageWalk`: `WalkRefinement` shows that a getter
with an honest source is one look, and this keeps the state small enough for two
stores. So its results hold for an honest source without reorgs. The store moves at
any time, also between the two getters. What arrives in `Receive` is any module: of
another store, an old root, a wrong length, or unreadable. A retrieval key is a hash
of the whole URN and is modelled as injective; a module's root is the one the
external reader recomputes. `Compiled[r]` is the length of what the publisher
compiled for root `r`; `create_store` is given its bucket, as its caller must do, and
`modify_store` has no size to be given. `get_store_size_bucket` may also answer `None`
(`store.rs:174`), for a store minted without a size. `create_store` always gives one
(`lifecycle.rs:124`), so only stores minted by other means have none; they are left out,
and the bucket read is always a `Some`.

### ReleasePipeline

One state machine for `release.yml` and `publish.yml`. `main` is the branch, and a
commit carries what matters of it: its version, whether its lock is in sync, whether
a release run made it. `running` and `pending` are the concurrency group of
`release.yml` (lines 19-21): one run in progress, one waiting, a newcomer replaces the
one that waits. A run is at `prepare`, `main` or `tag`, and its `local` is the commit
it will push.

| action | code |
|---|---|
| `MergePR` | `ensure-version-increment.yml`: the version must be new and greater |
| `Skip`, `Prepare` | the two early returns, changelog and lock sync, commit |
| `PushMain`, `PushRejected` | `git push origin HEAD:main`, fast-forward or refused |
| `PushTag` | `git push origin vX.Y.Z`, which starts `publish.yml` |
| `Publish`, `CreateRelease` | `cargo publish --locked`, GitHub release |
| `Fail`, `PublishFails` | any step fails; an upload may be done and its job still fail |
| `Rerun`, `RerunPublish`, `Dispatch` | what people may do by hand |

git, GitHub and crates.io are external. The push of a release commit is an event
too, so it queues a run of its own.

### LockfileGate

`Mismatch` is the script's decision, over a tree of manifests of which only some
(`Members`) are those cargo builds; the others are fixtures or vendored copies, and
the script cannot tell. Authors edit any manifest, inherit versions from the
workspace, re-lock, and add registry crates, also of a member's name.

There are two resolutions of a version, and they differ. `CargoVersion` is cargo's:
an inherited version is the root's, and without one there cargo refuses to build; a
manifest without a version has 0.0.0 (since cargo 1.75; `Cargo.toml:19` asks for 1.81).
`Resolved` is the script's: an inherited version is the root's, or else the first one found
in another manifest (`elsewhere`, `WorkspaceVersion`); a manifest without a version has
none. `Relock` writes what cargo resolves, and the gate compares with what the script does.

## What TLC checks

| run | bounds | shows |
|---|---|---|
| `store_chain` | 2 stores, 2 roots, 2 sizes, 4 builds, height 4, reorgs of 2 | types; every generation keeps the mint's metadata |
| `walk_faulty` | 2 stores, 2 roots, 3 builds, height 4, cap 3, all faults but made-up spends | answers are at worst stale; confirmations never overstated |
| `walk_reorg` | 1 store, 2 roots, 3 builds, height 4, reorgs of 1, missing, swapped and made-up spends | a verified status is real; a settled one final |
| `walk_endless` | 1 store, 1 root, cap 3, made-up recreations, failing reads, hidden peaks | every call returns |
| `walk_one_look` | 1 store, 2 roots, 4 builds, height 4, cap 2, honest source, no reorg | a call of many reads implements a call of one look; answers are atomic; errors have a cause |
| `walk_missing_hop` | 1 store, withheld spends | **violated**: see below |
| `client` | 2 stores, 2 roots, 3 buckets of 2, 4 and 8, cap 2, 3 generations, lengths at and over each edge | what a client keeps, serves and discards |
| `release_safety` | 2 versions, 2 failures, 2 reruns, 1 publish by hand | tags, locks, release commits and releases are right whatever fails or races |
| `release_newest` | 4 versions, no failures, no publishes by hand | the newest version is released in the end |
| `release_every` | 3 versions, no failures | **violated**: see below |
| `release_rerun` | 2 versions, 1 failure, 1 rerun | **violated**: see below |
| `lockfile_gate` | 2 members, 1 stray, 2 names, 2 versions, one of them 0.0.0 | green means in sync; when the printed fix works |

Three builds are a create, a modify and a melt, or a create and two competing
modifies; four make a lineage longer than the cap of `walk_one_look`, or a conflict
in the middle of one. Height 4 leaves room for all of them and for an empty block.
A depth-1 reorg between two reads already separates a walk from the chain it
started on, and two stores are what a swapped spend needs. Deadlock is not checked
on the chain or the pipeline: at its height bound, or once everything is released, the
model really stops. Runs with symmetry use it only for safety.

In `client`, one root's module is the longest of bucket 1 and the other's is one byte
more, so a store may outgrow its bucket or shrink below it; a third generation
exceeds the cap, so getters also refuse. In the pipeline, two versions are the least
at which a run works on a commit that is no longer the head; dropping a waiting run
needs a third, and `release_newest` has a fourth to overtake it. Two failures with
two reruns break a run twice, once after each push. In the gate, one stray is enough
to be first or last in a directory walk, and with 0.0.0 among the versions a member
may give by hand what cargo gives another by default.

Each property and the hazard behind it:

- `MetadataIsMintTime`: no interleaving of stale, conflicting or chained builds with
  confirmations and reorgs gives a generation other metadata than the mint's.
- `Linearizable`: blocks land between any two reads, yet what a successful call
  returns was true of the store, all at once, at one moment of the call. It includes
  that the cap is exact. It needs a source that neither withholds nor makes up spends,
  and no reorg. Under a reorg of two generations a walk can report, unverified, a tip and
  history that were never the store's state during the call: `current` may have been
  undone, and its absent spend is taken for unspent.
- `ErrorsAreJustified`: an honest source never produces a refusal without one of the
  documented reasons, and while the store stands still these are reasons in the store.
- `ImplementsAtomic`: where `Linearizable` looks at replies only, this fixes the read
  that answers and says each call is answered; the status getter that resolved its
  tip twice would pair the roots of one moment with the tip of another.
- `StaleNeverWrong`: withheld or swapped spends can only shorten a history.
- `VerifiedIsReal`: the strongest claim, for any answers to `coin_spend` and any
  reorg; it is the record read, not the walk, that carries it.
- `NeverOverstated`: what `saturating_sub` is for.
- `SettledIsFinal`: if the caller's target is at least the depth of any reorg, a tip
  reported verified with that many confirmations stays in the history. This needs
  that no reorg came between the record and the peak read: a reorg there drops the
  tip and raises the peak, and the reply counts a confirmation too many for a coin
  that is gone. The code has no guard against that; a caller who must be sure asks
  twice.
- `KeptIsCommitted`: bucket and root come from two walks, so a client may pair those
  of two generations. It is harmless only because every generation has the mint's
  bucket, which is `MetadataIsMintTime` again, seen from the far end.
- `ServedIsCurrent`: `open_capsule` does not check the root and leaves this to its
  caller; an authentic capsule of an older generation opens. Only the comparison of
  roots, and a retrieval key with the root in it, keep it out, also on a later
  request served from the cache.
- `ErrorIsTelling`: the two buckets in a `SizeProofMismatch` always differ, also for a
  length that has no bucket, and the anchored one is that of every generation.
- `DiscardedIsOutgrown`: what a publisher really compiled is discarded in one case
  only. `size.rs:48-50` says "a wrong-size artifact is never what the store committed
  to"; but `modify_store` cannot change the bucket, so a store whose new module lies
  in another one commits to a root whose artifact no client will ever keep. SPEC 3
  has every field but the root carried forward, so this is by design, and worth a
  publisher's notice.
- `TagsOnMain`, `TaggedIsInSync`, `LoopSafe`, `ReleasedIsPublished`: the branch is
  pushed before the tag, so no race, failure or rerun leaves a tag off the branch or
  on a stale lock; the run a release commit starts builds no further one; a publish by
  hand from another commit never gets a GitHub release, nor does the tag's version
  then.
- `NewestGetsReleased`: dropped and rejected runs only ever belong to versions that a
  newer one has overtaken. It holds without failures and without publishes by hand
  (`MaxFailures`, `MaxDispatches` are 0): a publish by hand may use up the version on
  crates.io, the tag's own publish then fails, and no GitHub release is made.
- `GreenMeansInSync`: no stray manifest, by its name or its workspace version, hides a
  stale lock. Green, a member that has an entry has there the version cargo gives it. Of a
  member that inherits from a root without a version nothing is said: the gate may be green
  by the version of another workspace, but cargo refuses every build.
- `FixWorks`: after the re-lock that the gate prints as its fix, it is green exactly if no
  stray copy disagrees with a member of its name and every member gives a version. In the
  other two cases it stays red, though it prints the same fix: a disagreement is meant to
  fail (lines 122-128); for a member without a version, cargo locks 0.0.0 and the script
  finds none (78-79, 118-121). What helps there is a version in the manifest.
- `WalkTerminates`: the only fairness assumed is that a call that has begun keeps
  making its reads. A getter is a loop over synchronous calls; a source call that
  never returns is outside the crate. Nobody is assumed to call, build or mine.
  For `NewestGetsReleased` it is weak fairness of release runs and of publish runs:
  GitHub starts what is queued and goes on with what is started. Nobody is assumed to
  merge, rerun or dispatch.

### The findings

*`walk_missing_hop`.* The module comment of `store.rs` (line 14) and SPEC section 5 say the walk is
"fail-closed at every missing hop". That is so at the launcher and for a failed
read. At later hops `coin_spend` answering `None` ends the walk with a live tip,
and SPEC section 7 defines `None` as "unspent/unknown". `walk_missing_hop` shows
`get_store_singleton_tip` return a generation that was spent before the call
began. `get_store_status` catches this case by the coin record
(`VerifiedIsReal`); the tip getter and its projections, and the root history, do
not, and are as good as their source.

*`release_every`.* `release.yml` begins: "On merge to the default branch: regenerate
CHANGELOG.md (git-cliff), commit it to the default branch, THEN tag that commit". A
run works on the commit of its own event, so once another merge has landed its push
is refused, and with three pushes the waiting run is dropped: that version is never
tagged, though nothing failed by itself. The newest always is.

*`release_rerun`.* The same comment (line 11) says "Idempotent". After a failure
between the two pushes, the branch has a release commit and the version no tag. Run
again, the run builds that commit anew and its push is refused by the first one. Its
own push does not help: the run it starts skips release commits.

Not a run, as the file shows it by itself: `publish.yml:12-14` asks for the "Version to
publish" and no step reads it. The model carries it unread (`Dispatch`).

## What is proved

For any sets of stores, roots and sizes and all values of the bounds, the cap, the
target and the faults:

- `VerifyCorrect`, `RequireCorrect` (`SizeProofProofs`): for any growing ladder and every
  length, `verify` accepts exactly the anchored bucket's interval, open below and
  closed above, and a mismatch names two different buckets.
- `ClientTypeCorrect`, `KeptCorrect`, `ServedCorrect`, `ErrorCorrect`, `DiscardCorrect`
  (`StoreClientProofs`). None of these properties is inductive: between the two getters
  the client holds a bucket of which nothing is known but that it was read.
  `ClientInv` says what a client's locals are worth: every generation has the mint's
  size (`Lineages`); an answer is a prefix of the lineage as it is now, since it only
  grows (`CallInv`); the bucket read is that of the whole lineage, the pinned root is
  that of a generation not older than the call (`ReadInv`); and each cached module is
  under its own key (`CacheInv`).
- `ReleaseTypeCorrect`, `TagsCorrect`, `SyncCorrect`, `LoopCorrect`, `ReleasedCorrect`
  (`ReleasePipelineProofs`), for any number of versions, failures, reruns and publishes
  by hand. `PipelineInv` adds to the properties what a run has in hand (`LocalInv`): its
  local commit is in sync, and once its branch push is through, on `main`; before, it
  extends the commit of its event, which is no release commit. `PublishInv` says the
  same of publish runs: those that will create a release were started by a tag and
  their commit is in the registry.
- `ChainTypeCorrect` and `MetadataCorrect` (`StoreChainProofs`). The property speaks
  of confirmed generations, but a modify may be built from a datastore that is not
  confirmed, so it is not inductive alone. `MintInv` adds the same for every
  datastore a caller can hold.
- `WalkTypeCorrect` and `VerifiedCorrect` (`LineageWalkProofs`). `WalkInv` says what
  holds between reads: the walk is at a generation of the store asked for (this is
  what the launcher check buys), the roots pushed are exactly those of that
  generation's ancestry (what the coin id check buys), the present state of the store is in
  `seen`, and once a record said *unspent*, `cur` with its ancestry is one of the
  states in `seen` (`UnspentRecordIsTip`). Chain steps keep it because they only
  add to `seen`, so no bound on reorgs is needed.
- `ReadsRunOut` (`LineageWalkProofs`), for every source and any reorgs: `ReadsLeft` starts
  at `MaxGenerations + 3`, every read takes from it, no step of the chain gives any back,
  and it is zero only when the call has returned. This is `WalkTerminates` but for the
  fairness that makes a call go on reading.
- `SettledCorrect`, `OverstatedCorrect`, `StaleCorrect` (`WalkChainProofs`). The first has
  no hypothesis: any fault, any reorgs. `HeightInv` is its invariant. Heights grow along a
  lineage and do not exceed the peak (`HeightsOrdered`), so a reorg to a fork point keeps
  exactly the generations at or below it; until a reorg comes, the record in hand tells the tip's height
  (`RecordInv`); and a tip reported at least `MaxReorgDepth` deep is on chain and still
  that deep (`DepthInv`). The last is what makes it inductive: the next reorg, of
  whatever depth is allowed, leaves such a tip in place and the chain longer, so it is
  deeper than before. `OverstatedCorrect` reads the same invariant with
  `MaxReorgDepth = 0`, where every tip is deep enough. `StaleCorrect` needs that the walk is
  on chain all along (`StaleInv`), which made-up spends would break.
- `LinearizableCorrect`, `ErrorsCorrect` (`WalkRefinementProofs`). `HonestInv` joins
  `WalkInv` and `StaleInv` with two parts. `LookInv`: a status about to read the record or
  the peak has in `seen` the state it will report, since the read that ended the walk found
  the tip unspent at that moment; and a finished call is explained by some state in `seen`.
  `MeltInv`: only a created store is ever melted, so a melt found has roots to report.
  `ErrorsCorrect` holds through reorgs of any depth, where the walk may well be at a coin
  that was undone, so `HonestInv` will not do. `FoundInv` looks back instead: the
  generation the walk is at was in the store at some moment of the call, and so was, once
  the walk took it for the tip, a state in which it was the tip or had been undone. A
  record that says *spent* contradicts that state, so two were seen: the store moved.
  `MeltInv` needs that a melt is no lower than the generations before it
  (`HeightsOrdered` again), or a reorg could undo the mint and leave the melt.
- `WalkIsAtomic` (`WalkRefinementProofs`): the initial states map to those of
  `AtomicStore`, and each step to one of its steps or a stutter. Blocks and builds are
  moves of at most one store; the start of a call is `Begin`; of the reads, the one that
  settles the answer is the look and the rest are stutters. The hop that ends a walk
  answers from the *whole* lineage because an unspent coin of the chain is the latest
  (`UnspentIsLatest`), and generations keep their mint's size because `MintInv` holds
  below the walk too.
- `GreenCorrect`, `FixCorrect` (`LockfileGateProofs`), for any tree. The first follows from
  the script's decision and from `CargoAndScript`: a green name has one version in the whole
  tree, so a member's is that one, and where cargo and the script both have a version it is
  the same. The second needs `GateInv`: members have different names and what
  is inherited is a version, so a re-lock writes one entry for each member
  (`RelockEntries`). That entry matches unless one of the two exceptions holds
  (`RelockIsGreen`), and does not match if one does (`RelockIsRed`).

Five theorems about the walk exclude reorgs (`MaxReorgDepth = 0`) or some of the faults.
These are hypotheses of the theorem, not of the module, and the runs meet them:

| theorem | reorgs | faults it allows | run |
|---|---|---|---|
| `OverstatedCorrect` | none | all | `walk_faulty` |
| `StaleCorrect` | none | all but made-up spends | `walk_faulty` |
| `LinearizableCorrect` | none | all but made-up and withheld spends | `walk_one_look`, without faults |
| `ErrorsCorrect` | any | missing records, heights and peaks, an old peak | `walk_one_look`, without faults or reorgs |
| `WalkIsAtomic` | none | missing heights and peaks, an old peak | `walk_one_look`, without faults |

None of them can be given another fault, or a reorg where the table has none; TLC has a
counterexample to each. A withheld spend ends a walk at a generation that is no longer the
latest, which is the finding of `walk_missing_hop`; a failed read, or another coin's
spend, is a refusal without a cause in the store; without a record a status answers at a
moment when the store may have moved on already, where `AtomicStore` would look at what it
is then; and after a reorg, what was read before it may be undone, and heights are others.
So the table says which promise survives which weakness of a source.

Assumptions: `BoundsAssumption` and `WalkAssumption` (the constants are naturals,
`Faults` is a set of the listed kinds), `LadderAssumption` (the ladder strictly grows),
`ClientAssumption` (sizes are buckets, lengths naturals), `PipelineAssumption` (the bounds
are naturals), `GateAssumption` (members are no strays, the two marks for an inherited
and an absent version are not versions, and 0.0.0 is one). The model itself carries the rest: content
addressing of coins, coin records that are the chain's own, and for the client, that a
getter is one look.

Only model-checked, being out of the prover's reach, which has no liveness under
fairness: `WalkTerminates`, `NewestGetsReleased`, and of `ImplementsAtomic` that every
call is answered.

## Not modelled

- Owner keys, fees and signatures: no decision of the crate depends on them.
- `get_store_did_owner` (`store.rs:81`): one call into dig-merkle, which does all of it;
  and `hydrate` itself.
- URN strings, their parsing and `InvalidUrn`: a client hashes only URNs the crate made.
- Serialization, formatting, `From<MerkleError>`.
- A store without a size bucket, which `create_store` does not mint (above).
- Of the gate: which stray's workspace version the fallback comes upon first (any one),
  and a missing or unparsable file.
- Of the workflows: the `package.json` branch of the version check (this repository has
  none), a dispatch on a tag instead of a branch, and branch protection, which is taken
  to keep the version check up to date until the merge. The lint and test workflows
  run external tools on one commit and keep no state.

## Plan

In order:

1. *(done)* `Lineage`, `StoreChain`, `LineageWalk`, their runs, and the first
   theorems.
2. *(done)* `AtomicStore` and `WalkRefinement`.
3. *(done)* `SizeProof`, `StoreClient` and their theorems.
4. *(done)* `ReleasePipeline` and its theorems.
5. *(done)* `LockfileGate`.
6. *(done)* Proofs of `Linearizable`, `ErrorsAreJustified`, `StaleNeverWrong`,
   `NeverOverstated`, `SettledIsFinal`, the steps of the refinement, `GreenMeansInSync`
   and `FixWorks`; that a call runs out of reads.
7. The safety half of `NewestGetsReleased`: until the newest version has its tag, some
   run that can still give it one is running, waiting, or failed.
