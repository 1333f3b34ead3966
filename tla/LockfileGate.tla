---------------------------- MODULE LockfileGate ----------------------------
(***************************************************************************)
(* check-lockfile-version.py, the gate a pull request must pass, against   *)
(* what its authors do to a tree of Cargo.toml files and its Cargo.lock.   *)
(*                                                                         *)
(* Cargo is external: a build writes one entry per member into the lock,   *)
(* and leaves those of registry crates.  It resolves a member's version by *)
(* rules of its own, which are not quite the script's.  The gate cannot    *)
(* tell members from stray copies (fixtures, examples, vendored crates).   *)
(***************************************************************************)
EXTENDS Naturals, Sequences, FiniteSets

CONSTANTS
  Members,   \* places of the manifests that cargo builds
  Strays,    \* places of manifests it does not
  Names,     \* package names
  Versions   \* version strings

ASSUME GateAssumption ==
  /\ Members \cap Strays = {}
  /\ {"workspace", "missing"} \cap Versions = {}
  /\ "0.0.0" \in Versions

VARIABLES
  package,     \* package[p]: the [package] of the manifest at p, None without
  workspace,   \* the root's [workspace.package] version, None without
  elsewhere,   \* the first one the script finds in another manifest
  lock         \* the entries of Cargo.lock; local are those without a source

vars == <<package, workspace, elsewhere, lock>>

None == << >>
Some(x) == << x >>
Option(S) == {None} \cup {Some(x) : x \in S}

Places == Members \cup Strays
Package == [name : Names, version : Versions \cup {"workspace", "missing"}]
Entry == [name : Names, version : Versions, local : BOOLEAN]

PackagesIn(places) == {package[p][1] : p \in {q \in places : package[q] # None}}

\* The version cargo gives a member: "workspace", for version.workspace =
\* true, is the root's (without one cargo refuses to build); a manifest
\* without a version has 0.0.0 (cargo since 1.75; Cargo.toml:19 asks 1.81).
CargoVersion(pkg) ==
  CASE pkg.version = "workspace" -> workspace
    [] pkg.version = "missing" -> Some("0.0.0")
    [] OTHER -> Some(pkg.version)

-----------------------------------------------------------------------------
(* The script.                                                             *)

\* workspace_inherited_version: the root's, or else any in the tree.
WorkspaceVersion == IF workspace # None THEN workspace ELSE elsewhere

\* The version the script resolves for a package, with no default.
Resolved(pkg) ==
  CASE pkg.version = "workspace" -> WorkspaceVersion
    [] pkg.version = "missing" -> None
    [] OTHER -> Some(pkg.version)

\* Bug: one manifest per name, whichever is read last.
ManifestVersionsBug(name) ==
  LET all == {Resolved(pkg) : pkg \in {q \in PackagesIn(Places) : q.name = name}}
  IN IF all = {} THEN {} ELSE {CHOOSE v \in all : TRUE}

\* manifest_versions: all versions the tree declares for a name.
ManifestVersions(name) ==
  {Resolved(pkg) : pkg \in {q \in PackagesIn(Places) : q.name = name}}

\* Bug: registry crates are not told from local packages.
LocalLockVersionsBug == lock

\* local_lock_versions.
LocalLockVersions == {e \in lock : e.local}

\* No manifest, one without a version, several that differ, or another
\* version than the lock has.
Mismatch(e) ==
  LET versions == ManifestVersions(e.name) IN
  \/ versions = {}
  \/ None \in versions
  \/ Cardinality(versions) > 1
  \/ versions # {Some(e.version)}

\* main returns 0.
Green == \A e \in LocalLockVersions : ~Mismatch(e)

-----------------------------------------------------------------------------
(* The authors.                                                            *)

\* A manifest is written, changed or deleted.  Members have names of their
\* own.
Edit(p) ==
  /\ package' \in {[package EXCEPT ![p] = pkg] : pkg \in Option(Package)}
  /\ \A q \in Members \ {p} :
       p \in Members /\ package'[p] # None /\ package[q] # None =>
         package'[p][1].name # package[q][1].name
  /\ UNCHANGED <<workspace, elsewhere, lock>>

\* The [workspace.package] version of the root, or of a stray manifest.
SetWorkspaceVersion ==
  /\ \/ workspace' \in Option(Versions) /\ UNCHANGED elsewhere
     \/ elsewhere' \in Option(Versions) /\ UNCHANGED workspace
  /\ UNCHANGED <<package, lock>>

\* cargo build, or cargo update -p: one entry for each member.
Relock ==
  /\ \A pkg \in PackagesIn(Members) : CargoVersion(pkg) # None
  /\ lock' = {e \in lock : ~e.local} \cup
             {[name |-> pkg.name, version |-> CargoVersion(pkg)[1], local |-> TRUE] :
                pkg \in PackagesIn(Members)}
  /\ UNCHANGED <<package, workspace, elsewhere>>

\* A crate from the registry, maybe an older release of a member.
AddDependency(name, version) ==
  /\ lock' = {e \in lock : e.local \/ e.name # name} \cup
             {[name |-> name, version |-> version, local |-> FALSE]}
  /\ UNCHANGED <<package, workspace, elsewhere>>

-----------------------------------------------------------------------------
Init ==
  /\ package = [p \in Places |-> None]
  /\ workspace = None /\ elsewhere = None
  /\ lock = {}

Next ==
  \/ \E p \in Places : Edit(p)
  \/ SetWorkspaceVersion
  \/ Relock
  \/ \E n \in Names, v \in Versions : AddDependency(n, v)

Spec == Init /\ [][Next]_vars

-----------------------------------------------------------------------------
(* Properties.                                                             *)

\* No stray manifest can hide a stale lock: if the gate is green, a member
\* the lock has an entry for has there the version cargo gives it.  Nothing
\* is said of a member that cargo itself refuses, which inherits from a root
\* without a version (check-lockfile-version.py:57-63, 33-54).
GreenMeansInSync ==
  Green =>
    \A pkg \in PackagesIn(Members), e \in lock :
      e.local /\ e.name = pkg.name /\ CargoVersion(pkg) # None =>
        CargoVersion(pkg) = Some(e.version)

\* A stray copy disagrees with a member of its name.
StraysDisagree ==
  \E s \in PackagesIn(Strays), m \in PackagesIn(Members) :
    s.name = m.name /\ Resolved(s) # Resolved(m)

\* A member gives no version: cargo locks 0.0.0, the script has none.
Unversioned == \E m \in PackagesIn(Members) : m.version = "missing"

\* When the printed fix works (lines 140-141): a re-lock turns the gate green
\* unless a stray copy disagrees with a member (122-128) or a member gives
\* no version (118-121), and then the gate stays red.
FixWorks == [][Relock => (Green' <=> ~StraysDisagree' /\ ~Unversioned')]_vars
=============================================================================
