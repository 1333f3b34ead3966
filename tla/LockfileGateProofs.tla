------------------------- MODULE LockfileGateProofs -------------------------
(***************************************************************************)
(* Theorems about the lockfile gate: green means in sync, and exactly when *)
(* the printed fix works.  They hold of any tree of manifests, names and   *)
(* versions.                                                               *)
(***************************************************************************)
EXTENDS LockfileGate, FiniteSetTheorems, TLAPS

\* The versions that may be inherited, and names that tell members apart:
\* a re-lock writes what cargo resolves, once for each member.
GateInv ==
  /\ workspace \in Option(Versions) /\ elsewhere \in Option(Versions)
  /\ package \in [Places -> Option(Package)]
  /\ \A p, q \in Members :
       p # q /\ package[p] # None /\ package[q] # None
         => package[p][1].name # package[q][1].name

-----------------------------------------------------------------------------
(* Manifests.                                                              *)

LEMMA OptionIsSome ==
  ASSUME NEW S, NEW o \in Option(S), o # None
  PROVE  o = Some(o[1]) /\ o[1] \in S
  BY DEF Option, Some, None

LEMMA PackagesOfPlaces ==
  PackagesIn(Places) = PackagesIn(Members) \cup PackagesIn(Strays)
  BY DEF PackagesIn, Places

\* A version cargo resolves is there in full.
LEMMA CargoVersionIsSome ==
  ASSUME GateInv, NEW pkg, CargoVersion(pkg) # None
  PROVE  CargoVersion(pkg) = Some(CargoVersion(pkg)[1])
<1>1. CASE pkg.version = "workspace"
  BY <1>1, OptionIsSome DEF CargoVersion, GateInv
<1>2. CASE pkg.version # "workspace"
  BY <1>2 DEF CargoVersion, Some
<1>3. QED  BY <1>1, <1>2

\* Where cargo has a version, the script has the same or none, and none only
\* if the manifest has none.
LEMMA CargoAndScript ==
  ASSUME NEW pkg, CargoVersion(pkg) # None
  PROVE  /\ pkg.version # "missing" => Resolved(pkg) = CargoVersion(pkg)
         /\ Resolved(pkg) = None <=> pkg.version = "missing"
<1>1. CASE pkg.version = "workspace"
  BY <1>1 DEF CargoVersion, Resolved, WorkspaceVersion
<1>2. CASE pkg.version = "missing"
  BY <1>2 DEF Resolved
<1>3. CASE pkg.version # "workspace" /\ pkg.version # "missing"
  BY <1>3 DEF CargoVersion, Resolved, Some, None
<1>4. QED  BY <1>1, <1>2, <1>3

\* Members of one name are one member.
LEMMA MembersDiffer ==
  ASSUME GateInv, NEW m \in PackagesIn(Members), NEW n \in PackagesIn(Members),
         m.name = n.name
  PROVE  m = n
<1>1. PICK p \in Members : package[p] # None /\ m = package[p][1]
  BY DEF PackagesIn
<1>2. PICK q \in Members : package[q] # None /\ n = package[q][1]
  BY DEF PackagesIn
<1>3. p = q
  BY <1>1, <1>2 DEF GateInv
<1>4. QED  BY <1>1, <1>2, <1>3

-----------------------------------------------------------------------------
LEMMA GateInit == Init => GateInv
  BY DEF Init, GateInv, Option, Places

LEMMA EditStep ==
  ASSUME GateInv, NEW p \in Places, Edit(p)
  PROVE  GateInv'
<1>1. PICK pkg \in Option(Package) : package' = [package EXCEPT ![p] = pkg]
  BY DEF Edit
<1>2. package' \in [Places -> Option(Package)]
      /\ UNCHANGED <<workspace, elsewhere>>
  BY <1>1 DEF GateInv, Edit
<1>3. \A q \in Places \ {p} : package'[q] = package[q]
  BY <1>1 DEF GateInv
<1>4. ASSUME NEW a \in Members, NEW b \in Members, a # b,
             package'[a] # None, package'[b] # None
      PROVE  package'[a][1].name # package'[b][1].name
  <2>1. \A q \in Members \ {p} :
          p \in Members /\ package'[p] # None /\ package[q] # None =>
            package'[p][1].name # package[q][1].name
    BY DEF Edit
  <2>2. Members \subseteq Places
    BY DEF Places
  <2>3. CASE a = p
    BY <1>3, <1>4, <2>1, <2>2, <2>3
  <2>4. CASE b = p
    BY <1>3, <1>4, <2>1, <2>2, <2>4
  <2>5. CASE a # p /\ b # p
    BY <1>3, <1>4, <2>2, <2>5 DEF GateInv
  <2>6. QED  BY <2>3, <2>4, <2>5
<1>5. QED  BY <1>2, <1>4 DEF GateInv

LEMMA GateInvariant == Spec => []GateInv
<1>1. GateInv /\ [Next]_vars => GateInv'
  <2> SUFFICES ASSUME GateInv, [Next]_vars
               PROVE  GateInv'
    OBVIOUS
  <2>1. ASSUME NEW p \in Places, Edit(p)
        PROVE  GateInv'
    BY <2>1, EditStep
  <2>2. CASE SetWorkspaceVersion
    BY <2>2 DEF SetWorkspaceVersion, GateInv
  <2>3. CASE UNCHANGED <<package, workspace, elsewhere>>
    BY <2>3 DEF GateInv
  <2>4. QED  BY <2>1, <2>2, <2>3 DEF Next, Relock, AddDependency, vars
<1>2. QED  BY <1>1, GateInit, PTL DEF Spec

-----------------------------------------------------------------------------
\* Whatever manifests lie around: if the gate is green, a member that the
\* lock has an entry for has there the version cargo gives it, if cargo
\* gives it one (check-lockfile-version.py:57-63, 33-54).
THEOREM GreenCorrect == Spec => []GreenMeansInSync
<1>1. GreenMeansInSync
  <2> SUFFICES ASSUME Green, NEW pkg \in PackagesIn(Members), NEW e \in lock,
                      e.local, e.name = pkg.name, CargoVersion(pkg) # None
               PROVE  CargoVersion(pkg) = Some(e.version)
    BY DEF GreenMeansInSync
  <2>1. /\ ManifestVersions(e.name) = {Some(e.version)}
        /\ None \notin ManifestVersions(e.name)
    BY DEF Green, LocalLockVersions, Mismatch
  <2>2. Resolved(pkg) \in ManifestVersions(e.name)
    BY PackagesOfPlaces DEF ManifestVersions
  <2>3. Resolved(pkg) = Some(e.version) /\ Resolved(pkg) # None
    BY <2>1, <2>2
  <2>4. QED  BY <2>3, CargoAndScript
<1>2. QED  BY <1>1, PTL

\* The one version declared for a member's name is the member's own, unless
\* a stray copy disagrees.
LEMMA OneVersion ==
  ASSUME GateInv, ~StraysDisagree, NEW pkg \in PackagesIn(Members)
  PROVE  ManifestVersions(pkg.name) = {Resolved(pkg)}
<1>1. pkg \in PackagesIn(Places)
  BY PackagesOfPlaces
<1>2. ASSUME NEW q \in PackagesIn(Places), q.name = pkg.name
      PROVE  Resolved(q) = Resolved(pkg)
  <2>1. CASE q \in PackagesIn(Members)
    BY <1>2, <2>1, MembersDiffer
  <2>2. CASE q \in PackagesIn(Strays)
    BY <1>2, <2>2 DEF StraysDisagree
  <2>3. QED  BY <2>1, <2>2, PackagesOfPlaces
<1>3. QED  BY <1>1, <1>2 DEF ManifestVersions

\* The decision reads nothing that a re-lock changes but the lock.
LEMMA RelockKeepsTree ==
  ASSUME Relock
  PROVE  /\ StraysDisagree' <=> StraysDisagree
         /\ Unversioned' <=> Unversioned
         /\ Green' <=> \A e \in lock' : e.local => ~Mismatch(e)
<1>1. UNCHANGED <<package, workspace, elsewhere>>
  BY DEF Relock
<1>2. \A e : Mismatch(e)' <=> Mismatch(e)
  BY <1>1 DEF Mismatch, ManifestVersions, PackagesIn, Resolved, WorkspaceVersion
<1>3. Green' <=> \A e \in lock' : e.local => ~Mismatch(e)
  BY <1>2 DEF Green, LocalLockVersions
<1>4. QED
  BY <1>1, <1>3 DEF StraysDisagree, Unversioned, PackagesIn, Resolved, WorkspaceVersion

\* A lock that cargo writes has one entry for each member.
LEMMA RelockEntries ==
  ASSUME GateInv, Relock
  PROVE  /\ \A e \in lock' : e.local =>
              \E pkg \in PackagesIn(Members) :
                e.name = pkg.name /\ CargoVersion(pkg) = Some(e.version)
         /\ \A pkg \in PackagesIn(Members) :
              \E e \in lock' : e.local /\ e.name = pkg.name
<1>1. ASSUME NEW e \in lock', e.local
      PROVE  \E pkg \in PackagesIn(Members) :
               e.name = pkg.name /\ CargoVersion(pkg) = Some(e.version)
  <2>1. PICK pkg \in PackagesIn(Members) :
          e = [name |-> pkg.name, version |-> CargoVersion(pkg)[1], local |-> TRUE]
    BY <1>1 DEF Relock
  <2>2. CargoVersion(pkg) # None
    BY DEF Relock
  <2>3. QED  BY <2>1, <2>2, CargoVersionIsSome
<1>2. ASSUME NEW pkg \in PackagesIn(Members)
      PROVE  \E e \in lock' : e.local /\ e.name = pkg.name
  <2>1. [name |-> pkg.name, version |-> CargoVersion(pkg)[1], local |-> TRUE] \in lock'
    BY DEF Relock
  <2>2. QED  BY <2>1
<1>3. QED  BY <1>1, <1>2

\* It passes unless a stray copy disagrees or a member gives no version ...
LEMMA RelockIsGreen ==
  ASSUME GateInv, Relock, ~StraysDisagree, ~Unversioned
  PROVE  \A e \in lock' : e.local => ~Mismatch(e)
<1> SUFFICES ASSUME NEW e \in lock', e.local
             PROVE  ~Mismatch(e)
  OBVIOUS
<1>1. PICK pkg \in PackagesIn(Members) :
        e.name = pkg.name /\ CargoVersion(pkg) = Some(e.version)
  BY RelockEntries
<1>2. CargoVersion(pkg) # None
  BY DEF Relock
<1>3. pkg.version # "missing"
  BY DEF Unversioned
<1>4. Resolved(pkg) = Some(e.version) /\ Resolved(pkg) # None
  BY <1>1, <1>2, <1>3, CargoAndScript
<1>5. ManifestVersions(e.name) = {Some(e.version)}
  BY <1>1, <1>4, OneVersion
<1>6. Cardinality({Some(e.version)}) = 1
  BY FS_Singleton
<1>7. QED  BY <1>4, <1>5, <1>6 DEF Mismatch

\* ... and only then: the entry of such a member is a mismatch.
LEMMA RelockIsRed ==
  ASSUME GateInv, Relock, StraysDisagree \/ Unversioned
  PROVE  \E e \in lock' : e.local /\ Mismatch(e)
<1>1. CASE Unversioned
  <2>1. PICK m \in PackagesIn(Members) : m.version = "missing"
    BY <1>1 DEF Unversioned
  <2>2. PICK e \in lock' : e.local /\ e.name = m.name
    BY RelockEntries
  <2>3. Resolved(m) = None
    BY <2>1 DEF Resolved
  <2>4. None \in ManifestVersions(e.name)
    BY <2>2, <2>3, PackagesOfPlaces DEF ManifestVersions
  <2>5. QED  BY <2>2, <2>4 DEF Mismatch
<1>2. CASE StraysDisagree
  <2>1. PICK s \in PackagesIn(Strays), m \in PackagesIn(Members) :
          s.name = m.name /\ Resolved(s) # Resolved(m)
    BY <1>2 DEF StraysDisagree
  <2>2. PICK e \in lock' : e.local /\ e.name = m.name
    BY RelockEntries
  <2>3. {Resolved(s), Resolved(m)} \subseteq ManifestVersions(e.name)
    BY <2>1, <2>2, PackagesOfPlaces DEF ManifestVersions
  <2>4. ManifestVersions(e.name) # {Some(e.version)}
    BY <2>1, <2>3
  <2>5. QED  BY <2>2, <2>4 DEF Mismatch
<1>3. QED  BY <1>1, <1>2

\* The printed fix turns the gate green in exactly the trees where no stray
\* copy disagrees with a member and every member gives a version (lines
\* 118-128, 140-141).
THEOREM FixCorrect == Spec => FixWorks
<1>1. ASSUME GateInv, Relock
      PROVE  Green' <=> ~StraysDisagree' /\ ~Unversioned'
  BY <1>1, RelockKeepsTree, RelockIsGreen, RelockIsRed
<1>2. GateInv /\ [Next]_vars
        => [Relock => (Green' <=> ~StraysDisagree' /\ ~Unversioned')]_vars
  BY <1>1
<1>3. QED  BY <1>2, GateInvariant, PTL DEF Spec, FixWorks
=============================================================================
