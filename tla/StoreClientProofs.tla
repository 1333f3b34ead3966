-------------------------- MODULE StoreClientProofs --------------------------
(***************************************************************************)
(* Theorems about the client: what it keeps, serves and discards, for any  *)
(* stores, ladders, lengths and number of generations.                     *)
(***************************************************************************)
EXTENDS StoreClient, SizeProofProofs, SequenceTheorems, TLAPS

Path(s) == store[s].path

\* Every generation has the size of the mint, which holds what was compiled
\* for the mint's root.
Lineages ==
  \A s \in Stores :
    /\ \A i \in 1 .. Len(Path(s)) : Path(s)[i].size = Path(s)[1].size
    /\ Path(s) # << >> => Path(s)[1].size \in ForByteLen(Compiled[Path(s)[1].root])

\* Calls ask for tips; an answer is the lineage as it was at some moment.
CallInv ==
  /\ phase \in {"idle", "calling", "answered"} /\ op = "tip"
  /\ id \in {LauncherCoin(s) : s \in Stores}
  /\ TipAnswered =>
       /\ Len(answer.tip) \in 1 .. Len(Path(id.store))
       /\ \A i \in 1 .. Len(answer.tip) : answer.tip[i] = Path(id.store)[i]

\* Since the client began, the lineage has only grown ...
SinceStart ==
  step # "idle" =>
    /\ Len(atStart.path) \in 0 .. Len(Path(wanted.store))
    /\ atStart.melted => store[wanted.store].melted

\* ... and what the client has read of it is still true of it.
ReadInv ==
  /\ step \in {"size", "root"} => id = LauncherCoin(wanted.store)
  /\ step \in {"size", "root"} /\ TipAnswered =>
       Len(atStart.path) <= Len(answer.tip) /\ ~atStart.melted
  /\ step \in {"root", "download"} =>
       Path(wanted.store) # << >> /\ bucket = Some(Path(wanted.store)[1].size)
  /\ step = "download" =>
       /\ ~atStart.melted
       /\ \E i \in 1 .. Len(Path(wanted.store)) :
            /\ Len(atStart.path) <= i
            /\ pinned = Some(CapsuleUrn(wanted.store, Path(wanted.store)[i].root))

\* A module is kept under the key of its own capsule.
CacheInv ==
  \A key \in DOMAIN cache :
    /\ cache[key] \in Module
    /\ key = RetrievalKey(CapsuleUrn(cache[key].store, cache[key].root))
    /\ \E i \in 1 .. Len(Path(cache[key].store)) : CommittedAs(cache[key], i)

ServedInv ==
  step = "served" =>
    /\ served # None /\ served[1] \in Module /\ served[1].store = wanted.store
    /\ ~atStart.melted
    /\ \E i \in 1 .. Len(Path(wanted.store)) :
         Len(atStart.path) <= i /\ Path(wanted.store)[i].root = served[1].root

DiscardInv ==
  discarded # None =>
    LET m == discarded[1].module IN
    /\ m \in Module /\ Path(m.store) # << >>
    /\ discarded[1].error = Require(Path(m.store)[1].size, m.bytes)
    /\ discarded[1].error.kind # "Ok"

ClientInv ==
  /\ ClientTypeOK /\ Lineages /\ CallInv /\ SinceStart /\ ReadInv
  /\ CacheInv /\ ServedInv /\ DiscardInv

-----------------------------------------------------------------------------
LEMMA SomeType ==
  ASSUME NEW S, NEW x \in S
  PROVE  Some(x) \in Option(S) /\ Some(x) # None /\ Some(x)[1] = x
  BY DEF Some, None, Option

LEMMA SomeValue ==
  ASSUME NEW x
  PROVE  Some(x) # None /\ Some(x)[1] = x
<1>1. x \in {x}
  OBVIOUS
<1>2. QED  BY <1>1, SomeType

LEMMA NoneType ==
  ASSUME NEW S
  PROVE  None \in Option(S)
  BY EmptySeq DEF None, Option

LEMMA SizesAreNat == Sizes \subseteq Nat /\ Sizes = SizeBucket
  BY ClientAssumption, LadderAssumption DEF SizeBucket

LEMMA UrnType ==
  ASSUME NEW s \in Stores
  PROVE  /\ StoreUrn(s) \in {StoreUrn(t) : t \in Stores} /\ StoreUrn(s).store = s
         /\ \A r \in Roots :
              /\ CapsuleUrn(s, r).root = Some(r) /\ CapsuleUrn(s, r).root[1] = r
              /\ CapsuleUrn(s, r) \in {CapsuleUrn(t, q) : t \in Stores, q \in Roots}
  BY DEF StoreUrn, CapsuleUrn, Some

LEMMA WantedType ==
  ASSUME ClientTypeOK
  PROVE  wanted.store \in Stores /\ Path(wanted.store) \in Seq(Metadata)
         /\ wanted = StoreUrn(wanted.store)
  BY UrnType DEF ClientTypeOK, Path

LEMMA GenerationType ==
  ASSUME ClientTypeOK, NEW s \in Stores
  PROVE  /\ Path(s) \in Seq(Metadata) /\ Len(Path(s)) \in Nat
         /\ Path(s) # << >> <=> Len(Path(s)) > 0
         /\ \A i \in 1 .. Len(Path(s)) : Path(s)[i].root \in Roots /\ Path(s)[i].size \in Sizes
<1>1. Path(s) \in Seq(Metadata)
  BY DEF ClientTypeOK, Path
<1>2. \A i \in 1 .. Len(Path(s)) : Path(s)[i] \in Metadata
  BY <1>1
<1>3. QED  BY <1>1, <1>2, EmptySeq DEF Metadata

\* What opens against the wanted store and has the pinned root.
LEMMA PinnedModule ==
  ASSUME NEW m \in Module, IsPinned(m)
  PROVE  /\ m.store = wanted.store /\ m.root = pinned[1].root[1]
         /\ OpenCapsule(m, wanted.store)[1] = [store_id |-> m.store, root_hash |-> m.root]
  BY DEF IsPinned, OpenCapsule, GetCapsuleIdentity, Some, None

-----------------------------------------------------------------------------
(* Initial states and the publisher.                                       *)

LEMMA InitInv == Init => ClientInv
<1> SUFFICES ASSUME Init PROVE ClientInv
  OBVIOUS
<1>1. << >> \in Seq(Metadata) /\ Len(<< >>) = 0
  BY EmptySeq
<1>2. ClientTypeOK
  <2>1. store \in [Stores -> [path : Seq(Metadata), melted : BOOLEAN]]
    BY <1>1 DEF Init, AtomicInit
  <2>2. QED  BY <2>1, NoneType DEF Init, ClientTypeOK, None
<1>3. \A s \in Stores : Path(s) = << >>
  BY DEF Init, AtomicInit, Path
<1>4. Lineages
  <2>1. \A s \in Stores : Len(Path(s)) = 0
    BY <1>1, <1>3
  <2>2. ASSUME NEW s \in Stores, NEW i \in 1 .. Len(Path(s))
        PROVE  FALSE
    <3>1. Len(Path(s)) = 0
      BY <2>1
    <3>2. QED  BY <3>1
  <2>3. QED  BY <1>3, <2>2 DEF Lineages
<1>5. CallInv
  BY DEF Init, AtomicInit, CallInv, TipAnswered
<1>6. SinceStart /\ ReadInv /\ CacheInv /\ ServedInv /\ DiscardInv
  <2>1. DOMAIN cache = {}
    BY EmptySeq DEF Init
  <2>2. SinceStart /\ ReadInv /\ ServedInv
    BY DEF Init, SinceStart, ReadInv, ServedInv
  <2>3. CacheInv
    BY <2>1 DEF CacheInv
  <2>4. DiscardInv
    BY DEF Init, DiscardInv
  <2>5. QED  BY <2>2, <2>3, <2>4
<1>7. QED  BY <1>2, <1>4, <1>5, <1>6 DEF ClientInv

\* A lineage only grows, and is not touched once it is melted.
Grows(s) ==
  /\ Len(Path(s)) <= Len(store'[s].path)
  /\ \A i \in 1 .. Len(Path(s)) : store'[s].path[i] = Path(s)[i]
  /\ store[s].melted => store'[s].melted

LEMMA MoveCases ==
  ASSUME ClientTypeOK, NEW s \in Stores, Publish(s)
  PROVE  /\ UNCHANGED <<phase, op, id, answer>> /\ UNCHANGED clientVars
         /\ \/ \E m \in Metadata :
                 /\ Path(s) # << >> => m.size = Path(s)[1].size
                 /\ Path(s) = << >> => m.size \in ForByteLen(Compiled[m.root])
                 /\ store' = [store EXCEPT ![s].path = Append(Path(s), m)]
            \/ Path(s) # << >> /\ store' = [store EXCEPT ![s].melted = TRUE]
<1>1. CASE \E m \in Metadata : /\ Path(s) # << >> => m.size = Path(s)[1].size
                               /\ store' = [store EXCEPT ![s].path = Append(@, m)]
  <2>1. PICK m \in Metadata : /\ Path(s) # << >> => m.size = Path(s)[1].size
                              /\ store' = [store EXCEPT ![s].path = Append(@, m)]
    BY <1>1
  <2>2. store' = [store EXCEPT ![s].path = Append(Path(s), m)]
    BY <2>1 DEF Path
  <2>3. ASSUME Path(s) = << >> PROVE m.size \in ForByteLen(Compiled[m.root])
    <3>1. store'[s].path = Append(<< >>, m)
      BY <2>2, <2>3 DEF ClientTypeOK
    <3>2. store'[s].path[1] = m
      BY <3>1
    <3>3. QED  BY <2>3, <3>2 DEF Publish, Path
  <2>4. QED  BY <2>1, <2>2, <2>3 DEF Publish, Move
<1>2. CASE Path(s) # << >> /\ store' = [store EXCEPT ![s].melted = TRUE]
  BY <1>2 DEF Publish, Move
<1>3. QED  BY <1>1, <1>2 DEF Publish, Move, Path

LEMMA PublishGrows ==
  ASSUME ClientTypeOK, Lineages, NEW t \in Stores, Publish(t)
  PROVE  /\ store' \in [Stores -> [path : Seq(Metadata), melted : BOOLEAN]]
         /\ \A s \in Stores : Grows(s)
         /\ Lineages'
<1>1. store \in [Stores -> [path : Seq(Metadata), melted : BOOLEAN]]
  BY DEF ClientTypeOK
<1>2. \A s \in Stores : Path(s) \in Seq(Metadata) /\ Len(Path(s)) \in Nat
  BY GenerationType
<1>3. CASE \E m \in Metadata :
             /\ Path(t) # << >> => m.size = Path(t)[1].size
             /\ Path(t) = << >> => m.size \in ForByteLen(Compiled[m.root])
             /\ store' = [store EXCEPT ![t].path = Append(Path(t), m)]
  <2>1. PICK m \in Metadata :
             /\ Path(t) # << >> => m.size = Path(t)[1].size
             /\ Path(t) = << >> => m.size \in ForByteLen(Compiled[m.root])
             /\ store' = [store EXCEPT ![t].path = Append(Path(t), m)]
    BY <1>3
  <2> DEFINE new == Append(Path(t), m)
  <2>2. /\ new \in Seq(Metadata) /\ Len(new) = Len(Path(t)) + 1
        /\ new[Len(Path(t)) + 1] = m
        /\ \A i \in 1 .. Len(Path(t)) : new[i] = Path(t)[i]
    BY <1>2, AppendProperties
  <2> HIDE DEF new
  <2>3. /\ store'[t].path = new /\ store'[t].melted = store[t].melted
        /\ \A s \in Stores \ {t} : store'[s] = store[s]
    BY <1>1, <2>1 DEF new
  <2>4. store' \in [Stores -> [path : Seq(Metadata), melted : BOOLEAN]]
    BY <1>1, <2>1, <2>2 DEF new
  <2>5. \A s \in Stores : Grows(s)
    BY <1>2, <2>2, <2>3 DEF Grows, Path
  <2>6. \A i \in 1 .. Len(new) : new[i].size = new[1].size
    <3>1. CASE Path(t) = << >>
      BY <2>2, <3>1
    <3>2. CASE Path(t) # << >>
      <4>1. Len(Path(t)) >= 1
        BY <1>2, <3>2
      <4>2. new[1] = Path(t)[1]
        BY <1>2, <2>2, <4>1
      <4>3. QED  BY <1>2, <2>1, <2>2, <3>2, <4>1, <4>2 DEF Lineages
    <3>3. QED  BY <3>1, <3>2
  <2>7. new[1].size \in ForByteLen(Compiled[new[1].root])
    <3>1. CASE Path(t) = << >>
      BY <2>1, <2>2, <3>1
    <3>2. CASE Path(t) # << >>
      <4>1. new[1] = Path(t)[1]
        BY <1>2, <2>2, <3>2
      <4>2. QED  BY <3>2, <4>1 DEF Lineages
    <3>3. QED  BY <3>1, <3>2
  <2>8. Lineages'
    <3> SUFFICES ASSUME NEW s \in Stores
                 PROVE  /\ \A i \in 1 .. Len(store'[s].path) :
                             store'[s].path[i].size = store'[s].path[1].size
                        /\ store'[s].path # << >> =>
                             store'[s].path[1].size \in ForByteLen(Compiled[store'[s].path[1].root])
      BY DEF Lineages, Path
    <3>1. CASE s = t
      BY <2>3, <2>6, <2>7, <3>1
    <3>2. CASE s # t
      BY <2>3, <3>2 DEF Lineages, Path
    <3>3. QED  BY <3>1, <3>2
  <2>9. QED  BY <2>4, <2>5, <2>8
<1>4. CASE store' = [store EXCEPT ![t].melted = TRUE]
  <2>1. /\ \A s \in Stores : store'[s].path = Path(s) /\ (store[s].melted => store'[s].melted)
        /\ store' \in [Stores -> [path : Seq(Metadata), melted : BOOLEAN]]
    BY <1>1, <1>4 DEF Path
  <2>2. \A s \in Stores : Grows(s)
    BY <1>2, <2>1 DEF Grows
  <2>3. Lineages'
    BY <2>1 DEF Lineages, Path
  <2>4. QED  BY <2>1, <2>2, <2>3
<1>5. QED  BY <1>3, <1>4, MoveCases

\* What is known of a lineage stays known when it grows.
LEMMA PublishInv ==
  ASSUME ClientInv, NEW t \in Stores, Publish(t)
  PROVE  ClientInv'
<1>1. ClientTypeOK /\ Lineages
  BY DEF ClientInv
<1>2. /\ store' \in [Stores -> [path : Seq(Metadata), melted : BOOLEAN]]
      /\ \A s \in Stores : Grows(s)
      /\ Lineages'
  BY <1>1, PublishGrows
<1>3. UNCHANGED <<phase, op, id, answer>> /\ UNCHANGED clientVars
  BY <1>1, MoveCases
<1>4. UNCHANGED <<step, wanted, bucket, pinned, cache, served, discarded, atStart>>
  BY <1>3 DEF clientVars
<1>5. \A s \in Stores : Len(Path(s)) \in Nat /\ Len(store'[s].path) \in Nat
  BY <1>2, <1>1, GenerationType
<1>6. wanted.store \in Stores
  BY <1>1, WantedType
<1>7. ClientTypeOK'
  BY <1>1, <1>2, <1>4 DEF ClientTypeOK
<1>8. CallInv'
  <2>1. PICK s \in Stores : id = LauncherCoin(s)
    BY DEF ClientInv, CallInv
  <2>2. id.store = s
    BY <2>1 DEF LauncherCoin
  <2>3. Grows(s)
    BY <1>2
  <2>4. TipAnswered' => TipAnswered
    BY <1>3 DEF TipAnswered
  <2>5. QED  BY <1>3, <1>5, <2>1, <2>2, <2>3, <2>4 DEF ClientInv, CallInv, Grows, Path
<1>9. SinceStart'
  BY <1>2, <1>4, <1>5, <1>6 DEF ClientInv, SinceStart, Grows, Path
<1>10. ReadInv'
  <2>1. TipAnswered' = TipAnswered
    BY <1>3 DEF TipAnswered
  <2>2. Grows(wanted.store) /\ Path(wanted.store) \in Seq(Metadata)
        /\ store'[wanted.store].path \in Seq(Metadata)
    BY <1>1, <1>2, <1>6, GenerationType
  <2>3. Path(wanted.store) # << >> =>
          /\ store'[wanted.store].path # << >>
          /\ store'[wanted.store].path[1] = Path(wanted.store)[1]
    BY <2>2, EmptySeq DEF Grows
  <2>4. step = "download" =>
          \E i \in 1 .. Len(store'[wanted.store].path) :
            /\ Len(atStart.path) <= i
            /\ pinned = Some(CapsuleUrn(wanted.store, store'[wanted.store].path[i].root))
    BY <1>5, <1>6, <2>2 DEF ClientInv, ReadInv, Grows
  <2>5. QED  BY <1>3, <1>4, <2>1, <2>3, <2>4 DEF ClientInv, ReadInv, Path
<1>11. CacheInv'
  <2> SUFFICES ASSUME NEW key \in DOMAIN cache
               PROVE  /\ cache[key] \in Module
                      /\ key = RetrievalKey(CapsuleUrn(cache[key].store, cache[key].root))
                      /\ \E i \in 1 .. Len(store'[cache[key].store].path) :
                           CommittedAs(cache[key], i)'
    BY <1>4 DEF CacheInv, Path
  <2>1. cache[key] \in Module /\ key = RetrievalKey(CapsuleUrn(cache[key].store, cache[key].root))
    BY DEF ClientInv, CacheInv
  <2>2. PICK i \in 1 .. Len(Path(cache[key].store)) : CommittedAs(cache[key], i)
    BY DEF ClientInv, CacheInv
  <2>3. cache[key].store \in Stores
    BY <2>1 DEF Module
  <2>4. i \in 1 .. Len(store'[cache[key].store].path)
        /\ store'[cache[key].store].path[i] = store[cache[key].store].path[i]
    BY <1>2, <1>5, <2>3 DEF Grows, Path
  <2>5. CommittedAs(cache[key], i)'
    BY <1>4, <2>2, <2>4 DEF CommittedAs
  <2>6. QED  BY <2>1, <2>4, <2>5
<1>12. ServedInv'
  <2>1. Grows(wanted.store)
    BY <1>2, <1>6
  <2>2. QED  BY <1>4, <1>5, <1>6, <2>1 DEF ClientInv, ServedInv, Grows, Path
<1>13. DiscardInv'
  <2> SUFFICES ASSUME discarded # None
               PROVE  LET m == discarded[1].module IN
                      /\ m \in Module /\ store'[m.store].path # << >>
                      /\ discarded[1].error = Require(store'[m.store].path[1].size, m.bytes)
                      /\ discarded[1].error.kind # "Ok"
    BY <1>4 DEF DiscardInv, Path
  <2> DEFINE m == discarded[1].module
  <2>1. /\ m \in Module /\ Path(m.store) # << >>
        /\ discarded[1].error = Require(Path(m.store)[1].size, m.bytes)
        /\ discarded[1].error.kind # "Ok"
    BY DEF ClientInv, DiscardInv
  <2>2. m.store \in Stores
    BY <2>1 DEF Module
  <2>3. Path(m.store) \in Seq(Metadata) /\ store'[m.store].path \in Seq(Metadata)
    BY <1>1, <1>2, <2>2, GenerationType
  <2>4. store'[m.store].path # << >> /\ store'[m.store].path[1] = Path(m.store)[1]
    <3>1. Len(Path(m.store)) \in Nat \ {0} /\ Len(store'[m.store].path) \in Nat
      BY <1>5, <2>1, <2>2, <2>3, EmptySeq
    <3>2. Grows(m.store)
      BY <1>2, <2>2
    <3>3. Len(store'[m.store].path) # 0 /\ 1 \in 1 .. Len(Path(m.store))
      BY <3>1, <3>2 DEF Grows
    <3>4. QED  BY <2>3, <3>2, <3>3, EmptySeq DEF Grows
  <2>5. QED  BY <2>1, <2>4
<1>14. QED  BY <1>2, <1>7, <1>8, <1>9, <1>10, <1>11, <1>12, <1>13 DEF ClientInv

-----------------------------------------------------------------------------
(* Calls.                                                                  *)

\* A look answers with the whole lineage of the store asked for, and only
\* if it is live.
LEMMA LookAnswers ==
  ASSUME ClientInv, Look
  PROVE  /\ UNCHANGED <<store, op, id>> /\ phase = "calling" /\ phase' = "answered"
         /\ TipAnswered' => /\ answer'.tip = Path(id.store) /\ Path(id.store) # << >>
                            /\ ~store[id.store].melted
<1>1. PICK s \in Stores : id = LauncherCoin(s)
  BY DEF ClientInv, CallInv
<1>2. IsLauncher(id) /\ id.store = s /\ Asked = store[s] /\ Length = Len(Path(s))
  BY <1>1 DEF LauncherCoin, IsLauncher, Asked, Length, Path
<1>3. op = "tip" /\ Path(s) \in Seq(Metadata)
  BY GenerationType DEF ClientInv, CallInv
<1>4. Look => \/ Refuse
              \/ InReach /\ ~Asked.melted /\ Give("tip", << >>, Asked.path)
  BY <1>2, <1>3 DEF Look, LookAtAbsent, LookForTip, LookForHistory, LookForStatus
<1>5. CASE Refuse
  BY <1>5 DEF Refuse, Give, TipAnswered
<1>6. CASE InReach /\ ~Asked.melted /\ Give("tip", << >>, Asked.path)
  <2>1. Path(s) # << >>
    BY <1>2, <1>3, <1>6, EmptySeq DEF InReach
  <2>2. QED  BY <1>2, <1>6, <2>1 DEF Give, Path
<1>7. QED  BY <1>4, <1>5, <1>6

LEMMA LookInv ==
  ASSUME ClientInv, Look, UNCHANGED clientVars
  PROVE  ClientInv'
<1>1. /\ UNCHANGED <<store, op, id>> /\ phase = "calling" /\ phase' = "answered"
      /\ TipAnswered' => /\ answer'.tip = Path(id.store) /\ Path(id.store) # << >>
                         /\ ~store[id.store].melted
  BY LookAnswers
<1>2. UNCHANGED <<step, wanted, bucket, pinned, cache, served, discarded, atStart>>
  BY DEF clientVars
<1>3. PICK s \in Stores : id = LauncherCoin(s) /\ id.store = s
  BY DEF ClientInv, CallInv, LauncherCoin
<1>4. Path(s) \in Seq(Metadata) /\ Len(Path(s)) \in Nat
  BY GenerationType DEF ClientInv
<1>5. CallInv'
  <2>1. TipAnswered' => Len(answer'.tip) \in 1 .. Len(Path(s))
    BY <1>1, <1>3, <1>4, EmptySeq
  <2>2. QED  BY <1>1, <1>3, <2>1 DEF ClientInv, CallInv, Path
<1>6. ReadInv'
  <2>1. step \in {"size", "root"} /\ TipAnswered' =>
          Len(atStart.path) <= Len(answer'.tip) /\ ~atStart.melted
    <3> SUFFICES ASSUME step \in {"size", "root"}, TipAnswered'
                 PROVE  Len(atStart.path) <= Len(answer'.tip) /\ ~atStart.melted
      OBVIOUS
    <3>1. id.store = wanted.store
      BY DEF ClientInv, ReadInv, LauncherCoin
    <3>2. QED  BY <1>1, <3>1 DEF ClientInv, SinceStart
  <2>2. QED  BY <1>1, <1>2, <2>1 DEF ClientInv, ReadInv, Path
<1>7. ClientTypeOK' /\ Lineages' /\ SinceStart'
  BY <1>1, <1>2 DEF ClientInv, ClientTypeOK, Lineages, SinceStart, Path
<1>8. CacheInv' /\ ServedInv' /\ DiscardInv'
  BY <1>1, <1>2 DEF ClientInv, CacheInv, ServedInv, DiscardInv, CommittedAs, Path
<1>9. QED  BY <1>5, <1>6, <1>7, <1>8 DEF ClientInv

\* A call begins unanswered.
LEMMA CallBegins ==
  ASSUME ClientInv, NEW s \in Stores, CallTipGetter(s)
  PROVE  /\ store' = store /\ id' = LauncherCoin(s) /\ ~TipAnswered'
         /\ CallInv'
<1>1. /\ store' = store /\ id' = LauncherCoin(s) /\ op' = "tip"
      /\ phase' = "calling"
  BY DEF CallTipGetter, Begin
<1>2. ~TipAnswered'
  BY <1>1 DEF TipAnswered
<1>3. QED  BY <1>1, <1>2 DEF CallInv

LEMMA AskSizeInv ==
  ASSUME ClientInv, NEW s \in Stores, AskSize(s)
  PROVE  ClientInv'
<1>1. store' = store /\ id' = LauncherCoin(s) /\ ~TipAnswered' /\ CallInv'
  BY CallBegins DEF AskSize
<1>2. /\ step' = "size" /\ wanted' = StoreUrn(s) /\ atStart' = store[s] /\ cache' = cache
      /\ bucket' = None /\ pinned' = None /\ served' = None /\ discarded' = None
  BY DEF AskSize
<1>3. wanted' \in {StoreUrn(t) : t \in Stores} /\ wanted'.store = s
  BY <1>2, UrnType
<1>4. ClientTypeOK'
  BY <1>1, <1>2, <1>3, NoneType DEF ClientInv, ClientTypeOK
<1>5. SinceStart'
  <2>1. Len(Path(s)) \in Nat
    BY GenerationType DEF ClientInv
  <2>2. QED  BY <1>1, <1>2, <1>3, <2>1 DEF SinceStart, Path
<1>6. ReadInv' /\ ServedInv' /\ DiscardInv'
  BY <1>1, <1>2, <1>3 DEF ReadInv, ServedInv, DiscardInv
<1>7. CacheInv' /\ Lineages'
  BY <1>1, <1>2 DEF ClientInv, CacheInv, Lineages, CommittedAs, Path
<1>8. QED  BY <1>1, <1>4, <1>5, <1>6, <1>7 DEF ClientInv

\* The size read is the mint's, whichever generation the tip was.
LEMMA TipIsGeneration ==
  ASSUME ClientInv, step \in {"size", "root"}, TipAnswered
  PROVE  /\ Len(answer.tip) \in 1 .. Len(Path(wanted.store)) /\ Path(wanted.store) # << >>
         /\ Tip = Path(wanted.store)[Len(answer.tip)]
         /\ Tip.size = Path(wanted.store)[1].size
         /\ Tip.size \in Sizes /\ Tip.root \in Roots
<1>1. wanted.store \in Stores /\ id.store = wanted.store
  BY WantedType DEF ClientInv, ReadInv, LauncherCoin
<1>2. Len(answer.tip) \in 1 .. Len(Path(wanted.store))
      /\ Tip = Path(wanted.store)[Len(answer.tip)]
  BY <1>1 DEF ClientInv, CallInv, Tip
<1>3. Tip.size = Path(wanted.store)[1].size
  BY <1>1, <1>2 DEF ClientInv, Lineages
<1>4. Len(Path(wanted.store)) \in Nat /\ Path(wanted.store) # << >>
      /\ Tip.size \in Sizes /\ Tip.root \in Roots
  BY <1>1, <1>2, GenerationType DEF ClientInv
<1>5. QED  BY <1>2, <1>3, <1>4

LEMMA AskRootInv ==
  ASSUME ClientInv, AskRoot
  PROVE  ClientInv'
<1>1. wanted.store \in Stores /\ step = "size" /\ TipAnswered
  BY WantedType DEF ClientInv, AskRoot
<1>2. store' = store /\ id' = LauncherCoin(wanted.store) /\ ~TipAnswered' /\ CallInv'
  BY <1>1, CallBegins DEF AskRoot
<1>3. /\ step' = "root" /\ bucket' = Some(Tip.size)
      /\ UNCHANGED <<wanted, pinned, cache, served, discarded, atStart>>
  BY DEF AskRoot
<1>4. Path(wanted.store) # << >> /\ Tip.size = Path(wanted.store)[1].size /\ Tip.size \in Sizes
  BY <1>1, TipIsGeneration
<1>5. ClientTypeOK'
  BY <1>2, <1>3, <1>4, SomeType DEF ClientInv, ClientTypeOK
<1>6. SinceStart'
  BY <1>1, <1>2, <1>3 DEF ClientInv, SinceStart, Path
<1>7. ReadInv' /\ ServedInv'
  BY <1>2, <1>3, <1>4 DEF ReadInv, ServedInv, Path
<1>8. CacheInv' /\ Lineages' /\ DiscardInv'
  BY <1>2, <1>3 DEF ClientInv, CacheInv, Lineages, DiscardInv, CommittedAs, Path
<1>9. QED  BY <1>2, <1>5, <1>6, <1>7, <1>8 DEF ClientInv

-----------------------------------------------------------------------------
(* Lookup and download: the store, and all that is known of it, stands.    *)

LEMMA StoreStands ==
  ASSUME ClientInv, UNCHANGED atomicVars
  PROVE  Lineages' /\ CallInv' /\ store' = store /\ phase' = phase /\ answer' = answer
         /\ id' = id
  BY DEF ClientInv, atomicVars, Lineages, CallInv, TipAnswered, Path

\* A module that is kept is found under the key of the pinned capsule only.
LEMMA FoundIsPinned ==
  ASSUME ClientInv, NEW s \in Stores, NEW r \in Roots,
         RetrievalKey(CapsuleUrn(s, r)) \in DOMAIN cache
  PROVE  LET m == cache[RetrievalKey(CapsuleUrn(s, r))] IN
         m \in Module /\ m.store = s /\ m.root = r
<1> DEFINE m == cache[RetrievalKey(CapsuleUrn(s, r))]
<1>1. m \in Module /\ RetrievalKey(CapsuleUrn(s, r)) = RetrievalKey(CapsuleUrn(m.store, m.root))
  BY DEF ClientInv, CacheInv
<1>2. CapsuleUrn(s, r) = CapsuleUrn(m.store, m.root)
  BY <1>1 DEF RetrievalKey
<1>3. s = m.store /\ Some(r) = Some(m.root)
  BY <1>2 DEF CapsuleUrn
<1>4. r = m.root
  BY <1>3 DEF Some
<1>5. QED  BY <1>1, <1>3, <1>4

LEMMA LookUpInv ==
  ASSUME ClientInv, LookUp
  PROVE  ClientInv'
<1> DEFINE s == wanted.store
           r == Tip.root
           urn == CapsuleUrn(s, r)
           key == RetrievalKey(urn)
           i == Len(answer.tip)
<1>1. step = "root" /\ TipAnswered /\ s \in Stores
  BY WantedType DEF ClientInv, LookUp
<1>2. /\ i \in 1 .. Len(Path(s)) /\ Path(s) # << >> /\ r \in Roots
      /\ r = Path(s)[i].root /\ Len(atStart.path) <= i /\ ~atStart.melted
  BY <1>1, TipIsGeneration DEF ClientInv, ReadInv
<1>3. /\ pinned' = Some(urn) /\ UNCHANGED <<wanted, bucket, cache, discarded, atStart>>
      /\ \/ key \in DOMAIN cache /\ step' = "served" /\ served' = Some(cache[key])
         \/ step' = "download" /\ served' = served
  BY DEF LookUp
<1>4. Lineages' /\ CallInv' /\ store' = store
  BY StoreStands DEF LookUp
<1>5. key \in DOMAIN cache =>
        cache[key] \in Module /\ cache[key].store = s /\ cache[key].root = r
  BY <1>1, <1>2, FoundIsPinned
<1>6. Some(urn) \in Option({CapsuleUrn(t, q) : t \in Stores, q \in Roots})
  <2>1. urn \in {CapsuleUrn(t, q) : t \in Stores, q \in Roots}
    BY <1>1, <1>2
  <2>2. QED  BY <2>1, SomeType
<1>7. ClientTypeOK'
  <2>1. served' \in Option(Module)
    BY <1>3, <1>5, SomeType DEF ClientInv, ClientTypeOK
  <2>2. step' \in {"idle", "size", "root", "download", "served"}
    BY <1>3
  <2>3. QED  BY <1>3, <1>4, <1>6, <2>1, <2>2 DEF ClientInv, ClientTypeOK
<1>8. SinceStart'
  BY <1>1, <1>3, <1>4 DEF ClientInv, SinceStart, Path
<1>9. ReadInv'
  BY <1>1, <1>2, <1>3, <1>4 DEF ClientInv, ReadInv, Path
<1>10. ServedInv'
  <2>1. CASE step' = "served" /\ served' = Some(cache[key]) /\ key \in DOMAIN cache
    <3>1. served' # None /\ served'[1] = cache[key]
      BY <2>1, <1>5, SomeType
    <3>2. QED  BY <1>2, <1>3, <1>4, <1>5, <2>1, <3>1 DEF ServedInv, Path
  <2>2. CASE step' = "download"
    BY <2>2 DEF ServedInv
  <2>3. QED  BY <1>3, <2>1, <2>2
<1>11. CacheInv' /\ DiscardInv'
  BY <1>3, <1>4 DEF ClientInv, CacheInv, DiscardInv, CommittedAs, Path
<1>12. QED  BY <1>4, <1>7, <1>8, <1>9, <1>10, <1>11 DEF ClientInv

\* The client gives up.
LEMMA IdleInv ==
  ASSUME ClientInv, step' = "idle",
         UNCHANGED <<atomicVars, wanted, bucket, pinned, cache, served, discarded, atStart>>
  PROVE  ClientInv'
<1>1. Lineages' /\ CallInv' /\ store' = store
  BY StoreStands
<1>2. ClientTypeOK'
  BY <1>1 DEF ClientInv, ClientTypeOK
<1>3. SinceStart' /\ ReadInv' /\ ServedInv'
  BY DEF SinceStart, ReadInv, ServedInv
<1>4. CacheInv' /\ DiscardInv'
  BY <1>1 DEF ClientInv, CacheInv, DiscardInv, CommittedAs, Path
<1>5. QED  BY <1>1, <1>2, <1>3, <1>4 DEF ClientInv

LEMMA RejectInv ==
  ASSUME ClientInv, UNCHANGED <<step, cache, served, discarded>>,
         UNCHANGED <<atomicVars, wanted, bucket, pinned, atStart>>
  PROVE  ClientInv'
<1>1. Lineages' /\ CallInv' /\ store' = store /\ TipAnswered' = TipAnswered /\ answer' = answer
      /\ id' = id
  BY StoreStands DEF TipAnswered
<1>2. ClientTypeOK' /\ SinceStart' /\ ReadInv'
  BY <1>1 DEF ClientInv, ClientTypeOK, SinceStart, ReadInv, Path
<1>3. CacheInv' /\ ServedInv' /\ DiscardInv'
  BY <1>1 DEF ClientInv, CacheInv, ServedInv, DiscardInv, CommittedAs, Path
<1>4. QED  BY <1>1, <1>2, <1>3 DEF ClientInv

\* What is pinned while the client downloads.
LEMMA DownloadIsPinned ==
  ASSUME ClientInv, step = "download", NEW m \in Module, IsPinned(m)
  PROVE  /\ m.store = wanted.store /\ m.store \in Stores /\ m.root \in Roots /\ m.bytes \in Nat
         /\ Path(m.store) # << >> /\ bucket[1] = Path(m.store)[1].size
         /\ Path(m.store)[1].size \in SizeBucket
         /\ ~atStart.melted
         /\ \E i \in 1 .. Len(Path(m.store)) :
              Len(atStart.path) <= i /\ Path(m.store)[i].root = m.root
<1>1. /\ m.store = wanted.store /\ m.root = pinned[1].root[1]
  BY PinnedModule
<1>2. m.store \in Stores /\ m.root \in Roots /\ m.bytes \in Nat
  BY ClientAssumption DEF Module
<1>3. Path(m.store) # << >> /\ bucket = Some(Path(m.store)[1].size) /\ ~atStart.melted
  BY <1>1 DEF ClientInv, ReadInv
<1>4. Path(m.store)[1].size \in SizeBucket
  <2>1. 1 \in 1 .. Len(Path(m.store))
    BY <1>2, <1>3, GenerationType DEF ClientInv
  <2>2. QED  BY <1>2, <2>1, GenerationType, SizesAreNat DEF ClientInv
<1>5. bucket[1] = Path(m.store)[1].size
  BY <1>3 DEF Some
<1>6. PICK i \in 1 .. Len(Path(m.store)) :
        /\ Len(atStart.path) <= i
        /\ pinned = Some(CapsuleUrn(wanted.store, Path(m.store)[i].root))
  BY <1>1 DEF ClientInv, ReadInv
<1>7. Path(m.store)[i].root \in Roots
  BY <1>2, GenerationType DEF ClientInv
<1>8. m.root = Path(m.store)[i].root
  <2>1. m.root = pinned[1].root[1]
    BY <1>1, PinnedModule
  <2>2. pinned[1] = CapsuleUrn(wanted.store, Path(m.store)[i].root)
    BY <1>6, SomeValue
  <2>3. CapsuleUrn(wanted.store, Path(m.store)[i].root).root[1] = Path(m.store)[i].root
    BY SomeValue DEF CapsuleUrn
  <2>4. QED  BY <2>1, <2>2, <2>3
<1>9. QED  BY <1>1, <1>2, <1>3, <1>4, <1>5, <1>6, <1>8

LEMMA DiscardIsInv ==
  ASSUME ClientInv, step = "download", NEW m \in Module, Discard(m),
         UNCHANGED <<atomicVars, wanted, bucket, pinned, atStart>>
  PROVE  ClientInv'
<1> DEFINE d == [module |-> m, error |-> Require(bucket[1], m.bytes)]
<1>1. /\ IsPinned(m) /\ d.error.kind # "Ok" /\ discarded' = Some(d)
      /\ UNCHANGED <<step, cache, served>>
  BY DEF Discard
<1>2. discarded' # None /\ discarded'[1] = d
  BY <1>1 DEF Some, None
<1>3. Path(m.store) # << >> /\ bucket[1] = Path(m.store)[1].size
  BY <1>1, DownloadIsPinned
<1>4. Lineages' /\ CallInv' /\ store' = store
  BY StoreStands
<1>5. DiscardInv'
  <2>1. d.module = m /\ d.error = Require(bucket[1], m.bytes)
    OBVIOUS
  <2>2. Path(m.store)' = Path(m.store)
    BY <1>4 DEF Path
  <2>3. QED  BY <1>1, <1>2, <1>3, <2>1, <2>2 DEF DiscardInv
<1>6. ClientTypeOK'
  BY <1>1, <1>2, <1>4 DEF ClientInv, ClientTypeOK
<1>7. SinceStart' /\ ReadInv' /\ ServedInv' /\ CacheInv'
  BY <1>1, <1>4 DEF ClientInv, SinceStart, ReadInv, ServedInv, CacheInv, CommittedAs, Path
<1>8. QED  BY <1>4, <1>5, <1>6, <1>7 DEF ClientInv

LEMMA KeepInv ==
  ASSUME ClientInv, step = "download", NEW m \in Module, Keep(m),
         UNCHANGED <<atomicVars, wanted, bucket, pinned, atStart>>
  PROVE  ClientInv'
<1> DEFINE key == RetrievalKey(CapsuleUrn(m.store, m.root))
<1>1. /\ IsPinned(m) /\ Require(bucket[1], m.bytes).kind = "Ok"
      /\ step' = "served" /\ served' = Some(m) /\ discarded' = discarded
  BY DEF Keep
<1>2. /\ m.store = wanted.store /\ m.store \in Stores /\ m.root \in Roots /\ m.bytes \in Nat
      /\ Path(m.store) # << >> /\ bucket[1] = Path(m.store)[1].size
      /\ Path(m.store)[1].size \in SizeBucket
      /\ ~atStart.melted
      /\ \E i \in 1 .. Len(Path(m.store)) :
           Len(atStart.path) <= i /\ Path(m.store)[i].root = m.root
  BY <1>1, DownloadIsPinned
<1>3. cache' = [k \in DOMAIN cache \cup {key} |-> IF k = key THEN m ELSE cache[k]]
  <2>1. Key(OpenCapsule(m, wanted.store)[1]) = key
    <3>1. OpenCapsule(m, wanted.store)[1] = [store_id |-> m.store, root_hash |-> m.root]
      BY <1>1, PinnedModule
    <3>2. QED  BY <3>1 DEF Key
  <2>2. QED  BY <2>1 DEF Keep
<1>4. InInterval(Path(m.store)[1].size, m.bytes)
  <2>1. Verify(bucket[1], m.bytes) = "Accept"
    BY <1>1 DEF Require
  <2>2. QED  BY <1>2, <2>1, VerifyExact DEF AcceptsItsInterval
<1>5. Lineages' /\ CallInv' /\ store' = store
  BY StoreStands
<1>6. CacheInv'
  <2> SUFFICES ASSUME NEW k \in DOMAIN cache'
               PROVE  /\ cache'[k] \in Module
                      /\ k = RetrievalKey(CapsuleUrn(cache'[k].store, cache'[k].root))
                      /\ \E i \in 1 .. Len(Path(cache'[k].store)) : CommittedAs(cache'[k], i)
    BY <1>5 DEF CacheInv, CommittedAs, Path
  <2>1. CASE k = key
    <3>1. cache'[k] = m
      BY <1>3, <2>1
    <3>2. \E i \in 1 .. Len(Path(m.store)) : CommittedAs(m, i)
      BY <1>2, <1>4 DEF ClientInv, Lineages, CommittedAs, Path
    <3>3. QED  BY <2>1, <3>1, <3>2
  <2>2. CASE k # key
    <3>1. k \in DOMAIN cache /\ cache'[k] = cache[k]
      BY <1>3, <2>2
    <3>2. QED  BY <3>1 DEF ClientInv, CacheInv
  <2>3. QED  BY <2>1, <2>2
<1>7. ServedInv'
  <2>1. served' # None /\ served'[1] = m
    BY <1>1, SomeType
  <2>2. QED  BY <1>1, <1>2, <1>5, <2>1 DEF ServedInv, Path
<1>8. ClientTypeOK'
  <2>1. DOMAIN cache' \subseteq {RetrievalKey(CapsuleUrn(s, r)) : s \in Stores, r \in Roots}
    BY <1>2, <1>3 DEF ClientInv, ClientTypeOK
  <2>2. served' \in Option(Module)
    BY <1>1, SomeType
  <2>3. \A k \in DOMAIN cache' : cache'[k] \in Module
    BY <1>6 DEF CacheInv
  <2>4. QED  BY <1>1, <1>5, <2>1, <2>2, <2>3 DEF ClientInv, ClientTypeOK
<1>9. SinceStart' /\ ReadInv' /\ DiscardInv'
  BY <1>1, <1>5 DEF ClientInv, SinceStart, ReadInv, DiscardInv, Path
<1>10. QED  BY <1>5, <1>6, <1>7, <1>8, <1>9 DEF ClientInv

LEMMA ReceiveInv ==
  ASSUME ClientInv, NEW m \in Module, Receive(m)
  PROVE  ClientInv'
<1>1. step = "download" /\ UNCHANGED <<atomicVars, wanted, bucket, pinned, atStart>>
  BY DEF Receive
<1>2. CASE Reject(m)
  BY <1>1, <1>2, RejectInv DEF Reject
<1>3. CASE Discard(m)
  BY <1>1, <1>3, DiscardIsInv
<1>4. CASE Keep(m)
  BY <1>1, <1>4, KeepInv
<1>5. QED  BY <1>2, <1>3, <1>4 DEF Receive

LEMMA StepInv == ClientInv /\ [Next]_vars => ClientInv'
<1> SUFFICES ASSUME ClientInv, [Next]_vars PROVE ClientInv'
  OBVIOUS
<1>1. CASE \E s \in Stores : Publish(s)
  BY <1>1, PublishInv
<1>2. CASE Look /\ UNCHANGED clientVars
  BY <1>2, LookInv
<1>3. CASE Client
  <2>1. CASE \E s \in Stores : AskSize(s)
    BY <2>1, AskSizeInv
  <2>2. CASE AskRoot
    BY <2>2, AskRootInv
  <2>3. CASE LookUp
    BY <2>3, LookUpInv
  <2>4. CASE GiveUp \/ Abandon
    BY <2>4, IdleInv DEF GiveUp, Abandon
  <2>5. CASE \E m \in Module : Receive(m)
    BY <2>5, ReceiveInv
  <2>6. QED  BY <1>3, <2>1, <2>2, <2>3, <2>4, <2>5 DEF Client
<1>4. CASE UNCHANGED vars
  BY <1>4, RejectInv DEF vars, clientVars
<1>5. QED  BY <1>1, <1>2, <1>3, <1>4 DEF Next

LEMMA ClientInvariant == Spec => []ClientInv
<1>1. QED  BY InitInv, StepInv, PTL DEF Spec

-----------------------------------------------------------------------------
\* The type invariant of the client (StoreClient!ClientTypeOK).
THEOREM ClientTypeCorrect == Spec => []ClientTypeOK
<1>1. ClientInv => ClientTypeOK
  BY DEF ClientInv
<1>2. QED  BY <1>1, ClientInvariant, PTL

\* A node keeps only what one generation committed to, root and size
\* together, although it read them with two walks (store.rs:42-52, 170-178).
THEOREM KeptCorrect == Spec => []KeptIsCommitted
<1>1. ClientInv => KeptIsCommitted
  BY GenerationType DEF ClientInv, CacheInv, KeptIsCommitted, Module, Path
<1>2. QED  BY <1>1, ClientInvariant, PTL

\* What is served is of the store asked for, and was its latest generation
\* at some moment since the client was asked (capsule.rs:65-66).
THEOREM ServedCorrect == Spec => []ServedIsCurrent
<1>1. ClientInv => ServedIsCurrent
  BY WantedType, GenerationType DEF ClientInv, ServedInv, ServedIsCurrent, Path
<1>2. QED  BY <1>1, ClientInvariant, PTL

\* The error of a discarded module names the bucket of the whole lineage
\* and another one (size.rs:69-74).
THEOREM ErrorCorrect == Spec => []ErrorIsTelling
<1>1. ASSUME ClientInv, discarded # None
      PROVE  LET m == discarded[1].module
                 e == discarded[1].error
             IN /\ \A i \in DOMAIN store[m.store].path : store[m.store].path[i].size = e.anchored_k
                /\ e.actual_k # e.anchored_k
                /\ IF m.bytes > ByteLen[MaxExponent] THEN e.actual_k = OverCeiling
                   ELSE e.actual_k \in SizeBucket /\ InInterval(e.actual_k, m.bytes)
  <2> DEFINE m == discarded[1].module
             e == discarded[1].error
             k == Path(m.store)[1].size
  <2>1. m \in Module /\ Path(m.store) # << >> /\ e = Require(k, m.bytes) /\ e.kind # "Ok"
    BY <1>1 DEF ClientInv, DiscardInv
  <2>2. m.store \in Stores /\ m.bytes \in Nat
    BY <2>1, ClientAssumption DEF Module
  <2>3. /\ DOMAIN Path(m.store) = 1 .. Len(Path(m.store))
        /\ 1 \in 1 .. Len(Path(m.store)) /\ k \in SizeBucket
    BY <1>1, <2>1, <2>2, GenerationType, SizesAreNat DEF ClientInv
  <2>4. e.kind = "SizeProofMismatch"
    BY <2>1 DEF Require
  <2>5. /\ e.anchored_k = k /\ e.actual_k # k
        /\ e.actual_k = OverCeiling <=> m.bytes > ByteLen[MaxExponent]
        /\ e.actual_k # OverCeiling => Verify(e.actual_k, m.bytes) = "Accept"
    BY <2>1, <2>2, <2>3, <2>4, RequireTelling DEF MismatchIsTelling
  <2>6. ASSUME Verify(e.actual_k, m.bytes) = "Accept"
        PROVE  e.actual_k \in SizeBucket /\ InInterval(e.actual_k, m.bytes)
    <3>1. e.actual_k \in SizeBucket
      BY <2>6 DEF Verify, ForByteLen
    <3>2. QED  BY <2>2, <2>6, <3>1, VerifyExact DEF AcceptsItsInterval
  <2>7. \A i \in DOMAIN store[m.store].path : store[m.store].path[i].size = e.anchored_k
    BY <1>1, <2>2, <2>3, <2>5 DEF ClientInv, Lineages, Path
  <2>8. QED  BY <2>5, <2>6, <2>7
<1>2. ClientInv => ErrorIsTelling
  BY <1>1 DEF ErrorIsTelling
<1>3. QED  BY <1>2, ClientInvariant, PTL

\* What was published is discarded only if a modify anchored it and its
\* length lies outside the bucket of the mint (lifecycle.rs:148-151).
THEOREM DiscardCorrect == Spec => []DiscardedIsOutgrown
<1>1. ASSUME ClientInv, discarded # None,
             discarded[1].module.bytes = Compiled[discarded[1].module.root]
      PROVE  LET m == discarded[1].module
                 mint == store[m.store].path[1]
             IN m.root # mint.root /\ ~InInterval(mint.size, m.bytes)
  <2> DEFINE m == discarded[1].module
             mint == Path(m.store)[1]
  <2>1. m \in Module /\ Path(m.store) # << >> /\ Require(mint.size, m.bytes).kind # "Ok"
    BY <1>1 DEF ClientInv, DiscardInv
  <2>2. m.store \in Stores /\ m.bytes \in Nat
    BY <2>1, ClientAssumption DEF Module
  <2>3. mint.size \in SizeBucket
    BY <1>1, <2>1, <2>2, GenerationType, SizesAreNat DEF ClientInv
  <2>4. Verify(mint.size, m.bytes) # "Accept"
    BY <2>1 DEF Require
  <2>5. ~InInterval(mint.size, m.bytes)
    BY <2>2, <2>3, <2>4, VerifyExact DEF AcceptsItsInterval
  <2>6. ASSUME m.root = mint.root PROVE FALSE
    <3>1. mint.size \in ForByteLen(m.bytes)
      BY <1>1, <2>1, <2>2, <2>6 DEF ClientInv, Lineages
    <3>2. ForByteLen(m.bytes) = {mint.size}
      BY <2>2, <3>1, ForByteLenUnique
    <3>3. QED  BY <2>4, <3>2 DEF Verify
  <2>7. QED  BY <2>5, <2>6 DEF Path
<1>2. ClientInv => DiscardedIsOutgrown
  BY <1>1 DEF DiscardedIsOutgrown
<1>3. QED  BY <1>2, ClientInvariant, PTL
=============================================================================
