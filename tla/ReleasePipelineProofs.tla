----------------------- MODULE ReleasePipelineProofs -----------------------
(***************************************************************************)
(* Theorems about the release pipeline: its type invariant, and the safety *)
(* properties of tags, release commits and releases.  They hold of any     *)
(* number of versions, failures, runs run again and publishes by hand.     *)
(***************************************************************************)
EXTENDS ReleasePipeline, TLAPS

Option(S) == {None} \cup {Some(x) : x \in S}

RunRecord ==
  [at : Nat \ {0}, step : {"prepare", "main", "tag"}, local : Option(Commit)]
PublishRecord ==
  [commit : Commit, asked : Option(Versions), step : {"publish", "release"}, failed : BOOLEAN]

OnMain(c) == \E i \in 1 .. Len(main) : main[i] = c

Types ==
  /\ main \in Seq(Commit)
  /\ tags \subseteq [version : Versions, commit : Commit]
  /\ running \in Option(RunRecord) /\ pending \in Option(RunRecord)
  /\ over \subseteq 1 .. Len(main)
  /\ publishing \subseteq PublishRecord
  /\ crates \subseteq [commit : Commit, asked : Option(Versions)]
  /\ releases \subseteq Commit
  /\ reruns \in Nat

\* Runs are for commits of main; the one that waits has not begun.
QueueInv ==
  /\ running # None => running[1].at \in 1 .. Len(main)
  /\ pending # None => /\ running # None /\ pending[1].step = "prepare"
                       /\ pending[1].at \in 1 .. Len(main)

\* What the run has committed: a release commit on its event's commit, or
\* that commit itself.  Once past the push it is on main.
LocalInv ==
  running # None /\ running[1].step # "prepare" =>
    /\ running[1].local # None
    /\ ~Event.release
    /\ Local.inSync /\ Local.version = Event.version
    /\ Local.release \/ Local = Event
    /\ running[1].step = "tag" => OnMain(Local)

\* A run of publish.yml by a tag works on the tag's commit, and gets to its
\* second job only with that commit published.
PublishInv ==
  \A p \in publishing :
    /\ p.asked = None => [version |-> p.commit.version, commit |-> p.commit] \in tags
    /\ p.step = "release" => p.asked = None /\ \E c \in crates : c.commit = p.commit

GitInv == TagsOnMain /\ TaggedIsInSync /\ LoopSafe

PipelineInv == Types /\ QueueInv /\ LocalInv /\ PublishInv /\ GitInv /\ ReleasedIsPublished

-----------------------------------------------------------------------------
LEMMA SomeInOption ==
  ASSUME NEW S, NEW x \in S
  PROVE  Some(x) \in Option(S) /\ Some(x) # None /\ Some(x)[1] = x
  BY DEF Option, Some, None

LEMMA OptionCases ==
  ASSUME NEW S, NEW o \in Option(S), o # None
  PROVE  o[1] \in S /\ o = Some(o[1])
  BY DEF Option, Some, None

LEMMA RunType ==
  ASSUME NEW at \in Nat \ {0}
  PROVE  /\ Run(at) \in RunRecord
         /\ Run(at).at = at /\ Run(at).step = "prepare"
  BY DEF Run, RunRecord, Option

\* A commit is pushed on top of main.
LEMMA Pushed ==
  ASSUME main \in Seq(Commit), NEW c \in Commit, main' = Append(main, c)
  PROVE  /\ main' \in Seq(Commit)
         /\ Len(main) \in Nat /\ Len(main') = Len(main) + 1
         /\ \A i \in 1 .. Len(main) : main'[i] = main[i] /\ i \in 1 .. Len(main')
         /\ main'[Len(main) + 1] = c
         /\ \A x : OnMain(x) => OnMain(x)'
<1>1. /\ main' \in Seq(Commit)
      /\ Len(main) \in Nat /\ Len(main') = Len(main) + 1
      /\ \A i \in 1 .. Len(main) : main'[i] = main[i] /\ i \in 1 .. Len(main')
      /\ main'[Len(main) + 1] = c
  OBVIOUS
<1>2. QED  BY <1>1 DEF OnMain

\* A run is queued: it waits, or begins, and it has not done anything yet.
LEMMA EnqueueType ==
  ASSUME NEW at \in Nat \ {0}, NEW current \in Option(RunRecord),
         pending \in Option(RunRecord), over \subseteq Nat, Enqueue(Run(at), current)
  PROVE  /\ running' \in Option(RunRecord) /\ pending' \in Option(RunRecord)
         /\ current # None => running' = current /\ pending' = Some(Run(at))
         /\ current = None => running' = Some(Run(at)) /\ pending' = pending
         /\ over' \subseteq over \cup {pending[1].at}
         /\ pending = None => over' = over
<1>1. Some(Run(at)) \in Option(RunRecord)
  BY RunType, SomeInOption
<1>2. {pending} \ {None} = (IF pending = None THEN {} ELSE {pending})
  OBVIOUS
<1>3. QED  BY <1>1, <1>2 DEF Enqueue

-----------------------------------------------------------------------------
(* The state of git and of the queue.                                      *)

GitState == Types /\ QueueInv /\ LocalInv /\ GitInv

\* main grows by c, the tags stay, and what was known of tags and of the
\* local commit of a run remains true.
LEMMA GitGrows ==
  ASSUME GitState, NEW c \in Commit, main' = Append(main, c), tags' = tags,
         c.release => Len(main) > 0 /\ ~main[Len(main)].release
  PROVE  GitInv'
<1>1. TagsOnMain'
  <2>1. \A t \in tags : OnMain(t.commit)
    BY DEF GitState, GitInv, TagsOnMain, OnMain, Types
  <2>2. \A t \in tags' : OnMain(t.commit)'
    BY <2>1, Pushed DEF GitState, Types
  <2>3. DOMAIN main' = 1 .. Len(main')
    BY Pushed DEF GitState, Types
  <2>4. QED  BY <2>2, <2>3 DEF TagsOnMain, OnMain
<1>2. TaggedIsInSync'
  BY DEF GitState, GitInv, TaggedIsInSync
<1>3. LoopSafe'
  <2> SUFFICES ASSUME NEW i \in DOMAIN main', main'[i].release
               PROVE  i > 1 /\ ~main'[i - 1].release
    BY DEF LoopSafe
  <2>1. i \in 1 .. Len(main) + 1 /\ DOMAIN main = 1 .. Len(main) /\ Len(main) \in Nat
    BY Pushed DEF GitState, Types
  <2>2. CASE i \in 1 .. Len(main)
    <3>1. main'[i] = main[i]
      BY <2>2, Pushed DEF GitState, Types
    <3>2. i > 1 /\ ~main[i - 1].release
      BY <2>1, <2>2, <3>1 DEF GitState, GitInv, LoopSafe
    <3>3. main'[i - 1] = main[i - 1]
      BY <2>2, <3>2, Pushed DEF GitState, Types
    <3>4. QED  BY <3>2, <3>3
  <2>3. CASE i = Len(main) + 1
    <3>1. main'[i] = c
      BY <2>3, Pushed DEF GitState, Types
    <3>2. Len(main) > 0 /\ ~main[Len(main)].release
      BY <3>1
    <3>3. Len(main) \in 1 .. Len(main) /\ i - 1 = Len(main) /\ i > 1
      BY <2>1, <2>3, <3>2
    <3>4. main'[i - 1] = main[i - 1]
      BY <3>3, Pushed DEF GitState, Types
    <3>5. QED  BY <3>2, <3>3, <3>4
  <2>4. QED  BY <2>1, <2>2, <2>3
<1>4. QED  BY <1>1, <1>2, <1>3 DEF GitInv

\* The run in progress goes on, and main stays or grows.
LEMMA LocalKept ==
  ASSUME GitState, running' = running, running # None,
         \/ main' = main
         \/ \E c \in Commit : main' = Append(main, c)
  PROVE  LocalInv'
<1>1. running[1].at \in 1 .. Len(main)
  BY DEF GitState, QueueInv
<1>2. main'[running[1].at] = main[running[1].at] /\ \A x : OnMain(x) => OnMain(x)'
  <2>1. CASE main' = main
    BY <2>1 DEF OnMain
  <2>2. CASE \E c \in Commit : main' = Append(main, c)
    BY <1>1, <2>2, Pushed DEF GitState, Types
  <2>3. QED  BY <2>1, <2>2
<1>3. Event' = Event /\ Local' = Local
  BY <1>2 DEF Event, Local
<1>4. QED  BY <1>2, <1>3 DEF GitState, LocalInv

\* A run that has not begun has committed nothing.
LEMMA LocalFresh ==
  ASSUME running' = None \/ running'[1].step = "prepare"
  PROVE  LocalInv'
  BY DEF LocalInv

\* Nothing of git changes.
LEMMA GitKept ==
  ASSUME GitInv, UNCHANGED gitVars
  PROVE  GitInv'
  BY DEF GitInv, gitVars, TagsOnMain, TaggedIsInSync, LoopSafe

\* Nothing changes for publish.yml, or there are only more tags.
LEMMA PublishKept ==
  ASSUME PublishInv, ReleasedIsPublished, UNCHANGED publishVars, tags \subseteq tags'
  PROVE  PublishInv' /\ ReleasedIsPublished'
  BY DEF PublishInv, ReleasedIsPublished, publishVars

\* A run ends, successfully or not, and the one that waits begins.
LEMMA EndRunKeeps ==
  ASSUME PipelineInv, running # None, EndRun, main' = main, GitInv',
         over' \subseteq over \cup {running[1].at}
  PROVE  /\ running' \in Option(RunRecord) /\ pending' \in Option(RunRecord)
         /\ over' \subseteq 1 .. Len(main')
         /\ QueueInv' /\ LocalInv' /\ GitInv'
<1>1. running' = pending /\ pending' = None
  BY DEF EndRun
<1>2. running' \in Option(RunRecord) /\ pending' \in Option(RunRecord)
  BY <1>1 DEF PipelineInv, Types, Option
<1>3. over' \subseteq 1 .. Len(main')
  BY DEF PipelineInv, Types, QueueInv
<1>4. QueueInv'
  BY <1>1 DEF PipelineInv, QueueInv
<1>5. LocalInv'
  BY <1>1, LocalFresh DEF PipelineInv, QueueInv
<1>6. QED  BY <1>2, <1>3, <1>4, <1>5

-----------------------------------------------------------------------------
(* One lemma for each action.                                              *)

LEMMA InitInv == Init => PipelineInv
<1> SUFFICES ASSUME Init PROVE PipelineInv
  OBVIOUS
<1>1. main \in Seq(Commit) /\ Len(main) = 0
  BY DEF Init
<1>2. Types
  BY <1>1 DEF Init, Types, Option
<1>3. QueueInv /\ LocalInv /\ PublishInv /\ ReleasedIsPublished
  BY DEF Init, QueueInv, LocalInv, PublishInv, ReleasedIsPublished
<1>4. GitInv
  BY <1>1 DEF Init, GitInv, TagsOnMain, TaggedIsInSync, LoopSafe
<1>5. QED  BY <1>2, <1>3, <1>4 DEF PipelineInv

LEMMA SkipInv == ASSUME PipelineInv, Skip PROVE PipelineInv'
<1>1. /\ running # None /\ EndRun /\ over' = over
      /\ UNCHANGED gitVars /\ UNCHANGED publishVars /\ reruns' = reruns /\ main' = main /\ tags' = tags
  BY DEF Skip, At, gitVars, counters
<1>2. GitInv'
  BY <1>1, GitKept DEF PipelineInv
<1>3. PublishInv' /\ ReleasedIsPublished'
  BY <1>1, PublishKept DEF PipelineInv
<1>4. /\ running' \in Option(RunRecord) /\ pending' \in Option(RunRecord)
      /\ over' \subseteq 1 .. Len(main')
      /\ QueueInv' /\ LocalInv'
  BY <1>1, <1>2, EndRunKeeps
<1>5. Types'
  BY <1>1, <1>4 DEF PipelineInv, Types, publishVars
<1>6. QED  BY <1>2, <1>3, <1>4, <1>5 DEF PipelineInv

LEMMA EndFailedInv ==
  ASSUME PipelineInv, running # None, EndFailed,
         UNCHANGED <<gitVars, publishVars, reruns>>
  PROVE  PipelineInv'
<1>1. /\ EndRun /\ over' = over \cup {running[1].at}
      /\ UNCHANGED gitVars /\ UNCHANGED publishVars /\ reruns' = reruns
      /\ main' = main /\ tags' = tags
  BY DEF EndFailed, gitVars
<1>2. GitInv'
  BY <1>1, GitKept DEF PipelineInv
<1>3. PublishInv' /\ ReleasedIsPublished'
  BY <1>1, PublishKept DEF PipelineInv
<1>4. /\ running' \in Option(RunRecord) /\ pending' \in Option(RunRecord)
      /\ over' \subseteq 1 .. Len(main')
      /\ QueueInv' /\ LocalInv'
  BY <1>1, <1>2, EndRunKeeps
<1>5. Types'
  BY <1>1, <1>4 DEF PipelineInv, Types, publishVars
<1>6. QED  BY <1>2, <1>3, <1>4, <1>5 DEF PipelineInv

LEMMA PushRejectedInv == ASSUME PipelineInv, PushRejected PROVE PipelineInv'
  BY EndFailedInv DEF PushRejected, At, counters

LEMMA FailInv == ASSUME PipelineInv, Fail PROVE PipelineInv'
  BY EndFailedInv DEF Fail

\* What the run commits is in sync, has the version of its event, and is
\* that event's commit unless it is a release commit.
LEMMA ReleaseCommitType ==
  ASSUME PipelineInv, running # None, NEW changed \in BOOLEAN
  PROVE  LET c == ReleaseCommit(changed) IN
         /\ c \in Commit /\ c.inSync /\ c.version = Event.version
         /\ c.release \/ c = Event
<1>1. running[1].at \in 1 .. Len(main) /\ running[1].at \in Nat
  BY DEF PipelineInv, QueueInv, Types
<1>2. Event \in Commit
  BY <1>1 DEF PipelineInv, Types, Event
<1>3. reruns \in Nat
  BY DEF PipelineInv, Types
<1>4. CASE changed \/ ~Event.inSync
  BY <1>1, <1>2, <1>3, <1>4 DEF ReleaseCommit, Commit
<1>5. CASE ~(changed \/ ~Event.inSync)
  BY <1>2, <1>5 DEF ReleaseCommit
<1>6. QED  BY <1>4, <1>5

LEMMA PrepareInv == ASSUME PipelineInv, Prepare PROVE PipelineInv'
<1>1. PICK changed \in BOOLEAN :
        running' = Some([running[1] EXCEPT !.step = "main", !.local = Some(ReleaseCommit(changed))])
  BY DEF Prepare
<1> DEFINE c == ReleaseCommit(changed)
           run == [running[1] EXCEPT !.step = "main", !.local = Some(c)]
<1>2. /\ running # None /\ ~Event.release
      /\ UNCHANGED gitVars /\ UNCHANGED publishVars
      /\ main' = main /\ tags' = tags /\ pending' = pending /\ over' = over /\ reruns' = reruns
  BY DEF Prepare, At, IsNoOp, gitVars, counters
<1>3. running[1] \in RunRecord
  BY <1>2, OptionCases DEF PipelineInv, Types
<1>4. /\ c \in Commit /\ c.inSync /\ c.version = Event.version
      /\ c.release \/ c = Event
  BY <1>2, ReleaseCommitType
<1>5. /\ run \in RunRecord /\ run.step = "main" /\ run.local = Some(c)
      /\ run.at = running[1].at
  <2> HIDE DEF c
  <2> QED  BY <1>3, <1>4, SomeInOption DEF RunRecord
<1>6. running' \in Option(RunRecord) /\ running' # None /\ running'[1] = run
  <2> HIDE DEF run
  <2>1. running' = Some(run)
    BY <1>1 DEF run
  <2> QED  BY <1>5, <2>1, SomeInOption
<1>7. Event' = Event /\ Local' = c /\ running'[1].step = "main" /\ running'[1].local # None
  <2>1. Local' = Some(c)[1] /\ Some(c) # None
    BY <1>4, <1>5, <1>6, SomeInOption DEF Local
  <2>2. Local' = c
    BY <1>4, <2>1, SomeInOption
  <2>3. QED  BY <1>2, <1>5, <1>6, <2>1, <2>2 DEF Event
<1>8. LocalInv'
  <2> HIDE DEF c, run
  <2> QED  BY <1>2, <1>4, <1>7 DEF LocalInv
<1>9. QueueInv'
  BY <1>2, <1>5, <1>6 DEF PipelineInv, QueueInv
<1>10. Types'
  BY <1>2, <1>6 DEF PipelineInv, Types, publishVars
<1>11. GitInv'
  BY <1>2, GitKept DEF PipelineInv
<1>12. PublishInv' /\ ReleasedIsPublished'
  BY <1>2, PublishKept DEF PipelineInv
<1>13. QED  BY <1>8, <1>9, <1>10, <1>11, <1>12 DEF PipelineInv

LEMMA PushMainInv == ASSUME PipelineInv, PushMain PROVE PipelineInv'
<1> DEFINE run == [running[1] EXCEPT !.step = "tag"]
<1>1. /\ running # None /\ running[1].step = "main" /\ Len(main) = running[1].at
      /\ UNCHANGED publishVars /\ tags' = tags /\ reruns' = reruns
  BY DEF PushMain, At, FastForward, counters
<1>2. running[1] \in RunRecord /\ running[1].at \in 1 .. Len(main)
  BY <1>1, OptionCases DEF PipelineInv, Types, QueueInv
<1>3. /\ running[1].local # None /\ ~Event.release
      /\ Local.inSync /\ Local.version = Event.version
      /\ Local.release \/ Local = Event
  BY <1>1 DEF PipelineInv, LocalInv
<1>4. Local \in Commit
  BY <1>2, <1>3, OptionCases DEF Local, RunRecord
<1>5. run \in RunRecord /\ run.step = "tag" /\ run.local = running[1].local /\ run.at = running[1].at
  BY <1>2 DEF RunRecord
<1>6. Some(run) \in Option(RunRecord) /\ Some(run) # None /\ Some(run)[1] = run
  <2> HIDE DEF run
  <2> QED  BY <1>5, SomeInOption
<1>7. PublishInv' /\ ReleasedIsPublished'
  BY <1>1, PublishKept DEF PipelineInv
<1>8. CASE Local = Event
  <2>1. running' = Some(run) /\ UNCHANGED <<main, pending, over>>
    BY <1>8 DEF PushMain
  <2>2. Event' = Event /\ Local' = Local /\ running'[1] = run /\ running' # None
    BY <1>5, <1>6, <2>1 DEF Event, Local
  <2>3. OnMain(Local)'
    BY <1>2, <1>8, <2>1, <2>2 DEF OnMain, Event
  <2>4. LocalInv'
    <3> HIDE DEF run
    <3> QED  BY <1>3, <1>5, <2>2, <2>3 DEF LocalInv
  <2>5. QueueInv'
    BY <1>1, <1>5, <2>1, <2>2 DEF PipelineInv, QueueInv
  <2>6. Types'
    BY <1>1, <1>6, <2>1 DEF PipelineInv, Types, publishVars
  <2>7. GitInv'
    BY <1>1, <2>1, GitKept DEF PipelineInv, gitVars
  <2>8. QED  BY <1>7, <2>4, <2>5, <2>6, <2>7 DEF PipelineInv
<1>9. CASE Local # Event
  <2>1. main' = Append(main, Local) /\ Enqueue(Run(Len(main) + 1), Some(run))
    BY <1>9 DEF PushMain
  <2>2. /\ main' \in Seq(Commit)
        /\ Len(main) \in Nat /\ Len(main') = Len(main) + 1
        /\ \A i \in 1 .. Len(main) : main'[i] = main[i] /\ i \in 1 .. Len(main')
        /\ main'[Len(main) + 1] = Local
    BY <1>4, <2>1, Pushed DEF PipelineInv, Types
  <2>3. /\ pending' \in Option(RunRecord) /\ running' = Some(run)
        /\ pending' = Some(Run(Len(main) + 1))
        /\ over' \subseteq over \cup {pending[1].at}
        /\ pending = None => over' = over
    <3>1. Len(main) + 1 \in Nat \ {0} /\ over \subseteq Nat
      BY <2>2 DEF PipelineInv, Types
    <3> HIDE DEF run
    <3> QED  BY <1>6, <2>1, <3>1, EnqueueType DEF PipelineInv, Types
  <2>4. running' # None /\ running'[1] = run
    BY <1>6, <2>3
  <2>5. Event' = Event /\ Local' = Local
    <3> HIDE DEF run
    <3> QED  BY <1>2, <1>5, <2>2, <2>4 DEF Event, Local
  <2>6. OnMain(Local)'
    BY <2>2, <2>5 DEF OnMain
  <2>7. LocalInv'
    <3> HIDE DEF run
    <3> QED  BY <1>3, <1>5, <2>4, <2>5, <2>6 DEF LocalInv
  <2>8. pending' # None /\ pending'[1].at = Len(main) + 1 /\ pending'[1].step = "prepare"
    BY <2>2, <2>3, RunType, SomeInOption
  <2>9. QueueInv'
    <3> HIDE DEF run
    <3> QED  BY <1>2, <1>5, <2>2, <2>4, <2>8 DEF QueueInv
  <2>10. over' \subseteq 1 .. Len(main')
    BY <2>2, <2>3 DEF PipelineInv, Types, QueueInv
  <2>11. Types'
    BY <1>1, <1>6, <2>2, <2>3, <2>10 DEF PipelineInv, Types, publishVars
  <2>12. Len(main) > 0 /\ ~main[Len(main)].release
    BY <1>1, <1>2, <1>3 DEF Event
  <2>13. GitInv'
    BY <1>1, <1>4, <2>1, <2>12, GitGrows DEF PipelineInv, GitState
  <2>14. QED  BY <1>7, <2>7, <2>9, <2>11, <2>13 DEF PipelineInv
<1>10. QED  BY <1>8, <1>9

LEMMA PushTagInv == ASSUME PipelineInv, PushTag PROVE PipelineInv'
<1> DEFINE t == [version |-> Event.version, commit |-> Local]
           p == PublishRun(Local, None)
<1>1. /\ running # None /\ running[1].step = "tag"
      /\ tags' = tags \cup {t} /\ publishing' = publishing \cup {p} /\ EndRun
      /\ main' = main /\ over' = over /\ crates' = crates /\ releases' = releases
      /\ reruns' = reruns
  BY DEF PushTag, At, counters
<1>2. running[1] \in RunRecord /\ running[1].at \in 1 .. Len(main)
  BY <1>1, OptionCases DEF PipelineInv, Types, QueueInv
<1>3. /\ running[1].local # None
      /\ Local.inSync /\ Local.version = Event.version /\ OnMain(Local)
  BY <1>1 DEF PipelineInv, LocalInv
<1>4. Local \in Commit
  BY <1>2, <1>3, OptionCases DEF Local, RunRecord
<1>5. t \in [version : Versions, commit : Commit]
  BY <1>3, <1>4 DEF Commit
<1>6. p \in PublishRecord /\ p.asked = None /\ p.commit = Local /\ p.step = "publish"
  BY <1>4 DEF PublishRun, PublishRecord, Option
<1>7. GitInv'
  <2>1. TagsOnMain'
    BY <1>1, <1>3 DEF PipelineInv, GitInv, TagsOnMain, OnMain, Types
  <2>2. TaggedIsInSync'
    BY <1>1, <1>3 DEF PipelineInv, GitInv, TaggedIsInSync
  <2>3. LoopSafe'
    BY <1>1 DEF PipelineInv, GitInv, LoopSafe
  <2>4. QED  BY <2>1, <2>2, <2>3 DEF GitInv
<1>8. /\ running' \in Option(RunRecord) /\ pending' \in Option(RunRecord)
      /\ over' \subseteq 1 .. Len(main')
      /\ QueueInv' /\ LocalInv'
  BY <1>1, <1>7, EndRunKeeps
<1>9. Types'
  BY <1>1, <1>5, <1>6, <1>8 DEF PipelineInv, Types
<1>10. PublishInv'
  <2> SUFFICES ASSUME NEW q \in publishing'
               PROVE  /\ q.asked = None => [version |-> q.commit.version, commit |-> q.commit] \in tags'
                      /\ q.step = "release" => q.asked = None /\ \E c \in crates' : c.commit = q.commit
    BY DEF PublishInv
  <2>1. CASE q \in publishing
    BY <1>1, <2>1 DEF PipelineInv, PublishInv
  <2>2. CASE q = p
    <3>1. [version |-> q.commit.version, commit |-> q.commit] = t
      BY <1>3, <1>6, <2>2
    <3> HIDE DEF t, p
    <3>2. QED  BY <1>1, <1>6, <2>2, <3>1
  <2>3. QED  BY <1>1, <2>1, <2>2
<1>11. ReleasedIsPublished'
  BY <1>1 DEF PipelineInv, ReleasedIsPublished
<1>12. QED  BY <1>7, <1>8, <1>9, <1>10, <1>11 DEF PipelineInv

-----------------------------------------------------------------------------
(* publish.yml.                                                            *)

\* A step of publish.yml: p becomes one of next, and something may have
\* been uploaded or released.
LEMMA PublishRunInv ==
  ASSUME PipelineInv, NEW p \in publishing, NEW next,
         Becomes(p, next), UNCHANGED <<gitVars, queueVars>>,
         \A q \in next : /\ q \in PublishRecord /\ q.commit = p.commit /\ q.asked = p.asked
                         /\ q.step = "release" =>
                              q.asked = None /\ \E c \in crates' : c.commit = q.commit,
         crates' = crates \/ Upload(p),
         releases' = releases \/ (p.step = "release" /\ releases' = releases \cup {p.commit}),
         reruns' \in Nat
  PROVE  PipelineInv'
<1>1. p \in PublishRecord
  BY DEF PipelineInv, Types
<1>2. crates \subseteq crates' /\ crates' \subseteq [commit : Commit, asked : Option(Versions)]
  BY <1>1 DEF PipelineInv, Types, Upload, PublishRecord
<1>3. releases' \subseteq Commit
  BY <1>1 DEF PipelineInv, Types, PublishRecord
<1>4. publishing' = (publishing \ {p}) \cup next
  BY DEF Becomes
<1>5. /\ main' = main /\ tags' = tags /\ running' = running /\ pending' = pending /\ over' = over
  BY DEF gitVars, queueVars
<1>6. Types'
  <2>1. publishing' \subseteq PublishRecord
    BY <1>4 DEF PipelineInv, Types
  <2>2. main \in Seq(Commit) /\ tags \subseteq [version : Versions, commit : Commit]
    BY DEF PipelineInv, Types
  <2>3. /\ running \in Option(RunRecord) /\ pending \in Option(RunRecord)
        /\ over \subseteq 1 .. Len(main)
    BY DEF PipelineInv, Types
  <2>4. QED  BY <1>2, <1>3, <1>5, <2>1, <2>2, <2>3 DEF Types
<1>7. QueueInv' /\ LocalInv' /\ GitInv'
  <2>1. GitInv'
    BY <1>5, GitKept DEF PipelineInv, gitVars
  <2>2. QueueInv'
    BY <1>5 DEF PipelineInv, QueueInv
  <2>3. LocalInv'
    BY <1>5 DEF PipelineInv, LocalInv, Event, Local, OnMain
  <2>4. QED  BY <2>1, <2>2, <2>3
<1>8. PublishInv'
  <2> SUFFICES ASSUME NEW q \in publishing'
               PROVE  /\ q.asked = None => [version |-> q.commit.version, commit |-> q.commit] \in tags
                      /\ q.step = "release" => q.asked = None /\ \E c \in crates' : c.commit = q.commit
    BY <1>5 DEF PublishInv
  <2>1. CASE q \in publishing
    BY <1>2, <2>1 DEF PipelineInv, PublishInv
  <2>2. CASE q \in next
    <3>1. q.commit = p.commit /\ q.asked = p.asked
      BY <2>2
    <3>2. p.asked = None => [version |-> p.commit.version, commit |-> p.commit] \in tags
      BY DEF PipelineInv, PublishInv
    <3>3. QED  BY <2>2, <3>1, <3>2
  <2>3. QED  BY <1>4, <2>1, <2>2
<1>9. ReleasedIsPublished'
  <2> SUFFICES ASSUME NEW r \in releases'
               PROVE  /\ \E c \in crates' : c.commit = r
                      /\ [version |-> r.version, commit |-> r] \in tags'
    BY DEF ReleasedIsPublished
  <2>1. CASE r \in releases
    BY <1>2, <1>5, <2>1 DEF PipelineInv, ReleasedIsPublished
  <2>2. CASE r = p.commit /\ p.step = "release"
    BY <1>2, <1>5, <2>2 DEF PipelineInv, PublishInv
  <2>3. QED  BY <2>1, <2>2
<1>10. QED  BY <1>6, <1>7, <1>8, <1>9 DEF PipelineInv

LEMMA PublishStepInv ==
  ASSUME PipelineInv, NEW p \in publishing, Publish(p)
  PROVE  PipelineInv'
<1>1. p \in PublishRecord /\ reruns' \in Nat
  BY DEF PipelineInv, Types, Publish, counters
<1>2. UNCHANGED <<gitVars, queueVars>> /\ releases' = releases /\ p.step = "publish"
  BY DEF Publish
<1>3. CASE Publishable(p)
  <2> DEFINE next == IF p.asked = None THEN {[p EXCEPT !.step = "release"]} ELSE {}
  <2>1. Upload(p) /\ Becomes(p, next)
    BY <1>3 DEF Publish
  <2>2. \E c \in crates' : c.commit = p.commit
    <3>1. [commit |-> p.commit, asked |-> p.asked] \in crates'
      BY <2>1 DEF Upload
    <3>2. QED  BY <3>1
  <2>3. \A q \in next : /\ q \in PublishRecord /\ q.commit = p.commit /\ q.asked = p.asked
                        /\ q.asked = None
    BY <1>1 DEF PublishRecord
  <2> HIDE DEF next
  <2>4. QED  BY <1>1, <1>2, <2>1, <2>2, <2>3, PublishRunInv
<1>4. CASE ~Publishable(p)
  <2> DEFINE next == {[p EXCEPT !.failed = TRUE]}
  <2>1. crates' = crates /\ Becomes(p, next)
    BY <1>4 DEF Publish
  <2>2. \A q \in next : /\ q \in PublishRecord /\ q.commit = p.commit /\ q.asked = p.asked
                        /\ q.step = "publish"
    BY <1>1, <1>2 DEF PublishRecord
  <2> HIDE DEF next
  <2>3. QED  BY <1>1, <1>2, <2>1, <2>2, PublishRunInv
<1>5. QED  BY <1>3, <1>4

LEMMA CreateReleaseInv ==
  ASSUME PipelineInv, NEW p \in publishing, CreateRelease(p)
  PROVE  PipelineInv'
<1>1. reruns' \in Nat
  BY DEF PipelineInv, Types, CreateRelease, counters
<1>2. QED  BY <1>1, PublishRunInv DEF CreateRelease

\* Setting p.failed changes nothing else of p.
LEMMA FailedType ==
  ASSUME PipelineInv, NEW p \in publishing, NEW b \in BOOLEAN, crates \subseteq crates'
  PROVE  \A q \in {[p EXCEPT !.failed = b]} :
           /\ q \in PublishRecord /\ q.commit = p.commit /\ q.asked = p.asked
           /\ q.step = "release" =>
                q.asked = None /\ \E c \in crates' : c.commit = q.commit
<1> DEFINE q == [p EXCEPT !.failed = b]
<1>1. p \in PublishRecord
  BY DEF PipelineInv, Types
<1>2. q \in PublishRecord /\ q.commit = p.commit /\ q.asked = p.asked /\ q.step = p.step
  BY <1>1 DEF PublishRecord
<1> HIDE DEF q
<1>3. q.step = "release" => q.asked = None /\ \E c \in crates' : c.commit = q.commit
  BY <1>2 DEF PipelineInv, PublishInv
<1>4. QED  BY <1>2, <1>3 DEF q

LEMMA PublishFailsInv ==
  ASSUME PipelineInv, NEW p \in publishing, PublishFails(p)
  PROVE  PipelineInv'
<1>1. reruns' \in Nat /\ (crates' = crates \/ Upload(p))
  BY DEF PipelineInv, Types, PublishFails
<1>2. crates \subseteq crates'
  BY <1>1 DEF Upload
<1> DEFINE next == {[p EXCEPT !.failed = TRUE]}
<1>3. \A q \in next : /\ q \in PublishRecord /\ q.commit = p.commit /\ q.asked = p.asked
                      /\ q.step = "release" =>
                           q.asked = None /\ \E c \in crates' : c.commit = q.commit
  BY <1>2, FailedType
<1>4. Becomes(p, next) /\ UNCHANGED <<gitVars, queueVars>> /\ releases' = releases
  BY DEF PublishFails
<1> HIDE DEF next
<1>5. QED  BY <1>1, <1>3, <1>4, PublishRunInv

LEMMA RerunPublishInv ==
  ASSUME PipelineInv, NEW p \in publishing, RerunPublish(p)
  PROVE  PipelineInv'
<1>1. reruns' \in Nat /\ crates' = crates
  BY DEF PipelineInv, Types, RerunPublish
<1> DEFINE next == {[p EXCEPT !.failed = FALSE]}
<1>2. \A q \in next : /\ q \in PublishRecord /\ q.commit = p.commit /\ q.asked = p.asked
                      /\ q.step = "release" =>
                           q.asked = None /\ \E c \in crates' : c.commit = q.commit
  BY <1>1, FailedType
<1>3. Becomes(p, next) /\ UNCHANGED <<gitVars, queueVars>> /\ releases' = releases
  BY DEF RerunPublish
<1> HIDE DEF next
<1>4. QED  BY <1>1, <1>2, <1>3, PublishRunInv

LEMMA DispatchInv ==
  ASSUME PipelineInv, NEW v \in Versions, Dispatch(v)
  PROVE  PipelineInv'
<1> DEFINE p == PublishRun(MainHead, Some(v))
<1>1. /\ main # << >> /\ publishing' = publishing \cup {p}
      /\ UNCHANGED gitVars /\ UNCHANGED <<main, tags, running, pending, over, crates, releases, reruns>>
  BY DEF Dispatch, gitVars, queueVars
<1>2. MainHead \in Commit
  BY <1>1 DEF PipelineInv, Types, MainHead
<1>3. /\ p \in PublishRecord /\ p.asked # None /\ p.step = "publish"
  BY <1>2, SomeInOption DEF PublishRun, PublishRecord
<1> HIDE DEF p
<1>4. Types'
  BY <1>1, <1>3 DEF PipelineInv, Types
<1>5. QueueInv' /\ LocalInv' /\ ReleasedIsPublished'
  BY <1>1 DEF PipelineInv, QueueInv, LocalInv, Event, Local, OnMain, ReleasedIsPublished
<1>6. PublishInv'
  BY <1>1, <1>3 DEF PipelineInv, PublishInv
<1>7. GitInv'
  BY <1>1, GitKept DEF PipelineInv
<1>8. QED  BY <1>4, <1>5, <1>6, <1>7 DEF PipelineInv

-----------------------------------------------------------------------------
(* Merges, and runs run again: a run is queued behind the one in progress. *)

LEMMA QueuedInv ==
  ASSUME PipelineInv, NEW at \in 1 .. Len(main'), Enqueue(Run(at), running),
         UNCHANGED publishVars, tags' = tags, reruns' \in Nat, GitInv',
         \/ main' = main
         \/ \E c \in Commit : main' = Append(main, c)
  PROVE  PipelineInv'
<1>1. /\ main' \in Seq(Commit) /\ Len(main) \in Nat /\ Len(main') \in Nat
      /\ 1 .. Len(main) \subseteq 1 .. Len(main')
  <2>1. main \in Seq(Commit) /\ Len(main) \in Nat
    BY DEF PipelineInv, Types
  <2>2. CASE main' = main
    BY <2>1, <2>2
  <2>3. CASE \E c \in Commit : main' = Append(main, c)
    BY <2>1, <2>3, Pushed
  <2>4. QED  BY <2>2, <2>3
<1>2. at \in Nat \ {0} /\ over \subseteq Nat
  BY <1>1 DEF PipelineInv, Types
<1>3. /\ running' \in Option(RunRecord) /\ pending' \in Option(RunRecord)
      /\ running # None => running' = running /\ pending' = Some(Run(at))
      /\ running = None => running' = Some(Run(at)) /\ pending' = pending
      /\ over' \subseteq over \cup {pending[1].at}
      /\ pending = None => over' = over
  BY <1>2, EnqueueType DEF PipelineInv, Types
<1>4. Some(Run(at)) # None /\ Some(Run(at))[1].at = at /\ Some(Run(at))[1].step = "prepare"
  BY <1>2, RunType, SomeInOption
<1>5. LocalInv'
  BY <1>3, <1>4, LocalFresh, LocalKept DEF PipelineInv, GitState
<1>6. QueueInv'
  BY <1>1, <1>3, <1>4 DEF PipelineInv, QueueInv
<1>7. over' \subseteq 1 .. Len(main')
  BY <1>1, <1>3 DEF PipelineInv, Types, QueueInv
<1>8. Types'
  BY <1>1, <1>3, <1>7 DEF PipelineInv, Types, publishVars
<1>9. PublishInv' /\ ReleasedIsPublished'
  BY PublishKept DEF PipelineInv
<1>10. QED  BY <1>5, <1>6, <1>8, <1>9 DEF PipelineInv

LEMMA MergePRInv ==
  ASSUME PipelineInv, NEW v \in Versions, NEW inSync \in BOOLEAN, MergePR(v, inSync)
  PROVE  PipelineInv'
<1> DEFINE c == [parent |-> Len(main), version |-> v, inSync |-> inSync,
                 release |-> FALSE, attempt |-> 0]
<1>1. /\ main' = Append(main, c) /\ Enqueue(Run(Len(main) + 1), running)
      /\ tags' = tags /\ UNCHANGED publishVars /\ reruns' = reruns
  BY DEF MergePR, counters
<1>2. c \in Commit /\ ~c.release /\ reruns \in Nat
  BY DEF Commit, PipelineInv, Types
<1> HIDE DEF c
<1>3. GitInv'
  BY <1>1, <1>2, GitGrows DEF PipelineInv, GitState
<1>4. Len(main) + 1 \in 1 .. Len(main')
  BY <1>1, <1>2, Pushed DEF PipelineInv, Types
<1>5. QED  BY <1>1, <1>2, <1>3, <1>4, QueuedInv

LEMMA RerunInv ==
  ASSUME PipelineInv, NEW at \in over, Rerun(at)
  PROVE  PipelineInv'
<1>1. /\ Enqueue(Run(at), running) /\ UNCHANGED gitVars /\ UNCHANGED publishVars
      /\ main' = main /\ tags' = tags /\ reruns' \in Nat
  BY DEF Rerun, gitVars, PipelineInv, Types
<1>2. at \in 1 .. Len(main')
  BY <1>1 DEF PipelineInv, Types
<1>3. GitInv'
  BY <1>1, GitKept DEF PipelineInv
<1>4. QED  BY <1>1, <1>2, <1>3, QueuedInv

-----------------------------------------------------------------------------
LEMMA StutterInv == ASSUME PipelineInv, UNCHANGED vars PROVE PipelineInv'
  BY DEF vars, gitVars, queueVars, publishVars, counters, PipelineInv, Types, QueueInv,
         LocalInv, Event, Local, OnMain, PublishInv, GitInv, TagsOnMain, TaggedIsInSync,
         LoopSafe, ReleasedIsPublished

LEMMA StepInv == PipelineInv /\ [Next]_vars => PipelineInv'
<1> SUFFICES ASSUME PipelineInv, [Next]_vars PROVE PipelineInv'
  OBVIOUS
<1>1. CASE ReleaseStep
  BY <1>1, SkipInv, PrepareInv, PushMainInv, PushRejectedInv, PushTagInv DEF ReleaseStep
<1>2. CASE PublishStep
  BY <1>2, PublishStepInv, CreateReleaseInv DEF PublishStep
<1>3. CASE People
  BY <1>3, MergePRInv, RerunInv, RerunPublishInv, DispatchInv DEF People
<1>4. CASE Faults
  BY <1>4, FailInv, PublishFailsInv DEF Faults
<1>5. CASE UNCHANGED vars
  BY <1>5, StutterInv
<1>6. QED  BY <1>1, <1>2, <1>3, <1>4, <1>5 DEF Next

LEMMA InvHolds == Spec => []PipelineInv
  BY InitInv, StepInv, PTL DEF Spec

-----------------------------------------------------------------------------
(* The theorems.                                                           *)

\* The type invariant of the pipeline.
THEOREM ReleaseTypeCorrect == Spec => []ReleaseTypeOK
<1>1. PipelineInv => ReleaseTypeOK
  <2> SUFFICES ASSUME PipelineInv PROVE ReleaseTypeOK
    OBVIOUS
  <2>1. /\ main \in Seq(Commit) /\ tags \subseteq [version : Versions, commit : Commit]
        /\ over \subseteq DOMAIN main /\ releases \subseteq Commit
        /\ pending # None => running # None /\ pending[1].step = "prepare"
    BY DEF PipelineInv, Types, QueueInv
  <2>2. ASSUME NEW run \in {running, pending} \ {None}
        PROVE  /\ run[1].at \in DOMAIN main
               /\ run[1].step \in {"prepare", "main", "tag"}
               /\ run[1].step = "prepare" \/ run[1].local[1] \in Commit
    <3>1. run # None /\ run \in Option(RunRecord) /\ run[1].at \in 1 .. Len(main)
      BY <2>2 DEF PipelineInv, Types, QueueInv
    <3>2. run[1] \in RunRecord
      BY <3>1, OptionCases
    <3>3. run[1].step = "prepare" \/ run[1].local # None
      BY <2>2 DEF PipelineInv, QueueInv, LocalInv
    <3>4. run[1].local # None => run[1].local[1] \in Commit
      BY <3>2, OptionCases DEF RunRecord
    <3>5. DOMAIN main = 1 .. Len(main)
      BY <2>1
    <3>6. QED  BY <3>1, <3>2, <3>3, <3>4, <3>5 DEF RunRecord
  <2>3. ASSUME NEW p \in publishing
        PROVE  p.commit \in Commit /\ p.step \in {"publish", "release"}
    BY DEF PipelineInv, Types, PublishRecord
  <2>4. ASSUME NEW c \in crates PROVE c.commit \in Commit
    BY DEF PipelineInv, Types
  <2>5. QED  BY <2>1, <2>2, <2>3, <2>4 DEF ReleaseTypeOK
<1>2. QED  BY <1>1, InvHolds, PTL

\* Every tag points to a commit of the default branch (release.yml:1-3).
THEOREM TagsCorrect == Spec => []TagsOnMain
<1>1. PipelineInv => TagsOnMain
  BY DEF PipelineInv, GitInv
<1>2. QED  BY <1>1, InvHolds, PTL

\* Every tagged commit has a lock file in sync (release.yml:69-73).
THEOREM SyncCorrect == Spec => []TaggedIsInSync
<1>1. PipelineInv => TaggedIsInSync
  BY DEF PipelineInv, GitInv
<1>2. QED  BY <1>1, InvHolds, PTL

\* No release commit is built on another (release.yml:11).
THEOREM LoopCorrect == Spec => []LoopSafe
<1>1. PipelineInv => LoopSafe
  BY DEF PipelineInv, GitInv
<1>2. QED  BY <1>1, InvHolds, PTL

\* What has a GitHub release was published from the commit its tag points
\* to (publish.yml:61-65).
THEOREM ReleasedCorrect == Spec => []ReleasedIsPublished
<1>1. PipelineInv => ReleasedIsPublished
  BY DEF PipelineInv
<1>2. QED  BY <1>1, InvHolds, PTL
=============================================================================
