-------------------------- MODULE ReleasePipeline --------------------------
(***************************************************************************)
(* How a merged version becomes a release: release.yml tags it on a commit *)
(* with a fresh changelog and lock file, and the tag starts publish.yml.   *)
(*                                                                         *)
(* git and GitHub are external: a push of a branch is refused unless it    *)
(* extends it; a concurrency group runs one run at a time and keeps one    *)
(* waiting, the last to come; a run works on the commit of its own event;  *)
(* a failed run can be run again on that same commit.                      *)
(***************************************************************************)
EXTENDS Naturals, Sequences

CONSTANTS
  MaxVersion,     \* bound: versions are 1 .. MaxVersion
  MaxFailures,    \* bound: steps that fail for a reason of their own
  MaxReruns,      \* bound: release runs run again by hand
  MaxDispatches   \* bound: publish runs started by hand

ASSUME PipelineAssumption ==
  {MaxVersion, MaxFailures, MaxReruns, MaxDispatches} \subseteq Nat

VARIABLES
  main,        \* the commits of the default branch, oldest first
  running,     \* the run in progress of release.yml, None if there is none
  pending,     \* the one run waiting behind it
  over,        \* commits whose run failed or was dropped while waiting
  tags,        \* the tags of origin, with the commit each points to
  publishing,  \* the runs of publish.yml
  crates,      \* what crates.io has
  releases,    \* the versions GitHub has a release of
  failures, reruns, dispatches   \* counters for the bounds

gitVars == <<main, tags>>
queueVars == <<running, pending, over>>
publishVars == <<publishing, crates, releases>>
counters == <<failures, reruns, dispatches>>
vars == <<gitVars, queueVars, publishVars, counters>>

None == << >>
Some(x) == << x >>

Versions == 1 .. MaxVersion

\* A commit; no two commits are the same, as their positions, or the
\* attempts that made them, differ.
Commit == [parent : Nat, version : Versions, inSync : BOOLEAN,
           release : BOOLEAN, attempt : Nat]
MainHead == main[Len(main)]
Newest == IF main = << >> THEN 0 ELSE MainHead.version
Tagged(v) == \E t \in tags : t.version = v
InCrates(v) == \E c \in crates : c.commit.version = v

-----------------------------------------------------------------------------
(* The concurrency group of release.yml.                                   *)

\* A run of publish.yml: by a tag, or by hand with the version asked for.
PublishRun(commit, asked) ==
  [commit |-> commit, asked |-> asked, step |-> "publish", failed |-> FALSE]

\* A run of release.yml on the commit of its event.
Run(at) == [at |-> at, step |-> "prepare", local |-> None]

\* Bug: cancel-in-progress is true.
EnqueueBug(run, current) ==
  /\ running' = Some(run) /\ pending' = None
  /\ over' = over \cup {r[1].at : r \in {current, pending} \ {None}}

\* A run waits while another is in progress (current), and takes the place
\* of one that waited before.
Enqueue(run, current) ==
  IF current = None
  THEN running' = Some(run) /\ UNCHANGED <<pending, over>>
  ELSE /\ running' = current /\ pending' = Some(run)
       /\ over' = over \cup {r[1].at : r \in {pending} \ {None}}

\* Bug: the group is freed, and what waits in it stays there.
EndRunBug == running' = None /\ UNCHANGED pending

EndRun == running' = pending /\ pending' = None

-----------------------------------------------------------------------------
(* Merges.                                                                 *)

\* A pull request is merged; its version was checked to be greater than
\* that of the branch.  Its author may have forgotten the lock file.
MergePR(v, inSync) ==
  /\ v > Newest
  /\ main' = Append(main, [parent |-> Len(main), version |-> v, inSync |-> inSync,
                           release |-> FALSE, attempt |-> 0])
  /\ Enqueue(Run(Len(main) + 1), running)
  /\ UNCHANGED <<tags, publishVars, counters>>

-----------------------------------------------------------------------------
(* release.yml, the run in progress.                                       *)

At(step) == running # None /\ running[1].step = step
Event == main[running[1].at]
Local == running[1].local[1]

\* Bug: the lock file is left as the pull request has it.
ReleaseCommitBug(changed) ==
  IF changed
  THEN [parent |-> running[1].at, version |-> Event.version, inSync |-> Event.inSync,
        release |-> TRUE, attempt |-> reruns]
  ELSE Event

\* The commit of changelog and lock file, or the event's own commit if
\* nothing changed.
ReleaseCommit(changed) ==
  IF changed \/ ~Event.inSync
  THEN [parent |-> running[1].at, version |-> Event.version, inSync |-> TRUE,
        release |-> TRUE, attempt |-> reruns]
  ELSE Event

\* Started by the run's own commit, or for a version that has its tag.
IsNoOp == Event.release \/ Tagged(Event.version)

Skip ==
  /\ At("prepare") /\ IsNoOp
  /\ EndRun
  /\ UNCHANGED <<gitVars, over, publishVars, counters>>

\* Bug: the run of a release commit is not skipped.
PrepareBug ==
  /\ At("prepare") /\ ~Tagged(Event.version)
  /\ \E changed \in BOOLEAN :
       running' = Some([running[1] EXCEPT !.step = "main", !.local = Some(ReleaseCommit(changed))])
  /\ UNCHANGED <<gitVars, pending, over, publishVars, counters>>

Prepare ==
  /\ At("prepare") /\ ~IsNoOp
  /\ \E changed \in BOOLEAN :
       running' = Some([running[1] EXCEPT !.step = "main", !.local = Some(ReleaseCommit(changed))])
  /\ UNCHANGED <<gitVars, pending, over, publishVars, counters>>

\* git push origin HEAD:main is refused once the branch has moved on.  The
\* push of a new commit is an event of its own.
FastForward == Len(main) = running[1].at

\* Bug: the commit is first rebased on what the branch has become.
PushMainBug ==
  /\ At("main")
  /\ LET rebased == [Local EXCEPT !.parent = Len(main)] IN
     /\ main' = Append(main, rebased)
     /\ Enqueue(Run(Len(main) + 1),
                Some([running[1] EXCEPT !.step = "tag", !.local = Some(rebased)]))
  /\ UNCHANGED <<tags, publishVars, counters>>

PushMain ==
  /\ At("main") /\ FastForward
  /\ LET pushed == Some([running[1] EXCEPT !.step = "tag"]) IN
     IF Local = Event
     THEN running' = pushed /\ UNCHANGED <<main, pending, over>>
     ELSE main' = Append(main, Local) /\ Enqueue(Run(Len(main) + 1), pushed)
  /\ UNCHANGED <<tags, publishVars, counters>>

EndFailed == EndRun /\ over' = over \cup {running[1].at}

\* Bug: the script goes on after a push that was refused.
PushRejectedBug ==
  /\ At("main") /\ ~FastForward
  /\ running' = Some([running[1] EXCEPT !.step = "tag"])
  /\ UNCHANGED <<gitVars, pending, over, publishVars, counters>>

PushRejected ==
  /\ At("main") /\ ~FastForward
  /\ EndFailed
  /\ UNCHANGED <<gitVars, publishVars, counters>>

\* git push origin vX.Y.Z, which starts publish.yml.
PushTag ==
  /\ At("tag")
  /\ tags' = tags \cup {[version |-> Event.version, commit |-> Local]}
  /\ publishing' = publishing \cup {PublishRun(Local, None)}
  /\ EndRun
  /\ UNCHANGED <<main, over, crates, releases, counters>>

ReleaseStep == Skip \/ Prepare \/ PushMain \/ PushRejected \/ PushTag

-----------------------------------------------------------------------------
(* publish.yml.  Its runs do not wait for each other.                      *)

\* The run with its step replaced, or gone once it is through.
Becomes(p, next) == publishing' = (publishing \ {p}) \cup next

\* cargo package --locked and cargo publish --locked refuse a stale lock
\* file, crates.io a version it has.
Publishable(p) == p.step = "publish" /\ p.commit.inSync /\ ~InCrates(p.commit.version)
Upload(p) == crates' = crates \cup {[commit |-> p.commit, asked |-> p.asked]}

Publish(p) ==
  /\ p.step = "publish" /\ ~p.failed
  /\ IF Publishable(p)
     THEN Upload(p) /\ Becomes(p, IF p.asked = None THEN {[p EXCEPT !.step = "release"]} ELSE {})
     ELSE UNCHANGED crates /\ Becomes(p, {[p EXCEPT !.failed = TRUE]})
  /\ UNCHANGED <<gitVars, queueVars, releases, counters>>

\* Bug: the job does not need the publish job.
CreateReleaseBug(p) ==
  /\ ~p.failed
  /\ releases' = releases \cup {p.commit}
  /\ Becomes(p, {})
  /\ UNCHANGED <<gitVars, queueVars, crates, counters>>

\* The GitHub release, for a tag only.
CreateRelease(p) ==
  /\ p.step = "release" /\ ~p.failed
  /\ releases' = releases \cup {p.commit}
  /\ Becomes(p, {})
  /\ UNCHANGED <<gitVars, queueVars, crates, counters>>

PublishStep == \E p \in publishing : Publish(p) \/ CreateRelease(p)

-----------------------------------------------------------------------------
(* Faults, and what people do about them.                                  *)

\* A step of release.yml fails.  Nothing it has pushed is undone.
Fail ==
  /\ running # None /\ failures < MaxFailures
  /\ EndFailed
  /\ failures' = failures + 1
  /\ UNCHANGED <<gitVars, publishVars, reruns, dispatches>>

\* A job of publish.yml fails, the upload maybe done.
PublishFails(p) ==
  /\ ~p.failed /\ failures < MaxFailures
  /\ \/ UNCHANGED crates
     \/ Publishable(p) /\ Upload(p)
  /\ Becomes(p, {[p EXCEPT !.failed = TRUE]})
  /\ failures' = failures + 1
  /\ UNCHANGED <<gitVars, queueVars, releases, reruns, dispatches>>

Rerun(at) ==
  /\ reruns < MaxReruns
  /\ Enqueue(Run(at), running)
  /\ reruns' = reruns + 1
  /\ UNCHANGED <<gitVars, publishVars, failures, dispatches>>

\* Only the failed job of the run is run again.
RerunPublish(p) ==
  /\ p.failed /\ reruns < MaxReruns
  /\ Becomes(p, {[p EXCEPT !.failed = FALSE]})
  /\ reruns' = reruns + 1
  /\ UNCHANGED <<gitVars, queueVars, crates, releases, failures, dispatches>>

\* workflow_dispatch on the default branch: the version typed in is read
\* by nothing.
Dispatch(v) ==
  /\ main # << >> /\ dispatches < MaxDispatches
  /\ publishing' = publishing \cup {PublishRun(MainHead, Some(v))}
  /\ dispatches' = dispatches + 1
  /\ UNCHANGED <<gitVars, queueVars, crates, releases, failures, reruns>>

-----------------------------------------------------------------------------
Init ==
  /\ main = << >> /\ tags = {}
  /\ running = None /\ pending = None /\ over = {}
  /\ publishing = {} /\ crates = {} /\ releases = {}
  /\ failures = 0 /\ reruns = 0 /\ dispatches = 0

People ==
  \/ \E v \in Versions, inSync \in BOOLEAN : MergePR(v, inSync)
  \/ \E at \in over : Rerun(at)
  \/ \E p \in publishing : RerunPublish(p)
  \/ \E v \in Versions : Dispatch(v)

Faults == Fail \/ \E p \in publishing : PublishFails(p)

Next == ReleaseStep \/ PublishStep \/ People \/ Faults

Spec == Init /\ [][Next]_vars

\* GitHub starts what is queued and goes on with what is started.  Nobody
\* has to merge, run again or dispatch anything.
FairSpec == Spec /\ WF_vars(ReleaseStep) /\ WF_vars(PublishStep)

-----------------------------------------------------------------------------
(* Properties.                                                             *)

\* The type invariant of the pipeline.
ReleaseTypeOK ==
  /\ main \in Seq(Commit)
  /\ tags \subseteq [version : Versions, commit : Commit]
  /\ \A run \in {running, pending} \ {None} :
       /\ run[1].at \in DOMAIN main
       /\ run[1].step \in {"prepare", "main", "tag"}
       /\ run[1].step = "prepare" \/ run[1].local[1] \in Commit
  /\ pending # None => running # None /\ pending[1].step = "prepare"
  /\ over \subseteq DOMAIN main
  /\ \A p \in publishing : p.commit \in Commit /\ p.step \in {"publish", "release"}
  /\ \A c \in crates : c.commit \in Commit
  /\ releases \subseteq Commit

\* A tag points to a commit of the default branch ("THEN tag that commit",
\* release.yml:1-3), whatever failed, raced or was run again: the branch is
\* pushed first, and no tag follows a refused push.
TagsOnMain == \A t \in tags : \E i \in DOMAIN main : main[i] = t.commit

\* "every tagged release ships a Cargo.lock in sync" (release.yml:69-73),
\* also when there was nothing to commit.
TaggedIsInSync == \A t \in tags : t.commit.inSync

\* Loop-safe (release.yml:11): a release commit is never built on another
\* one, also when the tag was never pushed and the version looks unreleased.
LoopSafe ==
  \A i \in DOMAIN main : main[i].release => i > 1 /\ ~main[i - 1].release

\* What GitHub shows as the release of a version was published, from the
\* very commit its tag points to, although anyone may have published that
\* version from another commit first (publish.yml:61-65).
ReleasedIsPublished ==
  \A r \in releases : /\ \E c \in crates : c.commit = r
                      /\ [version |-> r.version, commit |-> r] \in tags

Released(v) == \E r \in releases : r.version = v

\* Without failures and publishes by hand, a merge is released in the end or
\* overtaken by a newer one: runs that wait or are dropped, and the run that
\* the release's own commit starts, never cost the newest version its
\* release.  A publish by hand may: it uses up the version on crates.io, the
\* tag's own publish then fails, and no release is made (MaxDispatches = 0).
NewestGetsReleased ==
  \A v \in Versions :
    Newest = v ~> (Released(v) \/ Newest > v)

\* "On merge to the default branch: ... tag that commit" (release.yml:1-2).
EveryMergeIsTagged ==
  \A v \in Versions : (\E i \in DOMAIN main : main[i].version = v) ~> Tagged(v)

\* "Idempotent" (release.yml:11): run again after a failure, the run gets
\* through unless somebody merged in between.
RerunGetsThrough ==
  At("main") /\ ~FastForward =>
    \E i \in DOMAIN main : i > running[1].at /\ ~main[i].release
=============================================================================
