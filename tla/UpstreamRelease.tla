--------------------------- MODULE UpstreamRelease ---------------------------
(***************************************************************************)
(* The release pipeline: .github/workflows/upstream-release-check.yml and  *)
(* scripts/check-upstream-release-cheap.sh, at the granularity of a        *)
(* workflow job.  Runs are started by the hourly schedule, by a push to    *)
(* main, by hand, or by rust-release.yml; a run checks the latest release  *)
(* of upstream, prepares, verifies, builds and publishes a patched release *)
(* of it, and leaves a failure marker when nothing was published.          *)
(*                                                                         *)
(* GitHub is external: its concurrency groups, its answers to gh, and what *)
(* is left behind when a job or a publication fails.  Upstream tags are    *)
(* numbered in the order they appear, and revisions of main likewise.      *)
(***************************************************************************)
EXTENDS Naturals, Sequences, SequencesExt

CONSTANTS MaxTag,            \* bound: upstream releases
          Prereleases,       \* those that are prereleases or drafts
          MaxRevision,       \* bound: revisions of main
          PatchesOf,         \* the contents of patches/ at each revision
          Dispatches,        \* the ways the workflow is started by hand or called
          MaxInterventions,  \* bound: dispatches and cancellations
          JobsFail,          \* whether checks, builds and publications may fail
          LookupsFail,       \* whether gh may fail to answer a question
          NoBuild

ASSUME PipelineAssumption ==
    /\ {MaxTag, MaxInterventions} \subseteq Nat /\ MaxRevision \in Nat \ {0}
    /\ {JobsFail, LookupsFail} \subseteq BOOLEAN
    /\ Prereleases \subseteq 1..MaxTag
    /\ DOMAIN PatchesOf = 1..MaxRevision
    /\ \A d \in Dispatches :
           /\ d.event \in {"dispatch", "push"} /\ d.level \in {"full", "sentinel", "cheap"}
           /\ {d.called, d.focus, d.reuse} \subseteq BOOLEAN /\ {d.tag, d.suffix} \subseteq Nat

VARIABLES
    upstream,       \* number of tags upstream has released
    revision,       \* head of main
    runs,           \* the runs that have not ended, in the order of their ids
    builds,         \* metadata and artifacts that ended builds have uploaded
    releases,       \* publications of this repository
    republished,    \* history: tags published when a release of them existed
    markers,        \* failure markers
    interventions   \* number of dispatches and cancellations

vars == <<upstream, revision, runs, builds, releases, republished, markers, interventions>>

NoTarget == <<0, 0>>
Released == {x.target : x \in releases}

\* releases/latest names neither prereleases nor drafts.
Latest ==
    LET stable == (1..upstream) \ Prereleases
        newest == {t \in stable : \A s \in stable : s <= t}
    IN  IF newest = {} THEN 0 ELSE CHOOSE t \in newest : TRUE

Init ==
    /\ upstream = 0 /\ revision = 1 /\ runs = <<>>
    /\ builds = {} /\ releases = {} /\ republished = {} /\ markers = {}
    /\ interventions = 0

-----------------------------------------------------------------------------
(* Starting runs.  A concurrency group holds one run in progress and one   *)
(* that waits; a newer run takes the place of the one that waits.          *)

\* Faulty: the group is named after the workflow.
WorkflowGroup(r) == <<r.called, r.level, r.focus>>

Group(r) == <<r.level, r.focus>>

InProgress(r) == r.step # "pending"

NewRun(inputs, artifacts) ==
    [event |-> inputs.event, called |-> inputs.called, level |-> inputs.level,
     focus |-> inputs.focus, tag |-> inputs.tag, suffix |-> inputs.suffix,
     artifacts |-> artifacts, revision |-> revision', step |-> "pending",
     target |-> NoTarget, verified |-> FALSE]

NoInputs(event) ==
    [event |-> event, called |-> FALSE, level |-> "full", focus |-> FALSE, tag |-> 0,
     suffix |-> 0, reuse |-> FALSE]

Waiting(group) == {i \in DOMAIN runs : ~InProgress(runs[i]) /\ Group(runs[i]) = group}
Enqueue(r) ==
    LET waiting == Waiting(Group(r))
        others == IF waiting = {} THEN runs ELSE RemoveAt(runs, CHOOSE i \in waiting : TRUE)
    IN  runs' = Append(others, r)

UpstreamReleases ==
    /\ upstream < MaxTag
    /\ upstream' = upstream + 1
    /\ UNCHANGED <<revision, runs, builds, releases, republished, markers, interventions>>

Schedule ==
    /\ UNCHANGED <<upstream, revision, builds, releases, republished, markers, interventions>>
    /\ Enqueue(NewRun(NoInputs("schedule"), NoBuild))

\* Only a push to the paths the workflow lists starts a run.
Push ==
    /\ revision < MaxRevision
    /\ revision' = revision + 1
    /\ Enqueue(NewRun(NoInputs("push"), NoBuild)) \/ UNCHANGED runs
    /\ UNCHANGED <<upstream, builds, releases, republished, markers, interventions>>

\* By hand, or called by rust-release.yml, which resolves a tag first; a called
\* workflow sees the event of its caller, a push of the tag or a dispatch.
Dispatch ==
    /\ interventions < MaxInterventions
    /\ interventions' = interventions + 1
    /\ UNCHANGED <<upstream, revision, builds, releases, republished, markers>>
    /\ \E d \in Dispatches :
        /\ d.tag <= upstream
        /\ \E artifacts \in IF d.reuse THEN builds ELSE {NoBuild} :
            Enqueue(NewRun(d, artifacts))

Move(i, step) == runs' = [runs EXCEPT ![i].step = step]
End(i) == runs' = RemoveAt(runs, i)

Cancel(i) ==
    /\ interventions < MaxInterventions
    /\ interventions' = interventions + 1
    /\ End(i)
    /\ UNCHANGED <<upstream, revision, builds, releases, republished, markers>>

HasCheapCheck(r) == r.event \in {"schedule", "push"} \/ r.level = "cheap"

GroupIsFree(i) ==
    \A j \in DOMAIN runs : InProgress(runs[j]) => Group(runs[j]) # Group(runs[i])

Start(i) ==
    /\ runs[i].step = "pending"
    /\ GroupIsFree(i)
    /\ Move(i, IF HasCheapCheck(runs[i]) THEN "cheap-check" ELSE "prepare")
    /\ UNCHANGED <<upstream, revision, builds, releases, republished, markers, interventions>>

-----------------------------------------------------------------------------
(* The jobs of a run.                                                      *)

\* What gh finds: an error is taken for "nothing there".
Found(present) == IF LookupsFail THEN {present, FALSE} ELSE {present}

CheapCheckFails(i) ==
    /\ runs[i].step = "cheap-check"
    /\ JobsFail \/ Latest = 0
    /\ End(i)
    /\ UNCHANGED <<upstream, revision, builds, releases, republished, markers, interventions>>

CheapCheck(i) ==
    /\ runs[i].step = "cheap-check"
    /\ Latest # 0
    /\ \E exists \in Found(<<Latest, 0>> \in Released) :
        IF runs[i].event = "schedule" /\ ~exists THEN Move(i, "prepare") ELSE End(i)
    /\ UNCHANGED <<upstream, revision, builds, releases, republished, markers, interventions>>

Workflow(r) == IF r.called THEN "rust-release" ELSE "Upstream release check"

\* An older run of the workflow is in progress.  gh api -f status=... without --method GET
\* posts, and its error is taken for "none": a duplicate may always go unnoticed.
Duplicate(i) ==
    \E j \in 1..(i - 1) : InProgress(runs[j]) /\ Workflow(runs[j]) = Workflow(runs[i])

SkipDuplicate(i) ==
    /\ runs[i].step = "prepare" /\ runs[i].artifacts = NoBuild
    /\ Duplicate(i)
    /\ End(i)
    /\ UNCHANGED <<upstream, revision, builds, releases, republished, markers, interventions>>

\* Network errors, incomplete upstream assets, a set -e failure of any command.
PrepareFails(i) ==
    /\ runs[i].step = "prepare"
    /\ JobsFail \/ Latest = 0
    /\ End(i)
    /\ UNCHANGED <<upstream, revision, builds, releases, republished, markers, interventions>>

Release(i, target) == runs' = [runs EXCEPT ![i].step = "verify", ![i].target = target]

\* Faulty: the patch hash of the reused build is not compared.
AnyPatches(r) == TRUE
SamePatches(r) == PatchesOf[r.revision] = r.artifacts.patches

\* Reuse the artifacts of an earlier build run for publishing.
PrepareReused(i) ==
    LET r == runs[i] IN
    /\ r.step = "prepare" /\ r.artifacts # NoBuild
    /\ \E exists \in Found(r.artifacts.target \in Released) :
        IF SamePatches(r) /\ (r.focus \/ ~exists) THEN Release(i, r.artifacts.target)
        ELSE End(i)
    /\ UNCHANGED <<upstream, revision, builds, releases, republished, markers, interventions>>

Marked(target, rev) == \E m \in markers : m.target = target /\ m.revision = rev

\* Faulty: a run started by hand does not look for an existing release.
WantedByHand(r, target, exists, marked) ==
    /\ target[1] \notin Prereleases
    /\ r.focus \/ ~exists \/ r.event = "dispatch"
    /\ r.event = "schedule" => ~marked

\* Whether a fresh build of target is wanted, given what gh found.
Wanted(r, target, exists, marked) ==
    /\ target[1] \notin Prereleases
    /\ r.focus \/ ~exists
    /\ r.event = "schedule" => ~marked

PrepareFresh(i) ==
    LET r == runs[i]
        tag == IF r.tag = 0 THEN Latest ELSE r.tag
        target == <<tag, r.suffix>> IN
    /\ r.step = "prepare" /\ r.artifacts = NoBuild
    /\ tag # 0
    /\ \E exists \in Found(target \in Released), marked \in Found(Marked(target, r.revision)) :
        IF Wanted(r, target, exists, marked) THEN Release(i, target) ELSE End(i)
    /\ UNCHANGED <<upstream, revision, builds, releases, republished, markers, interventions>>

Succeeds == IF JobsFail THEN BOOLEAN ELSE {TRUE}

Verify(i) ==
    /\ runs[i].step = "verify"
    /\ \E ok \in Succeeds :
        runs' = [runs EXCEPT ![i].step = "build", ![i].verified = ok]
    /\ UNCHANGED <<upstream, revision, builds, releases, republished, markers, interventions>>

\* Faulty: release-metadata.json lacks the patch hash.
BuildWithoutPatches(r, complete) ==
    [target |-> r.target, verified |-> r.verified, complete |-> complete]

BuildOf(r, complete) ==
    [target |-> r.target, patches |-> PatchesOf[r.revision],
     verified |-> r.verified, complete |-> complete]

\* The matrix of a focused or a sentinel run has no Windows primary: the
\* Windows symbols and packages cannot succeed.
AllBuilt(r) == IF r.focus \/ r.level = "sentinel" THEN {FALSE} ELSE Succeeds

\* Faulty: the marker is recorded only when publish has run.
AfterBuildOrEnd(r, built) ==
    IF ~r.focus /\ (r.artifacts # NoBuild \/ built) THEN "publish" ELSE "end"

AfterBuild(r, built) ==
    CASE r.focus -> "end"
      [] ~r.focus /\ (r.artifacts # NoBuild \/ built) -> "publish"
      [] OTHER -> "record"

Build(i) ==
    LET r == runs[i] IN
    /\ r.step = "build"
    /\ \E built \in AllBuilt(r) :
        /\ builds' = IF r.artifacts = NoBuild THEN builds \cup {BuildOf(r, built)} ELSE builds
        /\ IF AfterBuild(r, built) = "end" THEN End(i) ELSE Move(i, AfterBuild(r, built))
    /\ UNCHANGED <<upstream, revision, releases, republished, markers, interventions>>

\* action-gh-release creates the release or replaces the assets of an existing
\* one; when it fails, it may have created it.
Publish(i) ==
    LET r == runs[i]
        build == IF r.artifacts = NoBuild THEN BuildOf(r, TRUE) ELSE r.artifacts
        publication == [target |-> r.target, revision |-> r.revision, build |-> build,
                        reused |-> r.artifacts # NoBuild] IN
    /\ r.step = "publish"
    /\ \E ok \in Succeeds :
        /\ \/ /\ releases' = releases \cup {publication}
              /\ republished' = republished \cup ({r.target} \cap Released)
           \/ ~ok /\ UNCHANGED <<releases, republished>>
        /\ IF ok THEN End(i) ELSE Move(i, "record")
    /\ UNCHANGED <<upstream, revision, builds, markers, interventions>>

Marker(r) == [target |-> r.target, revision |-> r.revision, level |-> r.level]

RecordFailureMarker(i) ==
    /\ runs[i].step = "record"
    /\ \E ok \in Succeeds :
        markers' = IF ok THEN markers \cup {Marker(runs[i])} ELSE markers
    /\ End(i)
    /\ UNCHANGED <<upstream, revision, builds, releases, republished, interventions>>

Prepare(i) == PrepareReused(i) \/ PrepareFresh(i)
Finish(i) == Build(i) \/ Publish(i) \/ RecordFailureMarker(i)

Next ==
    \/ UpstreamReleases \/ Schedule \/ Push \/ Dispatch
    \/ \E i \in DOMAIN runs :
        \/ Start(i) \/ Cancel(i)
        \/ CheapCheckFails(i) \/ CheapCheck(i)
        \/ SkipDuplicate(i) \/ PrepareFails(i) \/ Prepare(i)
        \/ Verify(i) \/ Finish(i)

Spec == Init /\ [][Next]_vars

\* The schedule fires and runners work for ever, and the check, the preparation
\* and the upload of a marker, which are tried anew every hour, do not fail
\* every time.  Builds and publications may.
Fairness ==
    /\ WF_vars(Schedule)
    /\ WF_vars(\E i \in DOMAIN runs : Start(i))
    /\ WF_vars(\E i \in DOMAIN runs : CheapCheckFails(i) \/ CheapCheck(i))
    /\ WF_vars(\E i \in DOMAIN runs : PrepareFails(i) \/ Prepare(i))
    /\ SF_vars(\E i \in DOMAIN runs : CheapCheck(i) /\ runs[i].event = "schedule")
    /\ SF_vars(\E i \in DOMAIN runs : Prepare(i))
    /\ WF_vars(\E i \in DOMAIN runs : Verify(i) \/ Finish(i))
    /\ SF_vars(\E i \in DOMAIN runs : RecordFailureMarker(i) /\ Marker(runs[i]) \in markers')

FairSpec == Spec /\ Fairness

-----------------------------------------------------------------------------
(* Properties.                                                             *)

Targets == (0..MaxTag) \X Nat
PatchSets == {PatchesOf[k] : k \in 1..MaxRevision}
Builds == [target : Targets, patches : PatchSets, verified : BOOLEAN, complete : BOOLEAN]
Runs == [event : {"schedule", "push", "dispatch"}, called : BOOLEAN,
         level : {"full", "sentinel", "cheap"},
         focus : BOOLEAN, tag : 0..MaxTag, suffix : Nat, artifacts : Builds \cup {NoBuild},
         revision : 1..MaxRevision, verified : BOOLEAN, target : Targets,
         step : {"pending", "cheap-check", "prepare", "verify", "build", "publish", "record"}]

\* Type invariant: runs carry the inputs and job outputs of the workflow, and
\* what is stored on GitHub has the fields of release-metadata.json and of the
\* marker's name.
TypeOK ==
    /\ upstream \in 0..MaxTag /\ revision \in 1..MaxRevision
    /\ interventions \in 0..MaxInterventions
    /\ runs \in Seq(Runs)
    /\ builds \subseteq Builds
    /\ releases \subseteq [target : Targets, revision : 1..MaxRevision, build : Builds,
                           reused : BOOLEAN]
    /\ republished \subseteq Released
    /\ markers \subseteq [target : Targets, revision : 1..MaxRevision,
                          level : {"full", "sentinel", "cheap"}]

\* Whatever is published under a tag was built for that tag, from the patches
\* at the revision that publishes it, also when the artifacts are those of an
\* earlier run at another revision; and a run that publishes its own artifacts
\* has built all of them.
ReleaseHasItsPatches ==
    \A x \in releases :
        /\ x.build.target = x.target
        /\ x.build.patches = PatchesOf[x.revision]
        /\ x.reused \/ x.build.complete

\* README "Versioning": .0 is the first build of an upstream version, and a
\* rebuild has a higher suffix.  A patched tag is published once.
PublishedOnce == republished = {}

\* The schedule does not repeat what failed: a scheduled run never builds a
\* tag that a full run has failed to release at the same revision of main.
FailedReleaseIsNotRetried ==
    \A i \in DOMAIN runs :
        runs[i].event = "schedule" /\ runs[i].step \in {"verify", "build", "publish"} =>
            \A m \in markers : m.level = "full" =>
                <<m.target, m.revision>> # <<runs[i].target, runs[i].revision>>

Settled(t) == <<t, 0>> \in Released \/ \E rev \in 1..MaxRevision : Marked(<<t, 0>>, rev)
\* Hour by hour, an upstream release that stays the latest is settled: it becomes a
\* patched release or gets a failure marker, however often the look-ups and jobs fail
\* on the way.  Nothing is said of one that another release follows before that.
StayingLatestIsSettled == \A t \in 1..MaxTag : Latest = t ~> Settled(t) \/ Latest # t

\* README "How Releases Work": "For every upstream Codex release, this repository
\* publishes a corresponding patched release".  The workflow does not keep this, even
\* with a failure marker for a release (README, section 5).
EveryReleaseIsSettled == \A t \in 1..MaxTag : Latest = t ~> Settled(t)

\* README "How Releases Work": releases are published after the checks have
\* been run, so what is published has passed them.
ReleasesAreVerified == \A x \in releases : x.build.verified

\* rust-release.yml "Defaults to the pushed rust-v* tag": a push of an upstream
\* tag releases it, once the run that it starts is in progress.  The workflow does
\* not keep this (README, section 5).
PushedTagIsReleased ==
    \A t \in (1..MaxTag) \ Prereleases :
        (\E i \in DOMAIN runs : /\ InProgress(runs[i]) /\ runs[i].tag = t
                                /\ runs[i].called /\ runs[i].event = "push")
            ~> <<t, 0>> \in Released

\* prepare: a scheduled run is skipped only after a release attempt for the
\* tag has failed on this revision.  A sentinel run is no release attempt, so the
\* workflow does not keep this (README, section 5).
SkipsFollowAFailedAttempt ==
    \A i \in DOMAIN runs :
        runs[i].event = "schedule" /\ runs[i].step = "prepare"
        /\ Marked(<<Latest, 0>>, runs[i].revision) =>
            \E m \in markers : /\ m.target = <<Latest, 0>> /\ m.level = "full"
                               /\ m.revision = runs[i].revision
=============================================================================
