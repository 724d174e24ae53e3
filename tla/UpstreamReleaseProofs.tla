------------------------ MODULE UpstreamReleaseProofs ------------------------
(***************************************************************************)
(* What UpstreamRelease promises of releases, for any number of upstream   *)
(* tags, revisions, runs and interventions.                                *)
(***************************************************************************)
EXTENDS UpstreamRelease, TLAPS

\* The workflow is not dispatched to publish earlier artifacts at sentinel level,
\* which is a group of its own.
NoSentinelReuse == \A d \in Dispatches : d.reuse => d.level # "sentinel"
\* The markers and releases that a run cannot have missed.
Noted == IF LookupsFail THEN {} ELSE markers
Known == IF LookupsFail \/ ~NoSentinelReuse THEN {} ELSE Released

Prepared == {"verify", "build", "publish", "record"}
\* What the jobs of run r rely on: where it may be with its inputs, that what it reuses
\* is what it releases, and that what it is about to build or publish has neither been
\* marked as failed, when the schedule started it, nor been released.
Sound(r, marked, released) ==
    /\ r.event = "schedule" => r.level = "full" /\ ~r.focus /\ r.artifacts = NoBuild
    /\ r.step \notin {"pending", "cheap-check"} => r.level # "cheap"
    /\ r.step \in {"publish", "record"} => ~r.focus
    /\ r.step = "publish" /\ r.level = "sentinel" => r.artifacts # NoBuild
    /\ NoSentinelReuse /\ r.level = "sentinel" => r.artifacts = NoBuild
    /\ r.step \in Prepared /\ r.artifacts # NoBuild =>
          r.artifacts.target = r.target /\ r.artifacts.patches = PatchesOf[r.revision]
    /\ r.step \in {"verify", "build", "publish"} /\ r.event = "schedule" =>
          \A m \in marked : m.level = "full" => ~(m.target = r.target /\ m.revision = r.revision)
    /\ r.step \in {"verify", "build", "publish"} /\ ~r.focus /\ r.level = "full" => r.target \notin released
\* A group has one run in progress.
Apart(s) == \A i, j \in 1..Len(s) :
    InProgress(s[i]) /\ InProgress(s[j]) /\ Group(s[i]) = Group(s[j]) => i = j
Good(s, marked, released) ==
    s \in Seq(Runs) /\ (\A i \in 1..Len(s) : Sound(s[i], marked, released)) /\ Apart(s)
IInv == /\ TypeOK /\ Good(runs, Noted, Known)
        /\ ReleaseHasItsPatches
        /\ ~LookupsFail /\ NoSentinelReuse => PublishedOnce

-----------------------------------------------------------------------------
(* The runs: one ends, one goes on, one is added.                          *)

LEMMA Ending ==
  ASSUME NEW s \in Seq(Runs), NEW i \in 1..Len(s), Apart(s), NEW marked, NEW released,
         \A k \in (1..Len(s)) \ {i} : Sound(s[k], marked, released)
  PROVE  Good(RemoveAt(s, i), marked, released)
  <1> DEFINE t == RemoveAt(s, i)
             a == SubSeq(s, 1, i - 1)
             b == SubSeq(s, i + 1, Len(s))
  <1>1. PICK n \in Nat : n = Len(s) /\ i \in 1..n
    OBVIOUS
  <1>2. a \in Seq(Runs) /\ Len(a) = i - 1 /\ \A j \in 1..(i - 1) : a[j] = s[j]
    BY <1>1
  <1>3. b \in Seq(Runs) /\ Len(b) = n - i /\ \A j \in 1..(n - i) : b[j] = s[i + j]
    BY <1>1
  <1>4. t = a \o b
    BY DEF RemoveAt
  <1> HIDE DEF t, a, b
  <1>5. t \in Seq(Runs) /\ Len(t) = n - 1
    BY <1>1, <1>2, <1>3, <1>4
  <1>6. \A j \in 1..(n - 1) : t[j] = IF j < i THEN s[j] ELSE s[j + 1]
    <2> SUFFICES ASSUME NEW j \in 1..(n - 1) PROVE t[j] = IF j < i THEN s[j] ELSE s[j + 1]
      OBVIOUS
    <2>1. CASE j < i
      BY <1>1, <1>2, <1>3, <1>4, <2>1
    <2>2. CASE ~(j < i)
      <3>1. t[j] = b[j - (i - 1)] /\ j - (i - 1) \in 1..(n - i)
        BY <1>1, <1>2, <1>3, <1>4, <2>2
      <3>2. i + (j - (i - 1)) = j + 1
        BY <1>1
      <3> QED BY <1>3, <2>2, <3>1, <3>2
    <2> QED BY <2>1, <2>2
  <1>7. ASSUME NEW j \in 1..(n - 1) PROVE Sound(t[j], marked, released)
    <2>1. PICK k \in (1..n) \ {i} : t[j] = s[k]
      BY <1>1, <1>6
    <2> QED BY <1>1, <2>1
  <1>8. Apart(t)
    <2> SUFFICES ASSUME NEW j \in 1..(n - 1), NEW l \in 1..(n - 1), InProgress(t[j]), InProgress(t[l]), Group(t[j]) = Group(t[l])
                 PROVE  j = l
      BY <1>5 DEF Apart
    <2>1. PICK k \in 1..n : k = (IF j < i THEN j ELSE j + 1) /\ t[j] = s[k]
      BY <1>1, <1>6
    <2>2. PICK m \in 1..n : m = (IF l < i THEN l ELSE l + 1) /\ t[l] = s[m]
      BY <1>1, <1>6
    <2>3. k = m
      BY <1>1, <2>1, <2>2 DEF Apart
    <2> QED BY <1>1, <2>1, <2>2, <2>3
  <1> QED BY <1>5, <1>7, <1>8 DEF Good, t

LEMMA GoingOn ==
  ASSUME NEW s \in Seq(Runs), NEW i \in 1..Len(s), Apart(s), NEW marked, NEW released,
         \A k \in (1..Len(s)) \ {i} : Sound(s[k], marked, released),
         NEW u \in Runs, Sound(u, marked, released), Group(u) = Group(s[i]),
         InProgress(s[i]) \/ \A k \in 1..Len(s) : InProgress(s[k]) => Group(s[k]) # Group(s[i])
  PROVE  Good([s EXCEPT ![i] = u], marked, released)
  <1> DEFINE t == [s EXCEPT ![i] = u]
  <1>1. t \in Seq(Runs) /\ Len(t) = Len(s) /\ t[i] = u /\ \A k \in (1..Len(s)) \ {i} : t[k] = s[k]
    OBVIOUS
  <1> HIDE DEF t
  <1>2. \A k \in 1..Len(s) : Sound(t[k], marked, released)
    BY <1>1
  <1>3. Apart(t)
    BY <1>1 DEF Apart
  <1> QED BY <1>1, <1>2, <1>3 DEF Good, t

LEMMA Queueing ==
  ASSUME NEW s, NEW marked, NEW released, Good(s, marked, released),
         NEW r \in Runs, Sound(r, marked, released), r.step = "pending"
  PROVE  Good(Append(s, r), marked, released)
  <1> DEFINE t == Append(s, r)
  <1>1. PICK n \in Nat : n = Len(s) /\ s \in Seq(Runs)
    BY DEF Good
  <1>2. t \in Seq(Runs) /\ Len(t) = n + 1 /\ t[n + 1] = r /\ \A k \in 1..n : t[k] = s[k]
    BY <1>1
  <1> HIDE DEF t
  <1>3. \A k \in 1..(n + 1) : Sound(t[k], marked, released)
    BY <1>1, <1>2 DEF Good
  <1>4. Apart(t)
    <2> SUFFICES ASSUME NEW j \in 1..(n + 1), NEW l \in 1..(n + 1), InProgress(t[j]), InProgress(t[l]), Group(t[j]) = Group(t[l])
                 PROVE  j = l
      BY <1>2 DEF Apart
    <2>1. j \in 1..n /\ l \in 1..n
      BY <1>1, <1>2 DEF InProgress
    <2> QED BY <1>1, <1>2, <2>1 DEF Good, Apart
  <1> QED BY <1>2, <1>3, <1>4 DEF Good, t

-----------------------------------------------------------------------------
(* Initial state, and what is not about one run.                           *)

RunSteps == {"pending", "cheap-check", "prepare", "verify", "build", "publish", "record"}

LEMMA LatestType ==
  ASSUME TypeOK
  PROVE  Latest \in 0..MaxTag
  <1>1. upstream \in 0..MaxTag /\ MaxTag \in Nat
    BY PipelineAssumption DEF TypeOK
  <1> DEFINE newest == {t \in (1..upstream) \ Prereleases : \A x \in (1..upstream) \ Prereleases : x <= t}
  <1>2. newest # {} => (CHOOSE t \in newest : TRUE) \in newest
    OBVIOUS
  <1>3. Latest = IF newest = {} THEN 0 ELSE CHOOSE t \in newest : TRUE
    BY DEF Latest
  <1>4. \A t \in newest : t \in 0..MaxTag
    BY <1>1
  <1> HIDE DEF newest
  <1> QED BY <1>1, <1>2, <1>3, <1>4

LEMMA InitIInv == Init => IInv
  <1> SUFFICES ASSUME Init PROVE IInv
    OBVIOUS
  <1>1. runs = <<>> /\ runs \in Seq(Runs) /\ Len(runs) = 0
    BY DEF Init
  <1>2. TypeOK
    BY <1>1, PipelineAssumption DEF Init, TypeOK
  <1>3. Good(runs, Noted, Known)
    BY <1>1 DEF Good, Apart
  <1> QED BY <1>2, <1>3 DEF IInv, Init, ReleaseHasItsPatches, PublishedOnce

\* A step that changes the runs only.
LEMMA RunsOnly ==
  ASSUME IInv, UNCHANGED <<builds, releases, republished, markers>>,
         upstream' \in 0..MaxTag, revision' \in 1..MaxRevision, interventions' \in 0..MaxInterventions,
         Good(runs', Noted, Known)
  PROVE  IInv'
  <1>1. Noted' = Noted /\ Known' = Known /\ Released' = Released
    BY DEF Noted, Known, Released
  <1>2. Good(runs, Noted, Known)'
    BY <1>1
  <1>3. TypeOK'
    BY <1>1 DEF IInv, TypeOK, Good
  <1>4. ReleaseHasItsPatches' /\ (~LookupsFail /\ NoSentinelReuse => PublishedOnce')
    BY DEF IInv, ReleaseHasItsPatches, PublishedOnce
  <1> QED BY <1>2, <1>3, <1>4 DEF IInv

LEMMA Facts ==
  ASSUME IInv
  PROVE  /\ TypeOK /\ runs \in Seq(Runs) /\ Apart(runs) /\ DOMAIN runs = 1..Len(runs)
         /\ \A k \in 1..Len(runs) : runs[k] \in Runs /\ Sound(runs[k], Noted, Known)
         /\ upstream \in 0..MaxTag /\ revision \in 1..MaxRevision /\ interventions \in 0..MaxInterventions
         /\ MaxTag \in Nat /\ MaxRevision \in Nat \ {0} /\ MaxInterventions \in Nat
  <1>1. /\ TypeOK /\ runs \in Seq(Runs) /\ Apart(runs)
        /\ \A k \in 1..Len(runs) : Sound(runs[k], Noted, Known)
    BY DEF IInv, Good
  <1>2. DOMAIN runs = 1..Len(runs) /\ \A k \in 1..Len(runs) : runs[k] \in Runs
    BY <1>1
  <1> QED BY <1>1, <1>2, PipelineAssumption DEF TypeOK

LEMMA Ends ==
  ASSUME IInv, NEW i \in DOMAIN runs, End(i)
  PROVE  Good(runs', Noted, Known)
  BY Facts, Ending DEF End

LEMMA Moves ==
  ASSUME IInv, NEW i \in DOMAIN runs, NEW u \in Runs, runs' = [runs EXCEPT ![i] = u],
         Group(u) = Group(runs[i]), Sound(u, Noted, Known), InProgress(runs[i]) \/ GroupIsFree(i)
  PROVE  Good(runs', Noted, Known)
  <1>1. /\ runs \in Seq(Runs) /\ i \in 1..Len(runs) /\ Apart(runs)
        /\ \A k \in (1..Len(runs)) \ {i} : Sound(runs[k], Noted, Known)
    BY Facts
  <1>2. InProgress(runs[i]) \/ \A k \in 1..Len(runs) : InProgress(runs[k]) => Group(runs[k]) # Group(runs[i])
    BY Facts DEF GroupIsFree
  <1>3. Good([runs EXCEPT ![i] = u], Noted, Known)
    BY <1>1, <1>2, GoingOn
  <1> QED BY <1>3

LEMMA Enqueues ==
  ASSUME IInv, NEW r \in Runs, Sound(r, Noted, Known), r.step = "pending", Enqueue(r)
  PROVE  Good(runs', Noted, Known)
  <1> DEFINE waiting == Waiting(Group(r))
             others == IF waiting = {} THEN runs ELSE RemoveAt(runs, CHOOSE i \in waiting : TRUE)
  <1>1. waiting \subseteq 1..Len(runs)
    BY Facts DEF Waiting
  <1>2. Good(others, Noted, Known)
    <2>1. CASE waiting = {}
      BY <2>1 DEF IInv
    <2>2. CASE waiting # {}
      <3>1. PICK i \in 1..Len(runs) : i = CHOOSE j \in waiting : TRUE
        BY <1>1, <2>2
      <3>2. Good(RemoveAt(runs, i), Noted, Known)
        BY Facts, Ending
      <3> QED BY <2>2, <3>1, <3>2
    <2> QED BY <2>1, <2>2
  <1>3. runs' = Append(others, r)
    BY DEF Enqueue
  <1> HIDE DEF others, waiting
  <1> QED BY <1>2, <1>3, Queueing

\* What a run is asked for stays, wherever it goes.
Same(t, u) == /\ u.event = t.event /\ u.level = t.level /\ u.focus = t.focus /\ u.artifacts = t.artifacts
              /\ u.revision = t.revision
LEMMA Stepping ==
  ASSUME NEW t \in Runs, NEW step \in RunSteps
  PROVE  LET u == [t EXCEPT !.step = step]
         IN u \in Runs /\ Same(t, u) /\ u.step = step /\ u.target = t.target
  BY DEF Runs, RunSteps, Same
LEMMA MoveStep ==
  ASSUME IInv, NEW i \in DOMAIN runs, NEW step \in RunSteps, Move(i, step)
  PROVE  \E u \in Runs : /\ runs' = [runs EXCEPT ![i] = u] /\ Same(runs[i], u) /\ Group(u) = Group(runs[i])
                         /\ u.step = step /\ u.target = runs[i].target
  <1>1. PICK t \in Runs : t = runs[i]
    BY Facts
  <1> DEFINE u == [t EXCEPT !.step = step]
  <1>2. runs' = [runs EXCEPT ![i] = u]
    BY <1>1 DEF Move
  <1>3. u \in Runs /\ Same(t, u) /\ u.step = step /\ u.target = t.target
    BY Stepping
  <1> HIDE DEF u
  <1> QED BY <1>1, <1>2, <1>3 DEF Same, Group

-----------------------------------------------------------------------------
(* The runs of the workflow start, are cancelled, or end early.            *)

LEMMA NewRunType ==
  ASSUME IInv, revision' \in 1..MaxRevision, NEW inputs, NEW artifacts \in Builds \cup {NoBuild},
         inputs = NoInputs("schedule") \/ inputs = NoInputs("push") \/ inputs \in Dispatches,
         inputs.tag \in 0..MaxTag, inputs.event = "schedule" => artifacts = NoBuild,
         ~inputs.reuse => artifacts = NoBuild
  PROVE  LET r == NewRun(inputs, artifacts)
         IN r \in Runs /\ Sound(r, Noted, Known) /\ r.step = "pending"
  <1> DEFINE r == NewRun(inputs, artifacts)
  <1>1. /\ inputs.event \in {"schedule", "push", "dispatch"} /\ inputs.level \in {"full", "sentinel", "cheap"}
        /\ inputs.called \in BOOLEAN /\ inputs.focus \in BOOLEAN /\ inputs.suffix \in Nat
    <2>1. CASE inputs \in Dispatches
      <3>1. {inputs.called, inputs.focus} \subseteq BOOLEAN /\ inputs.suffix \in Nat
        BY <2>1, PipelineAssumption
      <3>2. inputs.event \in {"dispatch", "push"} /\ inputs.level \in {"full", "sentinel", "cheap"}
        BY <2>1, PipelineAssumption
      <3> QED BY <3>1, <3>2
    <2>2. CASE inputs = NoInputs("schedule") \/ inputs = NoInputs("push")
      <3>1. PICK event \in {"schedule", "push"} : inputs = NoInputs(event)
        BY <2>2
      <3>2. inputs.event = event /\ inputs.level = "full" /\ inputs.suffix = 0
        BY <3>1 DEF NoInputs
      <3>3. inputs.called = FALSE /\ inputs.focus = FALSE
        BY <3>1 DEF NoInputs
      <3>4. inputs.called \in BOOLEAN /\ inputs.focus \in BOOLEAN
        BY <3>3, Zenon
      <3>5. inputs.suffix \in Nat /\ inputs.event \in {"schedule", "push", "dispatch"}
        BY <3>2
      <3>6. inputs.level \in {"full", "sentinel", "cheap"}
        BY <3>2
      <3> QED BY <3>4, <3>5, <3>6
    <2> QED BY <2>1, <2>2
  <1>2. /\ inputs.event = "schedule" => inputs.level = "full" /\ ~inputs.focus
        /\ NoSentinelReuse /\ inputs.level = "sentinel" => artifacts = NoBuild
    BY PipelineAssumption DEF NoInputs, NoSentinelReuse
  <1>3. NoTarget \in Targets
    BY PipelineAssumption DEF NoTarget, Targets
  <1>4. r \in Runs
    BY <1>1, <1>3 DEF NewRun, Runs
  <1>5. r.event = inputs.event /\ r.level = inputs.level /\ r.focus = inputs.focus /\ r.artifacts = artifacts /\ r.step = "pending"
    BY DEF NewRun
  <1> HIDE DEF r
  <1>6. Sound(r, Noted, Known)
    BY <1>2, <1>5 DEF Sound, Prepared
  <1> QED BY <1>4, <1>5, <1>6 DEF r

LEMMA UpstreamStep == ASSUME IInv, UpstreamReleases PROVE IInv'
  <1>1. upstream' \in 0..MaxTag /\ revision' = revision /\ interventions' = interventions /\ runs' = runs
        /\ UNCHANGED <<builds, releases, republished, markers>>
    BY Facts DEF UpstreamReleases
  <1>2. Good(runs', Noted, Known)
    BY <1>1 DEF IInv
  <1> QED BY Facts, <1>1, <1>2, RunsOnly

LEMMA ScheduleStep == ASSUME IInv, Schedule PROVE IInv'
  <1> DEFINE r == NewRun(NoInputs("schedule"), NoBuild)
  <1>1. UNCHANGED <<upstream, revision, interventions, builds, releases, republished, markers>> /\ Enqueue(r)
    BY DEF Schedule
  <1>2. revision' \in 1..MaxRevision
    BY Facts, <1>1
  <1>3. NoInputs("schedule").tag \in 0..MaxTag
    BY PipelineAssumption DEF NoInputs
  <1>4. r \in Runs /\ Sound(r, Noted, Known) /\ r.step = "pending"
    BY <1>2, <1>3, NewRunType
  <1> HIDE DEF r
  <1>5. Good(runs', Noted, Known)
    BY <1>1, <1>4, Enqueues
  <1> QED BY Facts, <1>1, <1>5, RunsOnly

LEMMA PushStep == ASSUME IInv, Push PROVE IInv'
  <1> DEFINE r == NewRun(NoInputs("push"), NoBuild)
  <1>1. /\ UNCHANGED <<upstream, interventions, builds, releases, republished, markers>>
        /\ Enqueue(r) \/ runs' = runs
    BY DEF Push
  <1>2. revision' \in 1..MaxRevision
    BY Facts DEF Push
  <1>3. NoInputs("push").tag \in 0..MaxTag
    BY PipelineAssumption DEF NoInputs
  <1>4. r \in Runs /\ Sound(r, Noted, Known) /\ r.step = "pending"
    BY <1>2, <1>3, NewRunType
  <1> HIDE DEF r
  <1>5. Good(runs', Noted, Known)
    BY <1>1, <1>4, Enqueues DEF IInv
  <1> QED BY Facts, <1>1, <1>2, <1>5, RunsOnly

LEMMA DispatchStep == ASSUME IInv, Dispatch PROVE IInv'
  <1>1. /\ UNCHANGED <<upstream, revision, builds, releases, republished, markers>>
        /\ interventions' \in 0..MaxInterventions /\ revision' \in 1..MaxRevision
    BY Facts DEF Dispatch
  <1>2. PICK d \in Dispatches, artifacts \in Builds \cup {NoBuild} :
            /\ d.tag <= upstream /\ (~d.reuse => artifacts = NoBuild)
            /\ Enqueue(NewRun(d, artifacts))
    BY DEF Dispatch, IInv, TypeOK
  <1> DEFINE r == NewRun(d, artifacts)
  <1>3. d.tag \in 0..MaxTag
    BY Facts, <1>2, PipelineAssumption
  <1>4. d.event # "schedule"
    BY PipelineAssumption
  <1>5. r \in Runs /\ Sound(r, Noted, Known) /\ r.step = "pending"
    BY <1>1, <1>2, <1>3, <1>4, NewRunType
  <1> HIDE DEF r
  <1>6. Good(runs', Noted, Known)
    BY <1>2, <1>5, Enqueues DEF r
  <1> QED BY Facts, <1>1, <1>6, RunsOnly

\* A run that ends without a trace.
LEMMA EndStep ==
  ASSUME IInv, NEW i \in DOMAIN runs, End(i),
         UNCHANGED <<upstream, revision, builds, releases, republished, markers>>,
         interventions' \in 0..MaxInterventions
  PROVE  IInv'
  <1>1. Good(runs', Noted, Known)
    BY Ends
  <1> QED BY Facts, <1>1, RunsOnly

LEMMA EarlyEnds ==
  ASSUME IInv, NEW i \in DOMAIN runs,
         Cancel(i) \/ CheapCheckFails(i) \/ SkipDuplicate(i) \/ PrepareFails(i)
  PROVE  IInv'
  BY Facts, EndStep DEF Cancel, CheapCheckFails, SkipDuplicate, PrepareFails

-----------------------------------------------------------------------------
(* Jobs.                                                                   *)

\* A run that goes on without a trace elsewhere.
LEMMA GoOn ==
  ASSUME IInv, NEW i \in DOMAIN runs, NEW u \in Runs, runs' = [runs EXCEPT ![i] = u],
         Group(u) = Group(runs[i]), Sound(u, Noted, Known), InProgress(runs[i]) \/ GroupIsFree(i),
         UNCHANGED <<upstream, revision, builds, releases, republished, markers, interventions>>
  PROVE  IInv'
  <1>1. Good(runs', Noted, Known)
    BY Moves
  <1> QED BY Facts, <1>1, RunsOnly

LEMMA StartStep == ASSUME IInv, NEW i \in DOMAIN runs, Start(i) PROVE IInv'
  <1> DEFINE step == IF HasCheapCheck(runs[i]) THEN "cheap-check" ELSE "prepare"
  <1>1. PICK u \in Runs : /\ runs' = [runs EXCEPT ![i] = u] /\ Same(runs[i], u) /\ Group(u) = Group(runs[i])
                          /\ u.step = step
    BY MoveStep DEF Start, RunSteps
  <1>2. Sound(runs[i], Noted, Known) /\ runs[i] \in Runs
    BY Facts
  <1>3. step = "prepare" => runs[i].level # "cheap"
    BY DEF HasCheapCheck
  <1>4. step \in {"cheap-check", "prepare"}
    OBVIOUS
  <1> HIDE DEF step
  <1>5. Sound(u, Noted, Known)
    BY <1>1, <1>2, <1>3, <1>4 DEF Sound, Same, Prepared
  <1> QED BY <1>1, <1>5, GoOn DEF Start

LEMMA CheapCheckStep == ASSUME IInv, NEW i \in DOMAIN runs, CheapCheck(i) PROVE IInv'
  <1>1. UNCHANGED <<upstream, revision, builds, releases, republished, markers, interventions>>
    BY DEF CheapCheck
  <1>2. CASE End(i)
    BY <1>1, <1>2, EndStep, Facts
  <1>3. CASE runs[i].event = "schedule" /\ Move(i, "prepare")
    <2>1. PICK u \in Runs : /\ runs' = [runs EXCEPT ![i] = u] /\ Same(runs[i], u) /\ Group(u) = Group(runs[i])
                            /\ u.step = "prepare"
      BY <1>3, MoveStep DEF RunSteps
    <2>2. Sound(runs[i], Noted, Known)
      BY Facts
    <2>3. Sound(u, Noted, Known)
      BY <1>3, <2>1, <2>2 DEF Sound, Same, Prepared
    <2>4. InProgress(runs[i])
      BY DEF CheapCheck, InProgress
    <2> QED BY <1>1, <2>1, <2>3, <2>4, GoOn
  <1> QED BY <1>2, <1>3 DEF CheapCheck

\* A run that prepares a target goes on to verify it, when it is sound to.
LEMMA Releasing ==
  ASSUME IInv, NEW i \in DOMAIN runs, NEW target \in Targets, Release(i, target), runs[i].step = "prepare",
         runs[i].artifacts # NoBuild =>
             runs[i].artifacts.target = target /\ runs[i].artifacts.patches = PatchesOf[runs[i].revision],
         runs[i].event = "schedule" =>
             \A m \in Noted : m.level = "full" => ~(m.target = target /\ m.revision = runs[i].revision),
         ~runs[i].focus => target \notin Known,
         UNCHANGED <<upstream, revision, builds, releases, republished, markers, interventions>>
  PROVE  IInv'
  <1>1. PICK t \in Runs : t = runs[i] /\ Sound(t, Noted, Known)
    BY Facts
  <1> DEFINE u == [t EXCEPT !.step = "verify", !.target = target]
  <1>2. runs' = [runs EXCEPT ![i] = u]
    BY <1>1 DEF Release
  <1>3. u \in Runs /\ Same(t, u) /\ u.step = "verify" /\ u.target = target
    BY DEF Runs, Same
  <1> HIDE DEF u
  <1>4. Group(u) = Group(t) /\ InProgress(t)
    BY <1>1, <1>3 DEF Group, Same, InProgress
  <1>5. Sound(u, Noted, Known)
    BY <1>1, <1>3 DEF Sound, Same, Prepared
  <1> QED BY <1>1, <1>2, <1>3, <1>4, <1>5, GoOn

LEMMA PrepareReusedStep == ASSUME IInv, NEW i \in DOMAIN runs, PrepareReused(i) PROVE IInv'
  <1>1. PICK r \in Runs : r = runs[i] /\ Sound(r, Noted, Known)
    BY Facts
  <1>2. /\ UNCHANGED <<upstream, revision, builds, releases, republished, markers, interventions>>
        /\ r.step = "prepare" /\ r.artifacts # NoBuild
    BY <1>1 DEF PrepareReused
  <1>3. PICK exists \in Found(r.artifacts.target \in Released) :
            IF SamePatches(r) /\ (r.focus \/ ~exists) THEN Release(i, r.artifacts.target) ELSE End(i)
    BY <1>1 DEF PrepareReused
  <1>4. CASE End(i)
    BY <1>2, <1>4, EndStep, Facts
  <1>5. CASE SamePatches(r) /\ (r.focus \/ ~exists) /\ Release(i, r.artifacts.target)
    <2>1. r.artifacts.target \in Targets
      BY <1>2 DEF Runs, Builds
    <2>2. r.event # "schedule"
      BY <1>1, <1>2 DEF Sound
    <2>3. ~r.focus => r.artifacts.target \notin Known
      BY <1>3, <1>5 DEF Found, Known
    <2>4. r.artifacts.patches = PatchesOf[r.revision]
      BY <1>5 DEF SamePatches
    <2> QED BY <1>1, <1>2, <1>5, <2>1, <2>2, <2>3, <2>4, Releasing
  <1> QED BY <1>3, <1>4, <1>5

LEMMA PrepareFreshStep == ASSUME IInv, NEW i \in DOMAIN runs, PrepareFresh(i) PROVE IInv'
  <1>1. PICK r \in Runs : r = runs[i] /\ Sound(r, Noted, Known)
    BY Facts
  <1> DEFINE tag == IF r.tag = 0 THEN Latest ELSE r.tag
             target == <<tag, r.suffix>>
  <1>2. /\ UNCHANGED <<upstream, revision, builds, releases, republished, markers, interventions>>
        /\ r.step = "prepare" /\ r.artifacts = NoBuild
    BY <1>1 DEF PrepareFresh
  <1>3. PICK exists \in Found(target \in Released), marked \in Found(Marked(target, r.revision)) :
            IF Wanted(r, target, exists, marked) THEN Release(i, target) ELSE End(i)
    BY <1>1 DEF PrepareFresh
  <1>4. target \in Targets
    <2>1. r.tag \in 0..MaxTag /\ r.suffix \in Nat
      BY DEF Runs
    <2>2. tag \in 0..MaxTag
      BY <2>1, LatestType DEF IInv
    <2> QED BY <2>1, <2>2 DEF Targets
  <1> HIDE DEF target
  <1>5. CASE End(i)
    BY <1>2, <1>5, EndStep, Facts
  <1>6. CASE Wanted(r, target, exists, marked) /\ Release(i, target)
    <2>1. (r.focus \/ ~exists) /\ (r.event = "schedule" => ~marked)
      BY <1>6 DEF Wanted
    <2>2. ~r.focus => target \notin Known
      BY <1>3, <2>1 DEF Found, Known
    <2>3. r.event = "schedule" =>
             \A m \in Noted : m.level = "full" => ~(m.target = target /\ m.revision = r.revision)
      BY <1>3, <2>1 DEF Found, Noted, Marked
    <2> QED BY <1>1, <1>2, <1>4, <1>6, <2>2, <2>3, Releasing
  <1> QED BY <1>3, <1>5, <1>6

LEMMA VerifyStep == ASSUME IInv, NEW i \in DOMAIN runs, Verify(i) PROVE IInv'
  <1>1. PICK t \in Runs : t = runs[i] /\ Sound(t, Noted, Known)
    BY Facts
  <1>2. PICK ok \in BOOLEAN : runs' = [runs EXCEPT ![i].step = "build", ![i].verified = ok]
    BY DEF Verify, Succeeds
  <1> DEFINE u == [t EXCEPT !.step = "build", !.verified = ok]
  <1>3. runs' = [runs EXCEPT ![i] = u]
    BY <1>1, <1>2
  <1>4. u \in Runs /\ Same(t, u) /\ u.step = "build" /\ u.target = t.target
    BY DEF Runs, Same
  <1> HIDE DEF u
  <1>5. t.step = "verify" /\ UNCHANGED <<upstream, revision, builds, releases, republished, markers, interventions>>
    BY <1>1 DEF Verify
  <1>6. Group(u) = Group(t) /\ InProgress(t)
    BY <1>4, <1>5 DEF Group, Same, InProgress
  <1>7. Sound(u, Noted, Known)
    BY <1>1, <1>4, <1>5 DEF Sound, Same, Prepared
  <1> QED BY <1>1, <1>3, <1>4, <1>5, <1>6, <1>7, GoOn

\* A step that changes the runs, and the artifacts that are stored.
LEMMA Uploads ==
  ASSUME IInv, UNCHANGED <<upstream, revision, releases, republished, markers, interventions>>,
         builds' \subseteq Builds, Good(runs', Noted, Known)
  PROVE  IInv'
  <1>1. Noted' = Noted /\ Known' = Known /\ Released' = Released
    BY DEF Noted, Known, Released
  <1>2. Good(runs, Noted, Known)'
    BY <1>1
  <1>3. TypeOK'
    BY <1>1 DEF IInv, TypeOK, Good
  <1>4. ReleaseHasItsPatches' /\ (~LookupsFail /\ NoSentinelReuse => PublishedOnce')
    BY DEF IInv, ReleaseHasItsPatches, PublishedOnce
  <1> QED BY <1>2, <1>3, <1>4 DEF IInv

LEMMA BuildOfType ==
  ASSUME NEW r \in Runs, NEW complete \in BOOLEAN
  PROVE  BuildOf(r, complete) \in Builds
  <1>1. r.target \in Targets /\ r.verified \in BOOLEAN /\ PatchesOf[r.revision] \in PatchSets
    BY DEF Runs, PatchSets
  <1> QED BY <1>1 DEF BuildOf, Builds

LEMMA BuildStep == ASSUME IInv, NEW i \in DOMAIN runs, Build(i) PROVE IInv'
  <1>1. PICK r \in Runs : r = runs[i] /\ Sound(r, Noted, Known)
    BY Facts
  <1>2. PICK built \in AllBuilt(r) :
        /\ builds' = IF r.artifacts = NoBuild THEN builds \cup {BuildOf(r, built)} ELSE builds
        /\ IF AfterBuild(r, built) = "end" THEN End(i) ELSE Move(i, AfterBuild(r, built))
    BY <1>1 DEF Build
  <1>3. /\ UNCHANGED <<upstream, revision, releases, republished, markers, interventions>>
        /\ r.step = "build" /\ InProgress(r)
    BY <1>1 DEF Build, InProgress
  <1>4. built \in BOOLEAN /\ (r.level = "sentinel" => ~built)
    BY DEF AllBuilt, Succeeds
  <1>5. builds' \subseteq Builds
    BY <1>2, <1>4, BuildOfType DEF IInv, TypeOK
  <1>6. CASE End(i)
    BY <1>3, <1>5, <1>6, Ends, Uploads
  <1>7. CASE AfterBuild(r, built) # "end" /\ Move(i, AfterBuild(r, built))
    <2> DEFINE step == AfterBuild(r, built)
    <2>1. ~r.focus /\ step \in {"publish", "record"} /\ (step = "publish" => r.artifacts # NoBuild \/ built)
      BY <1>7 DEF AfterBuild
    <2> HIDE DEF step
    <2>2. PICK u \in Runs : /\ runs' = [runs EXCEPT ![i] = u] /\ Same(r, u) /\ Group(u) = Group(r)
                            /\ u.step = step /\ u.target = r.target
      BY <1>1, <1>7, <2>1, MoveStep DEF RunSteps, step
    <2>3. Sound(u, Noted, Known)
      BY <1>1, <1>3, <1>4, <2>1, <2>2 DEF Sound, Same, Prepared
    <2>4. Good(runs', Noted, Known)
      BY <1>1, <1>3, <2>2, <2>3, Moves
    <2> QED BY <1>3, <1>5, <2>4, Uploads
  <1> QED BY <1>2, <1>6, <1>7

\* While run i publishes or records, no other run of its group is in progress, so
\* what i adds to the releases or to the markers is none that another relies on.
LEMMA OthersRelyOnNone ==
  ASSUME IInv, NEW i \in DOMAIN runs, NEW r \in Runs, r = runs[i], InProgress(r), ~r.focus, r.level = "full",
         NEW k \in (1..Len(runs)) \ {i}, runs[k].step \in {"verify", "build", "publish"}
  PROVE  ~(runs[k].level = "full" /\ ~runs[k].focus) /\ runs[k].event # "schedule"
  <1>1. runs[k] \in Runs /\ Sound(runs[k], Noted, Known) /\ InProgress(runs[k])
    BY Facts DEF InProgress
  <1>2. Group(runs[k]) # Group(r)
    BY Facts, <1>1 DEF Apart
  <1>3. ~(runs[k].level = "full" /\ ~runs[k].focus)
    <2>1. r.focus \in BOOLEAN /\ runs[k].focus \in BOOLEAN
      BY <1>1 DEF Runs
    <2>2. runs[k].level = "full" /\ ~runs[k].focus => Group(runs[k]) = Group(r)
      BY <2>1 DEF Group
    <2> QED BY <1>2, <2>2
  <1>4. runs[k].event = "schedule" => runs[k].level = "full" /\ ~runs[k].focus
    BY <1>1 DEF Sound
  <1> QED BY <1>3, <1>4

PublicationOf(r) ==
    [target |-> r.target, revision |-> r.revision,
     build |-> IF r.artifacts = NoBuild THEN BuildOf(r, TRUE) ELSE r.artifacts,
     reused |-> r.artifacts # NoBuild]

LEMMA PublicationIsRight ==
  ASSUME NEW r \in Runs, NEW marked, NEW released, Sound(r, marked, released), r.step = "publish"
  PROVE  LET x == PublicationOf(r)
         IN  /\ x.target = r.target
             /\ x \in [target : Targets, revision : 1..MaxRevision, build : Builds, reused : BOOLEAN]
             /\ x.build.target = x.target /\ x.build.patches = PatchesOf[x.revision]
             /\ x.reused \/ x.build.complete
  <1> DEFINE x == PublicationOf(r)
  <1>1. x.target = r.target /\ x.revision = r.revision /\ r.target \in Targets /\ r.revision \in 1..MaxRevision
    BY DEF PublicationOf, Runs
  <1>2. CASE r.artifacts = NoBuild
    <2>1. x.build = BuildOf(r, TRUE)
      BY <1>2 DEF PublicationOf
    <2>2. BuildOf(r, TRUE) \in Builds
      BY BuildOfType
    <2>3. /\ BuildOf(r, TRUE).target = r.target /\ BuildOf(r, TRUE).patches = PatchesOf[r.revision]
          /\ BuildOf(r, TRUE).complete
      BY DEF BuildOf
    <2>4. x \in [target : Targets, revision : 1..MaxRevision, build : Builds, reused : BOOLEAN]
      BY <1>1, <1>2, <2>2 DEF PublicationOf
    <2> QED BY <1>1, <2>1, <2>3, <2>4
  <1>3. CASE r.artifacts # NoBuild
    <2>1. x.build = r.artifacts /\ x.reused /\ r.artifacts \in Builds
      BY <1>3 DEF PublicationOf, Runs
    <2>2. r.artifacts.target = r.target /\ r.artifacts.patches = PatchesOf[r.revision]
      BY <1>3 DEF Sound, Prepared
    <2>3. x \in [target : Targets, revision : 1..MaxRevision, build : Builds, reused : BOOLEAN]
      BY <1>1, <1>3, <2>1 DEF PublicationOf
    <2> QED BY <1>1, <2>1, <2>2, <2>3
  <1> QED BY <1>2, <1>3

LEMMA PublishStep == ASSUME IInv, NEW i \in DOMAIN runs, Publish(i) PROVE IInv'
  <1>1. PICK r \in Runs : r = runs[i] /\ Sound(r, Noted, Known)
    BY Facts
  <1>2. /\ r.step = "publish" /\ InProgress(r) /\ ~r.focus /\ r.level # "cheap"
        /\ UNCHANGED <<upstream, revision, builds, markers, interventions>>
    BY <1>1 DEF Publish, InProgress, Sound
  <1> DEFINE x == PublicationOf(r)
  <1>3. PICK ok \in BOOLEAN :
        /\ \/ releases' = releases \cup {x} /\ republished' = republished \cup ({r.target} \cap Released)
           \/ UNCHANGED <<releases, republished>>
        /\ End(i) \/ Move(i, "record")
    BY <1>1 DEF Publish, Succeeds, PublicationOf
  <1>4. /\ x.target = r.target /\ x.build.target = x.target /\ x.build.patches = PatchesOf[x.revision]
        /\ x.reused \/ x.build.complete
        /\ x \in [target : Targets, revision : 1..MaxRevision, build : Builds, reused : BOOLEAN]
    BY <1>1, <1>2, PublicationIsRight
  <1> HIDE DEF x
  <1>5. Noted' = Noted /\ Known' \subseteq Known \cup {r.target}
    BY <1>2, <1>3, <1>4 DEF Noted, Known, Released
  <1>6. ~LookupsFail /\ NoSentinelReuse => r.level = "full" /\ r.target \notin Released
    BY <1>1, <1>2 DEF Sound, Known, Runs
  <1>7. \A k \in (1..Len(runs)) \ {i} : Sound(runs[k], Noted, Known')
    <2> SUFFICES ASSUME NEW k \in (1..Len(runs)) \ {i} PROVE Sound(runs[k], Noted, Known')
      OBVIOUS
    <2>1. Sound(runs[k], Noted, Known)
      BY Facts
    <2>2. CASE LookupsFail \/ ~NoSentinelReuse
      <3>1. Known' = Known
        BY <2>2 DEF Known
      <3> QED BY <2>1, <3>1
    <2>3. CASE ~(LookupsFail \/ ~NoSentinelReuse)
      <3>1. runs[k].step \in {"verify", "build", "publish"} => ~(runs[k].level = "full" /\ ~runs[k].focus)
        BY <1>1, <1>2, <1>6, <2>3, OthersRelyOnNone
      <3> QED BY <2>1, <3>1 DEF Sound
    <2> QED BY <2>2, <2>3
  <1>8. Good(runs', Noted, Known')
    <2>1. CASE End(i)
      BY <1>7, <2>1, Facts, Ending DEF End
    <2>2. CASE Move(i, "record")
      <3>1. PICK u \in Runs : /\ runs' = [runs EXCEPT ![i] = u] /\ Same(r, u) /\ Group(u) = Group(r)
                              /\ u.step = "record" /\ u.target = r.target
        BY <1>1, <2>2, MoveStep DEF RunSteps
      <3>2. Sound(u, Noted, Known')
        BY <1>1, <1>2, <3>1 DEF Sound, Same, Prepared
      <3>3. Good([runs EXCEPT ![i] = u], Noted, Known')
        BY <1>1, <1>2, <1>7, <3>1, <3>2, Facts, GoingOn
      <3> QED BY <3>1, <3>3
    <2> QED BY <1>3, <2>1, <2>2
  <1>9. TypeOK'
    <2>1. /\ releases' \subseteq [target : Targets, revision : 1..MaxRevision, build : Builds, reused : BOOLEAN]
          /\ republished' \subseteq Released'
      BY <1>3, <1>4 DEF IInv, TypeOK, Released
    <2> QED BY <1>2, <1>8, <2>1 DEF IInv, TypeOK, Good
  <1>10. ReleaseHasItsPatches'
    BY <1>3, <1>4 DEF IInv, ReleaseHasItsPatches
  <1>11. ~LookupsFail /\ NoSentinelReuse => PublishedOnce'
    BY <1>3, <1>6 DEF IInv, PublishedOnce
  <1>12. Good(runs, Noted, Known)'
    BY <1>5, <1>8
  <1> QED BY <1>9, <1>10, <1>11, <1>12 DEF IInv

LEMMA RecordStep == ASSUME IInv, NEW i \in DOMAIN runs, RecordFailureMarker(i) PROVE IInv'
  <1>1. PICK r \in Runs : r = runs[i] /\ Sound(r, Noted, Known)
    BY Facts
  <1>2. /\ r.step = "record" /\ InProgress(r) /\ ~r.focus /\ End(i)
        /\ UNCHANGED <<upstream, revision, builds, releases, republished, interventions>>
    BY <1>1 DEF RecordFailureMarker, InProgress, Sound
  <1> DEFINE m == Marker(r)
  <1>3. markers' = markers \cup {m} \/ markers' = markers
    BY <1>1 DEF RecordFailureMarker
  <1>4. m \in [target : Targets, revision : 1..MaxRevision, level : {"full", "sentinel", "cheap"}] /\ m.level = r.level
    BY DEF Marker, Runs
  <1> HIDE DEF m
  <1>5. Noted' \subseteq Noted \cup {m} /\ Known' = Known /\ Released' = Released
    BY <1>2, <1>3 DEF Noted, Known, Released
  <1>6. \A k \in (1..Len(runs)) \ {i} : Sound(runs[k], Noted', Known)
    <2> SUFFICES ASSUME NEW k \in (1..Len(runs)) \ {i} PROVE Sound(runs[k], Noted', Known)
      OBVIOUS
    <2>1. Sound(runs[k], Noted, Known)
      BY Facts
    <2>2. r.level = "full" /\ runs[k].step \in {"verify", "build", "publish"} => runs[k].event # "schedule"
      BY <1>1, <1>2, OthersRelyOnNone
    <2> QED BY <1>4, <1>5, <2>1, <2>2 DEF Sound
  <1>7. Good(runs', Noted', Known)
    BY <1>2, <1>6, Facts, Ending DEF End
  <1>8. TypeOK'
    <2>1. markers' \subseteq [target : Targets, revision : 1..MaxRevision, level : {"full", "sentinel", "cheap"}]
      BY <1>3, <1>4 DEF IInv, TypeOK
    <2> QED BY <1>2, <1>5, <1>7, <2>1 DEF IInv, TypeOK, Good
  <1>9. ReleaseHasItsPatches' /\ (~LookupsFail /\ NoSentinelReuse => PublishedOnce')
    BY <1>2 DEF IInv, ReleaseHasItsPatches, PublishedOnce
  <1>10. Good(runs, Noted, Known)'
    BY <1>5, <1>7
  <1> QED BY <1>8, <1>9, <1>10 DEF IInv

-----------------------------------------------------------------------------
(* Theorems.                                                               *)

LEMMA NextIInv == IInv /\ [Next]_vars => IInv'
  <1> SUFFICES ASSUME IInv, [Next]_vars PROVE IInv'
    OBVIOUS
  <1>1. CASE UpstreamReleases \/ Schedule \/ Push \/ Dispatch
    BY <1>1, UpstreamStep, ScheduleStep, PushStep, DispatchStep
  <1>2. ASSUME NEW i \in DOMAIN runs, Start(i) \/ CheapCheck(i) \/ Verify(i) PROVE IInv'
    BY <1>2, StartStep, CheapCheckStep, VerifyStep
  <1>3. ASSUME NEW i \in DOMAIN runs, Cancel(i) \/ CheapCheckFails(i) \/ SkipDuplicate(i) \/ PrepareFails(i) PROVE IInv'
    BY <1>3, EarlyEnds
  <1>4. ASSUME NEW i \in DOMAIN runs, Prepare(i) PROVE IInv'
    BY <1>4, PrepareReusedStep, PrepareFreshStep DEF Prepare
  <1>5. ASSUME NEW i \in DOMAIN runs, Finish(i) PROVE IInv'
    BY <1>5, BuildStep, PublishStep, RecordStep DEF Finish
  <1>6. CASE UNCHANGED vars
    <2>1. UNCHANGED <<upstream, revision, builds, releases, republished, markers, interventions>> /\ runs' = runs
      BY <1>6 DEF vars
    <2>2. Good(runs', Noted, Known)
      BY <2>1 DEF IInv
    <2> QED BY Facts, <2>1, <2>2, RunsOnly
  <1> QED BY <1>1, <1>2, <1>3, <1>4, <1>5, <1>6 DEF Next

\* Every run is sound, runs of one group are apart, and the releases are right.
THEOREM ReleaseInvariant == Spec => []IInv
  <1> QED BY InitIInv, NextIInv, PTL DEF Spec

\* Runs carry the inputs and job outputs of the workflow, and what is stored on
\* GitHub has its fields.
THEOREM ReleaseTypes == Spec => []TypeOK
  <1>1. IInv => TypeOK
    BY DEF IInv
  <1> QED BY <1>1, ReleaseInvariant, PTL

\* What is published under a tag was built for that tag from the patches of the
\* revision that publishes it, whole when the run built it, whatever jobs fail and
\* whatever gh fails to answer.
THEOREM ReleasesHaveTheirPatches == Spec => []ReleaseHasItsPatches
  <1>1. IInv => ReleaseHasItsPatches
    BY DEF IInv
  <1> QED BY <1>1, ReleaseInvariant, PTL

\* While gh answers, the schedule never builds a tag that a full run has failed to
\* release at the same revision of main, although it looks before the failing run may
\* have recorded it: they are in one concurrency group.
THEOREM FailuresAreNotRetried == ~LookupsFail => (Spec => []FailedReleaseIsNotRetried)
  <1> SUFFICES ASSUME ~LookupsFail PROVE Spec => []FailedReleaseIsNotRetried
    OBVIOUS
  <1>1. IInv => FailedReleaseIsNotRetried
    <2> SUFFICES ASSUME IInv, NEW i \in DOMAIN runs,
                        runs[i].event = "schedule", runs[i].step \in {"verify", "build", "publish"},
                        NEW m \in markers, m.level = "full"
                 PROVE  <<m.target, m.revision>> # <<runs[i].target, runs[i].revision>>
      BY DEF FailedReleaseIsNotRetried
    <2>1. Sound(runs[i], Noted, Known) /\ m \in Noted
      BY Facts DEF Noted
    <2> QED BY <2>1 DEF Sound
  <1> QED BY <1>1, ReleaseInvariant, PTL

\* While gh answers, and no earlier artifacts are published at sentinel level, a
\* patched tag is published once: what a run found missing is still missing when, hours
\* later, it publishes.
THEOREM EachTagOnce == ~LookupsFail /\ NoSentinelReuse => (Spec => []PublishedOnce)
  <1> SUFFICES ASSUME ~LookupsFail, NoSentinelReuse PROVE Spec => []PublishedOnce
    OBVIOUS
  <1>1. IInv => PublishedOnce
    BY DEF IInv
  <1> QED BY <1>1, ReleaseInvariant, PTL
=============================================================================
