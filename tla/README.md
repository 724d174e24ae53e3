# Models of codex-fixes

TLA+ specifications of the parts of this repository where several actors, or
several runs one after the other, share state: the Python SDK (`sdk/python`),
whose threads share one connection to `codex app-server`; the release pipeline
(`.github/workflows`, `scripts`), whose runs share one GitHub repository; a
maintainer's own builds (`scripts/build-release.sh`), which share a checkout and an
output directory; and the packager (`scripts/codex_package`), whose runs share
download caches. Everything is checked with TLC on small instances; the router,
the thread-start lock, goal operations, the client's life, the release pipeline, local
builds and packages are also proved about with TLAPS, for every value of their constants.

## 1. Inventory

Paths below are relative to `sdk/python/src/openai_codex` unless they start
with a dot or with `scripts`.

| Part | State | Operations | Talks to | Hard because |
|---|---|---|---|---|
| Message router, `_message_router.py` | response waiters, turn, login and goal tables, pending events, global queue, one lock | create / discard waiter, register / unregister / next per turn and login, reserve / unregister goal, route_response, route_notification, fail_all | called by the reader thread and by every caller thread | queues are found under the lock and filled after it is released; consumers come late, twice, or leave early; the transport may fail between any two steps |
| Request path, `client.py` | process handle, write lock, reader thread | `_request_raw`, `_write_message`, `_reader_loop`, wait and stream loops | the app-server over stdin/stdout; the router | a write fails after the line went out; the reader must never block on a caller |
| Thread-start lock, `client.py:624` | dictionary from thread id to `[lock, users]` | the context manager `_thread_start_lock` | `turn_start`, `start_goal_operation` | lock objects are created and dropped while callers wait for them |
| Goal operations, `_goal.py`, `client.py:524-600` | goal state and queue per operation, route per thread, stream cursor | start, observe, wait_for_start, cancel, fail, finish, process, close | server, router, thread-start lock | many physical turns become one logical turn; requests fail or time out half-way; three parties release the route |
| Client lifecycle, `client.py:227-309` | process, reader and stderr threads | start, close, restart, approval handler | operating system, all of the above | close takes no lock and fails no request itself; the reader of the old process may outlive it |
| Async client and public API, `async_client.py`, `api.py`, `_run.py`, `_login.py` | initialisation flag and lock, handles | initialise on first use, close, wrappers on worker threads | `CodexClient` | cancellation of the awaiting task does not stop the worker |
| Retry and errors, `retry.py`, `errors.py` | none | bounded retry with backoff | callers | which outcomes are repeated: never one that was carried out |
| Release pipeline, `.github/workflows/upstream-release-check.yml`, `rust-release.yml`, `scripts/check-upstream-release-cheap.sh` | runs, artifacts, releases, failure markers | schedule, push, dispatch, call; cheap-check, prepare, verify, build, publish, record-failure-marker | GitHub | concurrency groups, duplicates, checks hours before their use, jobs that run `always()` |
| Patch queue and build scripts, `scripts/{build-release,apply-patches,verify-release}.sh`, `scripts/generate-release-manifest.py` | upstream checkout, cargo directory, output directory, manifest | apply, test, build, collect, checksum, manifest, verify | git, cargo | everything outlives a run that stops half-way |
| Packaging, `scripts/build_codex_package.py`, `scripts/codex_package/` | package directory, archive | cargo, copy, validate, archive | cargo, the caches, runtime staging in `sdk/python` | an earlier package, or half of one, is in the way |
| Shared download caches, `scripts/codex_package/{dotslash,v8}.py` | a cache directory per user | check, discard, download, replace, verify, extract | the network, other packagers | processes share fixed file names without a lock, and die |
| The rest: code generation, runtime setup, input mapping, generated types, CI helpers, other workflows | none or private files | sequential | | not modelled |

Interactions: caller threads create a waiter, write a line, and block on a
one-shot queue; the reader thread classifies each line and calls the router;
streams block on notification queues; starts of turns and goals on one thread
exclude each other by the thread-start lock; and the router gives an active
goal operation every notification of its thread.

What makes each part correct. *Router*: no event or answer is lost, duplicated
or left behind in a table, the single reader never blocks, nobody whom the
reader can still see waits for ever. *Lock*: mutual exclusion per thread id
although lock objects come and go, no leak, no lost waiter. *Goals*: one started
and one completed event, made of the goal's own turns; a failed start leaves nothing
running but what the server would not stop; the route belongs to the operation that
reserved it. *Release
pipeline*: what is published is what was built and checked, once per tag, and
an upstream release is eventually dealt with. *Client lifecycle*: no process is lost, a
client that takes itself for initialised has a process that is, no failure or reply
crosses from one process to the next, every call ends. After a crash the code keeps the flag and the dead process: every use
raises until somebody closes the client. *Local builds*: what a run releases verifies
and was compiled from what its manifest says, whatever earlier runs left. *Packages
and caches*: nothing left behind by another packager is used, or in the way.

## 2. Modules

| Module | Models | State ↔ code |
|---|---|---|
| `MessageRouter` | `_message_router.py` without the goal table, and the loops in `client.py` that use it | `response_waiters`, `registered`, `pending`, `queue` are the tables of `__init__`; `caller` and `user` are program counters of `_request_raw` and of the stream and wait loops; `owedResponses` and `owedItems` are the puts the reader makes after it releases the lock; `received`, `replayed`, `dropped` and `misread` are history |
| `MCMessageRouter` | instances for TLC | |
| `MessageRouterProofs` | theorems on `MessageRouter` | |
| `ThreadMutex` | abstract: at most one caller starts on a thread id | what `turn_start` and `start_goal_operation` rely on |
| `ThreadStartLock` | `CodexClient._thread_start_lock` | `locks`, `users`, `holder` are the dictionary and its entries; implements `ThreadMutex` |
| `ThreadStartLockProofs` | theorems on `ThreadStartLock` | |
| `GoalOperation` | goal operations of one thread, from the idle check to the closed stream, with ordinary turns as competitors, and starts whose awaiting task is cancelled (`async_client.py:236-282`) | `lock` is the mutex of `ThreadMutex`; `route` is `_goal_operations`; `state`, `cursor` are `_GoalOperationState` and `_GoalStreamCursor`; `at` is where each caller is in `start_goal_operation`, `cancel_goal_operation` or its stream; `transport` is `down` when the reader ended with the process and `deaf` when it ended without; `overtaken`, `unpaused`, `unstopped` are history |
| `GoalOperationProofs` | theorems on `GoalOperation`: the lock, the route, failed, abandoned and cancelled operations | |
| `GoalStreamProofs` | theorems on `GoalOperation`: what a stream shows | |
| `UpstreamRelease` | the release workflow | `runs` holds the runs in progress or waiting with their inputs and outputs; `builds` are artifacts, `markers` failure markers, `releases` publications |
| `MCUpstreamRelease` | instances for TLC | |
| `UpstreamReleaseProofs` | theorems on `UpstreamRelease` | |
| `ClientLifecycle` | `CodexClient.start` and `close`, the reader threads with the approval handler, `AsyncCodex._ensure_initialized` and `close`, `retry_on_overload` | `proc`, `readerThread` are `_proc`, `_reader_thread`; `initialized`, `initLock` are the fields of `AsyncCodex`; `caller` is what each task is doing, `detached` when the task is cancelled and its thread goes on; `server`, `stdin`, `stdout` are each process (`crashed` by itself, `gone` by a close) and its pipes; `overlaps` is history |
| `MCClientLifecycle` | symmetry for TLC | |
| `ClientLifecycleProofs` | theorems on `ClientLifecycle` | |
| `LocalRelease` | `build-release.sh` with the scripts it calls, and `verify-release.sh` | `queue` is `patches/`, `tree` the checkout, `cargo` the target directory, `dist`, `sums`, `manifest` the output directory with its two indexes, `run` the script; a file is the number of the run that wrote it |
| `MCLocalRelease` | settings for TLC | |
| `LocalReleaseProofs` | theorems on `LocalRelease` | |
| `CodexPackage` | a packager from its options to the archive, the caches, and what runtime staging accepts | `data` is what each file name of the caches holds, `task` is each packager and the file its handle follows, `dir` and `archive` its outputs |
| `MCCodexPackage` | options for TLC | |
| `CodexPackageProofs` | theorems on `CodexPackage` | |

Granularity. In the SDK an action is what happens under one lock, or one queue
operation, or one message; a critical section that releases the lock before
its puts is split there. In the pipeline an action is one job of a run, except
that `prepare` reads GitHub at one moment and builds and publications may fail.
`GoalOperation` uses the lock as a mutex, which is what `ThreadStartLock` is shown
and proved to implement.

External parts. The app-server of `GoalOperation` and GitHub of
`UpstreamRelease` are modelled from what the code expects of them: the server
carries a request out, refuses it, or fails before or after it takes effect, pauses and
interrupts of the clean-up included, sends notifications before or after the answer, may
have a goal stored and run its turns; GitHub keeps one run in progress and one waiting per concurrency group. In `ClientLifecycle`
the server answers in order, asks for approval, may crash, and may write a line that the
client cannot read; in `LocalRelease` and
`CodexPackage` the network, git and cargo succeed or fail, and anyone may kill a run.

Definitions that carry the comment "Faulty:" are not used by any
specification. Each is a small mistake in the definition that follows it; with it
in place, the property it is paired with in `PROJECT.json` is violated. They show
that no property holds merely by the shape of the model.

## 3. Runs

Every passing run explores its whole state space.

| Run | Question | Bounds |
|---|---|---|
| `RouterTables` | Can registration, replay, early leaving, re-registration and failure lose, duplicate, strand or reorder an event? | one turn, three events, two handles of two calls each: registration before, between and after events, two consumers of one turn, re-registration while the other streams; a global listener that gets the failure. Turns do not share state, so one is enough, and a login's wait takes the actions of a turn's stream; the two handles are symmetric |
| `RouterEnds` | Does the reader ever block, and does everyone it can see end? | two requests, of which one may be answered by an error that cannot be read while the other waits, and a turn's stream of two events; safety and liveness |
| `StartLock` | Is the reference-counted lock a mutex without leaks, and is it passed on? | three callers on two threads with three lock objects: a lock is dropped and made anew while a third caller waits |
| `Goals` | Goal starts against each other and against turns, with failing requests, time-outs, cancelled starts, early leaving and interrupted streams | two callers, one of which may leave its stream early (`Leavers`) and the pauses and interrupts of the other be left undone (`Unheard`), two physical turns: a second turn, a retried interrupt, a late release or cancellation against another operation; a goal left running by a closed stream, or by a clean-up that failed, that takes a turn in between |
| `GoalEnds` | What does a failed or abandoned start leave, and does every operation end? | one caller, two turns, with and without a goal stored before; any request refused or failed, and a reader that ends with the process or without it, losing the answer it could not read |
| `Clients` | Do start, close, cancellation and crashes lose a process, a client, or mix up two processes? | two tasks with one use each that may be tried twice, two processes, one close, one cancellation, and one of: a request for approval, a crash, a line that cannot be read, a failed start |
| `ClientCallsEnd` | Does every use and every close end? | as `Clients`, without retries and cancellations |
| `Releases` | Is what is published right, once, and not retried after a failure? | two tags of which the first is a prerelease, two revisions with different patches, one cancellation or dispatch (of any kind but the reuse of artifacts at sentinel level), unlimited scheduled runs; `gh` answers |
| `ReleaseSettles` | Is a release that stays the latest always settled? | two tags, the schedule alone; jobs and `gh` fail |
| `ReleaseUnverified` | *violation*: release of a build whose checks failed | one tag |
| `LocalBuilds` | Does a run's release verify, and is it what its manifest says, on top of what earlier runs left? | three runs, two commits, two patches and a stray one, two Linux targets and one without bwrap, three edits: a run that stops, one that goes on from it, and one after a reset |
| `Packages` | Does what others left in the caches get into a package, or in its way? | two packagers, three calls, one kill, failed download or new manifest, for a Linux and a Windows target: one packager dies or overlaps, another finds what it left |

Why the bounds are enough: each hazard involves at most two parties and one
earlier or later event, and the bounds give one more than it takes. `MaxCalls`,
`MaxTurns`, `Leavers`, `Unheard`, `MaxTag`, `MaxRevision`, `MaxInterventions`, `MaxStarts`, `MaxOps`,
`MaxCloses`, `MaxCancels`, `MaxEvents`, `MaxRuns`, `MaxEdits`, `MaxCommit`, `MaxPatch` and
`MaxFaults` are the only caps on otherwise unbounded behaviour (`MaxAttempts` is the
code's own `max_attempts`); `CHECK_DEADLOCK FALSE` is there because callers
finish and a conversation may simply be idle, in `ThreadStartLock` deadlock is
checked. Safety with a login, which no run of the router has, is in the theorems: they
are for any set of logins.

Conditions on properties that a reader should know of:

- `RegisteredCallEnds` is about channels with one handle. With two, one handle's
  unregister removes the other's queue (`_message_router.py:103`), and the other
  waits for ever.
- `WaitingCallerIsReachable` and `RegisteredRequestEnds` except the one request whose own
  error response could not be read (`misread`): its waiter is popped and gets nothing.
- `OneLogicalTurn` and `CompletionIsTheGoals` are about operations whose `goal/clear`
  met no turn that had started after their idle check (`overtaken`, history).
- `FailedStartLeavesNothing` and `AbandonedStartLeavesNothing` promise what a best-effort
  clean-up can, while the transport is up: the goal is left active only if the server did
  not carry out a pause (`unpaused`, history), and a turn is left running only if it did
  not carry out a pause or an interrupt (`unstopped`, history). They say nothing of what
  the server does when it refuses; they do say that the clean-up runs when it must, for
  the right turn, whatever failed before it.
- `OperationEnds` excepts a request that the end of the reader leaves without an answer
  while the process lives (`transport = "deaf"`), and `OperationsEnd` names the overlaps
  after which the same happens to a use: a raising handler, an unreadable line, a reader
  or a start that nobody waited for, a close that raised.
- `PublishedOnce` is checked while `gh` answers (`LookupsFail = FALSE`).
- `StayingLatestIsSettled` speaks of a release that `releases/latest` names for as long
  as it takes; what is promised of every release, and not kept, is in section 5.
- `UsableWhenInitialized` compares the flag with the process: initialised and not being
  closed implies a process that no close has stopped and that has accepted `initialize`.
  It does not say that the process is alive.
- `CancelReachesItsOwn` binds a cancellation to its goal from the answer to `goal/clear`
  until that goal has settled; afterwards the code cancels by thread id whatever runs
  there, and before it a failed `goal/clear` pauses the goal that was stored.
- The properties of `ClientLifecycle` name the overlaps under which the code breaks
  them; `overlaps` records which have happened, and section 5 says what each does.
- `FreshReleaseVerifies` is about an output directory that was empty, and
  `ReleaseIsWhatItSays` about a checkout that was clean, when the run began.
- `LonePackageIsRight` and `LoneFailureHasACause` are about packagers that had the
  caches to themselves, after whatever others left there;
  `RuntimeTakesThePackage` is about all.

### Fairness

`MessageRouter`, `GoalOperation`: weak fairness of every thread of the SDK, which
the interpreter schedules, and of the server, which answers a request and ends a
turn; nothing is assumed of a caller that has not begun, of a stream being
closed, or of the transport failing; a reader that has raised goes on to `fail_all`.
`GoalOperation` also lets the timeout of `wait_for_start` pass. `ThreadStartLock`: weak fairness of release and of each
blocked acquire, no caller has to enter or be served before another. `UpstreamRelease`:
the hourly schedule fires and runners work for ever; the cheap check, the
preparation and the upload of a marker, tried anew every hour, are strongly fair
to succeed; builds, verifications and publications may fail every time, and a duplicate
need never be noticed.
`ClientLifecycle`: the threads run, the approval handler returns or raises, and the
server answers what it has been sent unless it crashes; no task has to begin a use.

## 4. Proofs

`tlapm` checks the proof modules to the last leaf, from the named assumptions of the
component modules only: identifiers of turns, logins and the global channel differ,
sentinels are not values, callers are finitely many where they are counted, bounds are
natural numbers, a stored goal is active if there is one, and every use of the client
may start a process. `MayFail`, `StoredGoals`, `Answers`, targets, patches and binaries
are any values. Each theorem goes the same way: an inductive invariant, one lemma per
part of it, one step per action.

- `MessageRouterProofs`. The invariant `IInv` is `Routing /\ Requesting /\ Keeping`.
  `Routing` relates every queue a table or a thread names to the register call
  that made it. `Requesting` says that a request id is in exactly one of: the table,
  the reader's hand, its queue, settled, or misread by a reader that is leaving. Without it `ReaderNeverBlocksOnAWaiter` is
  not inductive, since a put in the reader's hand could meet a second one for an id
  still in the table. `Keeping` ties what is pending to how far a channel has been
  routed. Theorems: `RouterInvariant`, and from it `RouterTypes`, `ReaderNeverBlocks`,
  `WaitersAreReachable`, `RegisteredKeepsNothingPending`, `FinishedTurnKeepsNothing`.
  Two more invariants are about events. `Placing` replaces the counting of
  `EveryEventIsInOnePlace` by homes: the tables, the queues, the replays and the callers
  of a channel hold sets of event numbers, pairwise disjoint (`Placed`), in sequences that
  repeat none (`NoneTwice`), and a handle only looks at queues of its channel (`Housed`).
  A step then moves a set from one home to another, or lets the next event arrive in one
  (`Moving`), and the count follows at the end by a bijection. `Ordered` is what
  `OnlyReplayIsOvertaken` needs: what is kept is newer than all that is bound for a queue
  or received, and what the reader holds newer still (`Newest`); within a queue, and
  between a queue and its replay, only replayed events are overtaken (`Within`); what a
  removed queue still holds is older than what its successor will get (`Between`); and
  what a handle has received precedes what it can still look at (`Onward`). Queue objects
  are new when a register call makes them (`QueuesAreMade`), which is why abandoning,
  registering again and a stale reference to a removed queue do not mix two replays.
  Theorems: `EventsAreInOnePlace`, `EventsKeepTheirOrder`.
- `ThreadStartLockProofs`. `IInv` adds to the types that `users` of an entry counts the
  callers that refer to it (`UsersAreCounted`, by cardinality), that a caller
  inside or waiting refers to an entry, that the dictionary names the entry its
  callers share, and that a holder is inside. Mutual exclusion alone is not
  inductive: it needs that two callers of one thread share one entry, which needs
  the exact count. Theorems: `LockInvariant`, `StartsAreExclusive`,
  `DictionaryIsExact`, and `LockImplementsMutex`, the refinement of `ThreadMutex`.
- `GoalOperationProofs`. The values that travel name physical turns, so their types
  depend on how many the server has started: `Values(k)`, with the lemma `Wider` for a
  server that starts one more. `TurnsAndGoalsExclude` is inductive only with
  `Locking` (a caller between its checks and their use holds the lock), and
  `RouteIsTheOperations` only with `Unclosed`: a stream that is read has neither been
  released nor closed. Theorems: `GoalInvariant`, `GoalTypes`, `RouteFollowsOperation`,
  `TurnsExcludeGoals`.
  `Working` is the invariant of a start and of its cancellation, which act on what they
  have been told while the server goes on. A call is in one place: its request, the
  answer on the wire, or the reply (`Calls`). An operation that is not finished has the
  route while it uses it (`Holds`), and until its `goal/set` has been sent it has no
  goal, no turn, and nothing of a turn queued (`Setting`). From the server's answer to
  its `goal/clear` on, an active goal is its own, and a turn that is not has overtaken it
  (`Own`): the argument is about positions on the wire, since only the messages behind
  that answer are due to the operation. `Cancel` follows a cancellation through its
  requests: the first turn is running only while its start is on its way or has been
  seen (`RunShown`), the goal is not active once the pause is through (`PausedGoal`), an
  interrupt is for the turn that runs, or the answer names it (`Interrupting`), and then
  nothing runs (`Stopped`): each of these unless the server did not carry the pause or an
  interrupt out, which `unpaused` and `unstopped` remember. Since `goal/clear` may fail
  too, the last three parts begin when it has been carried out (`Clean`). Theorems:
  `GoalWorking`, `RaisedStartCleansUp`, `AbandonedStartCleansUp`, and the action property
  `CancelStopsItsOwn`.
- `GoalStreamProofs`. What a stream will show lies on the wire, in the reader's hands and
  in the queue; `Telling` says of these together what the properties say of the stream:
  every notification of a turn that is due is about the operation's own (`OwnNotes`); no
  completion comes before a start (`Shown`); while the goal is active there is no end of
  a goal left to read, unless an "active" that is still to come puts it right before the
  first turn starts (`Fresh`), which is why a settled goal that was stored before cannot
  end the stream of the next; and what has been returned fits the cursor (`Told`). None
  of this holds of an operation that a turn has overtaken. Theorems: `GoalTelling`,
  `StreamIsOneTurn`, `CompletionFollowsGoal`.
- `ClientLifecycleProofs`. `Control` says what keeps processes apart: they are started
  in order (`Counted`), a live initialisation holds `_init_lock` (`Locked`), every
  overlap that the properties excuse has been noticed when it begins (`Noticed`), the
  process a start checked for or a close has read is still current (`Current`), and an
  initialisation that finishes has one (`Finishing`). `ServersAreTracked` is inductive
  together with it. The two action properties
  need `Orderly`: without strays there is one process and one reader at a time.
  Theorems: `LifecycleTypes`, `NoServerIsLost`, `RepliesAreAsked`,
  `FailuresStayWithTheirProcess`.
  A second part is about retries. Where a use stands is spread over the task, the router's waiters,
  the pipes of every process there has been, and what servers have done. `Retrying`
  relates them: an operation that is about to be sent is undone, that is not carried out
  and in no pipe (`Tried`); a pipe holds at most one request for it (`Single`), and only
  while it has not been carried out (`Pending`); the router waits for the present try only
  (`Awaited`), and an answer in a pipe is to an earlier try, or to this one and true
  (`Answered`). Theorem: `UsesAreAtMostOnce`.
  A third part, `Initialisation`, follows what the flag stands for from the server to the
  client: `initialize` is asked once for an operation, of the process the task then waits
  for (`Once`); a process whose answer accepts it has accepted it (`Accepted`), and so has
  the process of a task that holds such an answer (`Served`); what a close stops is no
  longer the client's (`Stopped`); and the process of a live initialisation still is
  (`Present`). Theorem: `InitializedIsUsable`.
- `UpstreamReleaseProofs`. A run looks for releases and markers hours before it builds
  and publishes; what it saw then is still so because a concurrency group has one run in
  progress. `Sound` says of each run what it relies on: where it may be with its inputs,
  that what it reuses is of its target and its patches, that what it is about to build
  or publish is neither marked nor released. `Apart` says that runs of one group exclude
  each other, and shows that no other run breaks `Sound` (`OthersRelyOnNone`). Where `gh`
  may fail a run may have missed a marker or a release, so `Sound` is about none of them
  (`Noted`, `Known`). Theorems: `ReleaseInvariant`, `ReleaseTypes`,
  `ReleasesHaveTheirPatches`; while `gh` answers `FailuresAreNotRetried`; and
  `EachTagOnce`, which needs moreover that nobody publishes earlier artifacts at sentinel
  level, a group of its own (section 5).
- `LocalReleaseProofs`. The properties speak of finished runs, so the invariant follows a
  run through its steps: what of its queue is applied or still to come (`TreeInv`), the
  edits since it began (`EditInv`), what it has compiled, and with which V8 pair
  (`MadeInv`), and what the output directory holds at each step (`DistInv`).
  Theorems: `Invariant`, `TypeCorrect`, `FreshVerifies`, `SourceIsTold`,
  `NothingHalfPatched`.
- `CodexPackageProofs`. `Types` adds to the types that what a task has open is there,
  whatever others do with its name (`Handles`). `Written` says what a packager alone
  writes, so that `RuntimeTakesThePackage` holds when packagers overlap. `Undisturbed`
  follows a packager that is alone through its plan: it is on it (`OnPlan`), what it has
  passed is right (`PastIsReady`), what its next step reads is right or it has had
  trouble (`Fetching`), and the directory holds what has been copied (`Packing`). That
  a step touches only the names of the item in hand, and that no item is planned twice
  (`Plans`), keeps what has been passed. Theorems: `PackageInvariant`, `PackageTypes`,
  `LonePackagesAreRight`, `LoneFailuresHaveACause`, `RuntimeAlwaysTakesIt`.

The theorems `StartsAreExclusive` and `RegisteredKeepsNothingPending` state invariants no
run lists, since a listed one implies them.

Only model-checked: the liveness properties (TLAPS has no ENABLED here) and the
disagreements. Every safety property that a passing run checks is proved.
`Working` and `Telling`, which no run lists, hold on the instances of `Goals` and
`GoalEnds` too.

## 5. Disagreements between code and text

The run `ReleaseUnverified` shows that builds and publication go on after a failed
`verify` (workflow line 628). Six more properties are stated in the modules and
checked by no run, because the code does not keep them; TLC shows it with these
instances.

| Property | Instance | What happens |
|---|---|---|
| `MessageRouter!FirstCallEnds` | `FairSpec`, one handle on a turn of two events | the completion of an unregistered turn is dropped with its kept events, so `run()` waits for a `turn/completed` that has passed (`_message_router.py:210`) |
| `MessageRouter!NoRequestBlocksForever` | `FairSpec`, one request | a request made while `fail_all` is running waits for ever, although "no SDK call blocks forever" (`_message_router.py:230`); so does one whose error response has a code that is no number: `int()` raises after its waiter has been popped (line 165) |
| `UpstreamRelease!EveryReleaseIsSettled` | `FairSpec`, the schedule alone, two tags, nothing fails | an upstream release that another follows before a scheduled run prepares it is never released (workflow line 264), although "for every upstream Codex release, this repository publishes a corresponding patched release" (`README.md:56`) |
| `UpstreamRelease!SkipsFollowAFailedAttempt` | `OneSentinel`, one tag, one intervention | a sentinel run leaves a failure marker, and scheduled releases are skipped "after a failed attempt" that nobody made (line 1628) |
| `UpstreamRelease!PushedTagIsReleased` | `FairSpec`, `PushedTag`, one tag, one intervention | a pushed tag starts a run that ends after the cheap check (line 115) |
| `LocalRelease!FinishedReleaseVerifies` | `MCTwice`, two runs, one commit, one patch | a second release into one directory lists its own emptied `SHA256SUMS`, and `verify-release.sh` refuses it (`build-release.sh:357`) |

What else the models show, where no text says otherwise:

- Router: an event routed between the unlock and the replay of `register_turn`
  overtakes the replayed ones (`_message_router.py:99`), though a test speaks of
  preserved order; `OnlyReplayIsOvertaken` says that nothing else is overtaken. One
  failure item wakes one of several global listeners (`_message_router.py:240`).
- Goals: a goal stored before, or left running by a closed stream, may start a turn
  between the idle check and `thread/goal/clear`; the new operation accepts its completion (`client.py:566`,
  `_goal.py:90`). A late cancellation of a settled goal pauses and interrupts what
  another operation runs on the thread (`_goal.py:380`). The clean-up of a start swallows
  what the server answers (`client.py:528`, `546`, `548`): a pause or an interrupt that is
  refused or fails leaves the goal active or the turn running after the start has raised.
  A `goal/clear` that fails otherwise than by refusal is followed by that clean-up too,
  which then pauses the goal the thread had stored (`client.py:596`). A request sent when
  the reader has ended and the process has not waits for ever (`client.py:337`), the pause
  of a clean-up included, and with it the start.
- Client: after a cancelled `start` the next one may run beside it, and one of two
  processes is lost; so may two closes with a start between them (`client.py:239`). A
  close beside an initialisation, a cancelled close, and one that raises
  `BrokenPipeError` (`client.py:281`) leave a client that takes itself for initialised
  and refuses every use until the next close; so does a process that crashes, and a
  cancelled start leaves one whose process has accepted no `initialize`. A reader that outlives its half second
  goes on to the next process, may fail its requests or answer its approvals, and
  strands those of its own. An approval handler that raises, a line that is not a JSON
  object (`client.py:853-859`) and an error code that is no number end the reader while
  the process lives: later requests wait for ever, also across `close`. A handler that
  makes a request of its own never returns. `_write_message` may raise `AttributeError` beside a
  close. `RetryLimitExceededError` is retried although the server has given up.
- Pipeline: an error of `gh release view` counts as "not released yet", upon which
  the release is published again (workflow line 294). A reuse run at
  sentinel level is in a group of its own and may publish beside a full run. The check for
  duplicate runs calls `gh api -f` without `--method GET` (lines 174-181), which posts, and
  takes an error for "none": it may find nothing, so the model lets it fail at any time;
  the concurrency groups, not this check, carry the properties.
- Local builds: the V8 pair of the test target is exported to the build of another
  target (`build-release.sh:158`); a collection without a build takes binaries of any
  earlier runs; the manifest lists every `*.patch` of the repository.
- Packages: overlapping packagers may package a truncated `rg`, since extraction opens
  the verified archive by name anew (`dotslash.py:51`), unlink each other's temporary
  files, and fail with `FileNotFoundError`. `write_archive` writes under the final name:
  a kill leaves half an archive, over which a run without `--force` refuses to write.
  `codex-app-server` packages cannot be staged as the runtime.

## 6. Not modelled

- Generated wire types (`generated/v2_all.py`, nearly half of the implementation's
  lines): data declarations generated from the app-server's schema.
- `update_sdk_artifacts.py` and `_runtime_setup.py`: code generation and the download of
  a pinned runtime, sequential programs of one maintainer over files of their own
  (what staging accepts of a package is in `CodexPackage`).
- Input mapping and initialise metadata: pure functions between two spellings of
  one value.
- CI helpers (`.github/scripts`) and the other workflows: stateless checks and
  command lines; every run is independent of the others.
- `scripts/check-*.sh` of the repository: lists of commands that stop at the first failure.
- Notebooks, examples, vendored upstream metadata: prose and data.

Inside the modelled parts: notifications inside a physical turn (they change no
state of a goal operation), `_GoalOperationState`'s interrupt bookkeeping that no
code calls, KeyboardInterrupt except where the code handles it, the expiry of
artifacts and markers after 30 days, what is sent and routed after a
reader has ended while its process lives (a goal that goes on unseen), what
the build, verify and patch commands do beyond succeeding or failing, the stderr
drain thread, delays of retries, commands that replace the default test, build and
collection of `build-release.sh`, and the metadata of archive members.

Coarser than the code: cancelling a run of the pipeline ends it at once, although its
jobs under `always()` go on (such a run is one that nobody cancels and whose `verify` fails);
`build-release.sh` collects all its artifacts in one step, since they are copied into a
directory that a stopped run leaves unaudited; and the packager copies one entry in one
step, since a package directory is only looked at whole, or reset, by the next run.

## 7. Plan

In this order, what would add most:

1. `TurnHandle` and the collection of a turn's items (`_run.py`), once they keep state of
   their own beyond the stream they read.
2. A proof of the safety half of what liveness rests on: that a caller the reader can
   still see is always owed something (the router's `RegisteredCallEnds`, without fairness).
