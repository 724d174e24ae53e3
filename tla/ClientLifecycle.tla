--------------------------- MODULE ClientLifecycle ---------------------------
(***************************************************************************)
(* The life of the app-server process behind an AsyncCodex: lazy           *)
(* initialisation under _init_lock, start, close and restart of the        *)
(* CodexClient, the reader thread of each process, the approval handler it *)
(* runs, and requests repeated by retry_on_overload.  Codex, the           *)
(* synchronous client, is the case of one caller that initialises first.   *)
(*                                                                         *)
(* A blocking call of the client runs on a worker thread (to_thread), so   *)
(* the calls of several tasks interleave, and a cancelled task leaves its  *)
(* call running.  Nothing but _init_lock orders them: self._proc is read   *)
(* and written without a lock, and close takes none.                       *)
(*                                                                         *)
(* The tables of the router are those of MessageRouter; here a waiter is   *)
(* the request's id.  The app-server is external: it answers its requests  *)
(* in order, may ask for approval, and may crash.                          *)
(***************************************************************************)
EXTENDS Naturals, Sequences, FiniteSets

CONSTANTS Callers,       \* tasks that use the client
          NoCaller,
          Answers,       \* what the server answers to what it accepts
          MaxAttempts,   \* max_attempts of retry_on_overload
          MaxStarts, MaxOps, MaxCloses, MaxCancels,
          MaxEvents      \* server requests, crashes, unreadable lines, failed starts, cancellations

ASSUME Bounds == /\ NoCaller \notin Callers
                 /\ Answers \subseteq {"ok", "busy", "failed"}
                 /\ {MaxAttempts, MaxStarts, MaxOps} \subseteq Nat \ {0}
                 /\ MaxStarts >= Cardinality(Callers) * MaxOps   \* every use may start one
                 /\ {MaxCloses, MaxCancels, MaxEvents} \subseteq Nat

None == 0
Gens == 1..MaxStarts   \* the processes, in the order of their start

VARIABLES proc,         \* CodexClient._proc
          server,       \* per process: "none", "running", "crashed", or "gone" by a close
          ready,        \* per process: it has been initialised
          stdin,        \* per process: requests it has not taken yet
          stdout,       \* per process: lines the client has not read yet
          torn,         \* processes with a failed write in the buffer of their stdin
          reader,       \* per process, the reader thread its start created
          readerThread, \* CodexClient._reader_thread
          waiters,      \* requests the router has a waiter for
          caller,       \* per task, the call it is in
          initialized,  \* AsyncCodex._initialized
          initLock,     \* AsyncCodex._init_lock
          ran,          \* per operation, how often a server carried it out
          used,         \* the bounds used up
          overlaps      \* what has happened at the same time so far
vars == <<proc, server, ready, stdin, stdout, torn, reader, readerThread, waiters, caller,
          initialized, initLock, ran, used, overlaps>>
processes == <<server, ready, stdin, stdout, ran>>
client == <<proc, reader, readerThread, torn>>

Idle == [at |-> "idle", why |-> "op", op |-> 0, try |-> 0, gen |-> None, result |-> "none",
         detached |-> FALSE]
Init == /\ proc = None
        /\ server = [g \in Gens |-> "none"]
        /\ ready = {}
        /\ stdin = [g \in Gens |-> <<>>]
        /\ stdout = [g \in Gens |-> <<>>]
        /\ torn = {}
        /\ reader = [g \in Gens |-> [at |-> "none", of |-> None]]
        /\ readerThread = None
        /\ waiters = {}
        /\ caller = [c \in Callers |-> Idle]
        /\ initialized = FALSE
        /\ initLock = NoCaller
        /\ ran = [c \in Callers |-> [o \in 1..MaxOps |-> 0]]
        /\ used = [starts |-> 0, closes |-> 0, cancels |-> 0, events |-> 0]
        /\ overlaps = {}

Starting == {c \in Callers : caller[c].at \in {"start", "spawn", "reader"}}
Stopping == {c \in Callers : caller[c].at \in {"clear", "stop", "join"}}
Closing(c) == caller[c].why \in {"close", "abort"}
Id(c) == [caller |-> c, why |-> caller[c].why, op |-> caller[c].op, try |-> caller[c].try]
At(c, where) == caller' = [caller EXCEPT ![c].at = where]
Rest(c) == caller' = [caller EXCEPT ![c] = [Idle EXCEPT !.op = caller[c].op]]
\* Initialisation fails: except Exception closes the client, unless the task is gone.
Fail(c) == IF caller[c].detached THEN Rest(c)
           ELSE caller' = [caller EXCEPT ![c] = [Idle EXCEPT !.at = "close", !.why = "abort", !.op = caller[c].op]]
Spend(what) == used' = [used EXCEPT ![what] = @ + 1]

-----------------------------------------------------------------------------
(* AsyncCodex: every use goes through _ensure_initialized.                 *)

Use(c) ==
    /\ caller[c].at = "idle"
    /\ caller[c].op < MaxOps
    /\ caller' = [caller EXCEPT ![c].at = IF initialized THEN "send" ELSE "lock",
                                ![c].why = "op", ![c].op = @ + 1, ![c].try = 1]
    /\ UNCHANGED <<processes, client, waiters, initialized, initLock, used, overlaps>>

TakeInitLock(c) ==
    /\ caller[c].at = "lock"
    /\ initLock = NoCaller
    /\ IF initialized
       THEN At(c, "send") /\ UNCHANGED <<initLock, overlaps>>
       ELSE /\ caller' = [caller EXCEPT ![c].at = "start", ![c].why = "init"]
            /\ initLock' = c
            /\ overlaps' = overlaps \cup (IF Stopping = {} THEN {} ELSE {"close and start"})
    /\ UNCHANGED <<processes, client, waiters, initialized, used>>

\* CodexClient.start: the check, the process (or Popen raises), and the reader
\* thread, unless close has taken the process away.
Started(c) == IF caller[c].detached THEN Rest(c) ELSE At(c, "send")
\* Faulty: start does not look whether there is a process.
StartAgain(c) ==
    /\ caller[c].at = "start"
    /\ At(c, "spawn")
    /\ UNCHANGED <<processes, client, waiters, initialized, initLock, used, overlaps>>
StartCheck(c) ==
    /\ caller[c].at = "start"
    /\ IF proc = None THEN At(c, "spawn") ELSE Started(c)
    /\ UNCHANGED <<processes, client, waiters, initialized, initLock, used, overlaps>>
Spawn(c) ==
    /\ caller[c].at = "spawn"
    /\ used.starts < MaxStarts
    /\ LET g == used.starts + 1
       IN /\ proc' = g
          /\ server' = [server EXCEPT ![g] = "running"]
          /\ caller' = [caller EXCEPT ![c].at = "reader", ![c].gen = g]
    /\ Spend("starts")
    /\ UNCHANGED <<ready, stdin, stdout, torn, reader, readerThread, waiters, initialized, initLock,
                   ran, overlaps>>
SpawnFails(c) ==
    /\ caller[c].at = "spawn"
    /\ used.events < MaxEvents
    /\ Fail(c)
    /\ Spend("events")
    /\ UNCHANGED <<processes, client, waiters, initialized, initLock, overlaps>>
StartReader(c) ==
    /\ caller[c].at = "reader"
    /\ Started(c)
    /\ IF proc = None
       THEN UNCHANGED <<reader, readerThread>>
       ELSE /\ reader' = [reader EXCEPT ![caller[c].gen].at = "loop"]
            /\ readerThread' = caller[c].gen
    /\ UNCHANGED <<processes, proc, torn, waiters, initialized, initLock, used, overlaps>>

\* initialize has been answered: "initialized" is sent, and back in the event loop
\* the flag is set.  A process that takes no more lines makes the notification fail.
Writable == proc # None /\ server[proc] = "running"
Notify(c) ==
    /\ caller[c].at = "notify"
    /\ IF Writable THEN At(c, "finish") ELSE Fail(c)
    /\ torn' = torn \cup (IF proc # None /\ ~Writable THEN {proc} ELSE {})
    /\ UNCHANGED <<processes, proc, reader, readerThread, waiters, initialized, initLock, used, overlaps>>
FinishInit(c) ==
    /\ caller[c].at = "finish"
    /\ IF caller[c].detached
       THEN Rest(c) /\ UNCHANGED <<initialized, initLock>>
       ELSE /\ caller' = [caller EXCEPT ![c].at = "send", ![c].why = "op"]
            /\ initialized' = TRUE
            /\ initLock' = NoCaller
    /\ UNCHANGED <<processes, client, waiters, used, overlaps>>

\* The task of a blocking call is cancelled: _init_lock is released by its async
\* with, no except clause runs, and the thread goes on.
Cancel(c) ==
    /\ used.cancels < MaxCancels /\ used.events < MaxEvents
    /\ ~caller[c].detached
    /\ caller[c].why \in {"init", "close", "abort"}
    /\ caller[c].at \notin {"idle", "finish", "lock"}
    /\ caller' = [caller EXCEPT ![c].detached = TRUE]
    /\ initLock' = IF initLock = c THEN NoCaller ELSE initLock
    /\ overlaps' = overlaps \cup {IF Closing(c) THEN "cancelled close" ELSE "cancelled start"}
    /\ used' = [used EXCEPT !.cancels = @ + 1, !.events = @ + 1]
    /\ UNCHANGED <<processes, client, waiters, initialized>>

-----------------------------------------------------------------------------
(* Requests.                                                               *)

\* _request_raw registers a waiter and writes the line to the process there is at
\* that moment; a write that fails takes the waiter away again.
Send(c) ==
    /\ caller[c].at = "send"
    /\ waiters' = waiters \cup {Id(c)}
    /\ caller' = [caller EXCEPT ![c].at = "write", ![c].result = "none"]
    /\ UNCHANGED <<processes, client, initialized, initLock, used, overlaps>>
Write(c) ==
    /\ caller[c].at = "write"
    /\ IF Writable
       THEN /\ stdin' = [stdin EXCEPT ![proc] = Append(@, Id(c))]
            /\ caller' = [caller EXCEPT ![c].at = "wait", ![c].gen = proc]
            /\ UNCHANGED <<waiters, torn>>
       ELSE /\ waiters' = waiters \ {Id(c)}
            /\ IF caller[c].why = "init" THEN Fail(c) ELSE Rest(c)
            /\ torn' = torn \cup (IF proc = None THEN {} ELSE {proc})
            /\ UNCHANGED stdin
    /\ UNCHANGED <<server, ready, stdout, ran, proc, reader, readerThread, initialized, initLock, used,
                   overlaps>>

\* Faulty: a closed transport is retried as well.
RetryableByDefault(result) == result \in {"busy", "failed"}
\* is_retryable_error, for the outcomes of a request.
Retryable(result) == result = "busy"

\* Faulty: attempts are not counted.
RetriedForEver(c) == caller[c].why = "op" /\ Retryable(caller[c].result)
Retried(c) == /\ caller[c].why = "op"
              /\ Retryable(caller[c].result)
              /\ caller[c].try < MaxAttempts
Receive(c) ==
    /\ caller[c].at = "wait"
    /\ caller[c].result # "none"
    /\ IF Retried(c)
       THEN caller' = [caller EXCEPT ![c].at = "send", ![c].try = @ + 1]
       ELSE IF caller[c].why = "op" THEN Rest(c)
       ELSE IF caller[c].result # "ok" THEN Fail(c)
       ELSE caller' = [caller EXCEPT ![c].at = "notify", ![c].result = "none", ![c].gen = None]
    /\ UNCHANGED <<processes, client, waiters, initialized, initLock, used, overlaps>>

-----------------------------------------------------------------------------
(* close, of the client and of AsyncCodex.                                 *)

Close(c) ==
    /\ caller[c].at = "idle"
    /\ used.closes < MaxCloses
    /\ caller' = [caller EXCEPT ![c].at = "close", ![c].why = "close"]
    /\ Spend("closes")
    /\ UNCHANGED <<processes, client, waiters, initialized, initLock, overlaps>>
CloseCheck(c) ==
    /\ caller[c].at = "close"
    /\ caller' = [caller EXCEPT ![c].at = IF proc = None THEN "closed" ELSE "clear", ![c].gen = proc]
    /\ overlaps' = overlaps \cup (IF Stopping = {} THEN {} ELSE {"two closes"})
                            \cup (IF initLock \in {NoCaller, c} /\ Starting = {} THEN {} ELSE {"close and start"})
    /\ UNCHANGED <<processes, client, waiters, initialized, initLock, used>>
CloseClear(c) ==
    /\ caller[c].at = "clear"
    /\ proc' = None
    /\ At(c, "stop")
    /\ UNCHANGED <<processes, reader, readerThread, torn, waiters, initialized, initLock, used, overlaps>>
\* proc.stdin.close, terminate, wait, kill.  Closing stdin flushes it, which raises
\* when a write has failed before: close ends there, and the process is gone anyway.
CloseStop(c) ==
    /\ caller[c].at = "stop"
    /\ LET g == caller[c].gen
       IN IF g \in torn
          THEN /\ At(c, "raised")
               /\ torn' = torn \ {g}
               /\ overlaps' = overlaps \cup {"close raised"}
               /\ UNCHANGED <<server, stdin>>
          ELSE /\ At(c, "join")
               /\ server' = [server EXCEPT ![g] = "gone"]
               /\ stdin' = [stdin EXCEPT ![g] = <<>>]
               /\ UNCHANGED <<torn, overlaps>>
    /\ UNCHANGED <<ready, stdout, ran, proc, reader, readerThread, waiters, initialized, initLock, used>>
\* The latest reader thread gets half a second to end.
ReaderAlive(g) == reader[g].at \notin {"none", "dead"}
\* Faulty: it is not waited for.
CloseWithoutJoin(c) ==
    /\ caller[c].at = "join"
    /\ At(c, "closed")
    /\ UNCHANGED <<processes, client, waiters, initialized, initLock, used, overlaps>>
CloseJoin(c) ==
    /\ caller[c].at = "join"
    /\ At(c, "closed")
    /\ overlaps' = overlaps \cup (IF readerThread # None /\ ReaderAlive(readerThread)
                                  THEN {"join timed out"} ELSE {})
    /\ UNCHANGED <<processes, client, waiters, initialized, initLock, used>>
\* Faulty: the flag is left to the next initialisation.
ClosedKeepingFlag(c) ==
    /\ caller[c].at = "closed"
    /\ Rest(c)
    /\ initLock' = IF initLock = c THEN NoCaller ELSE initLock
    /\ UNCHANGED <<processes, client, waiters, initialized, used, overlaps>>
\* The flag is reset, by AsyncCodex.close and by a failed initialisation.
Closed(c) ==
    /\ caller[c].at = "closed"
    /\ Rest(c)
    /\ initialized' = IF caller[c].detached THEN initialized ELSE FALSE
    /\ initLock' = IF initLock = c THEN NoCaller ELSE initLock
    /\ UNCHANGED <<processes, client, waiters, used, overlaps>>
\* The exception of close passes through both, and the flag keeps its value.
CloseRaised(c) ==
    /\ caller[c].at = "raised"
    /\ Rest(c)
    /\ initLock' = IF initLock = c THEN NoCaller ELSE initLock
    /\ UNCHANGED <<processes, client, waiters, initialized, used, overlaps>>

-----------------------------------------------------------------------------
(* The reader threads.  Each reads self._proc anew for every line.         *)

Reading(g, at) == reader' = [reader EXCEPT ![g].at = at]

ReadMessage(g) ==
    /\ reader[g].at = "loop"
    /\ reader' = [reader EXCEPT ![g] = IF proc = None THEN [@ EXCEPT !.at = "failing"]
                                       ELSE [at |-> "reading", of |-> proc]]
    /\ UNCHANGED <<processes, proc, readerThread, torn, waiters, caller, initialized, initLock, used, overlaps>>
\* A response goes to its waiter, if there still is one.
RouteResponse(g) ==
    /\ reader[g].at = "reading"
    /\ stdout[reader[g].of] # <<>>
    /\ LET line == Head(stdout[reader[g].of])
       IN /\ line.kind = "response"
          /\ Reading(g, "loop")
          /\ waiters' = waiters \ {line.id}
          /\ caller' = [c \in Callers |-> IF line.id \in waiters /\ line.id.caller = c
                                          THEN [caller[c] EXCEPT !.result = line.value] ELSE caller[c]]
    /\ stdout' = [stdout EXCEPT ![reader[g].of] = Tail(@)]
    /\ UNCHANGED <<server, ready, stdin, ran, proc, readerThread, torn, initialized, initLock, used, overlaps>>
\* A request of the server runs the approval handler on this thread.
TakeServerRequest(g) ==
    /\ reader[g].at = "reading"
    /\ stdout[reader[g].of] # <<>>
    /\ Head(stdout[reader[g].of]).kind = "request"
    /\ Reading(g, "handling")
    /\ stdout' = [stdout EXCEPT ![reader[g].of] = Tail(@)]
    /\ UNCHANGED <<server, ready, stdin, ran, proc, readerThread, torn, waiters, caller, initialized,
                   initLock, used, overlaps>>
HandlerReturns(g) ==
    /\ reader[g].at = "handling"
    /\ Reading(g, "replying")
    /\ UNCHANGED <<processes, proc, readerThread, torn, waiters, caller, initialized, initLock, used, overlaps>>
HandlerRaises(g) ==
    /\ reader[g].at = "handling"
    /\ Reading(g, "failing")
    /\ overlaps' = overlaps \cup {"handler raised"}
    /\ UNCHANGED <<processes, proc, readerThread, torn, waiters, caller, initialized, initLock, used>>
Reply(g) ==
    /\ reader[g].at = "replying"
    /\ Reading(g, IF Writable THEN "loop" ELSE "failing")
    /\ torn' = torn \cup (IF proc # None /\ ~Writable THEN {proc} ELSE {})
    /\ UNCHANGED <<processes, proc, readerThread, waiters, caller, initialized, initLock, used, overlaps>>
\* A line that is no JSON object raises, and so does an error whose code is no number:
\* its waiter has been taken then, and is put nothing.
ReadUnreadable(g) ==
    /\ reader[g].at = "reading"
    /\ stdout[reader[g].of] # <<>>
    /\ used.events < MaxEvents
    /\ LET line == Head(stdout[reader[g].of])
       IN \/ UNCHANGED waiters
          \/ line.kind = "response" /\ line.value # "ok" /\ waiters' = waiters \ {line.id}
    /\ Reading(g, "failing")
    /\ stdout' = [stdout EXCEPT ![reader[g].of] = Tail(@)]
    /\ overlaps' = overlaps \cup {"unreadable line"}
    /\ Spend("events")
    /\ UNCHANGED <<server, ready, stdin, ran, proc, readerThread, torn, caller, initialized, initLock>>
ReadEof(g) ==
    /\ reader[g].at = "reading"
    /\ stdout[reader[g].of] = <<>>
    /\ server[reader[g].of] \in {"crashed", "gone"}
    /\ Reading(g, "failing")
    /\ UNCHANGED <<processes, proc, readerThread, torn, waiters, caller, initialized, initLock, used, overlaps>>
\* Faulty: the waiters are dropped without an answer.
FailNobody(g) ==
    /\ reader[g].at = "failing"
    /\ Reading(g, "dead")
    /\ waiters' = {}
    /\ UNCHANGED <<processes, proc, readerThread, torn, caller, initialized, initLock, used, overlaps>>
\* Any exception ends the reader and fails whatever the router has a waiter for.
FailAll(g) ==
    /\ reader[g].at = "failing"
    /\ Reading(g, "dead")
    /\ waiters' = {}
    /\ caller' = [c \in Callers |-> IF Id(c) \in waiters THEN [caller[c] EXCEPT !.result = "failed"]
                                    ELSE caller[c]]
    /\ UNCHANGED <<processes, proc, readerThread, torn, initialized, initLock, used, overlaps>>

-----------------------------------------------------------------------------
(* The app-server.                                                         *)

Answer(g) ==
    /\ server[g] = "running"
    /\ stdin[g] # <<>>
    /\ LET id == Head(stdin[g])
       IN \E value \in IF id.why = "op" /\ g \notin ready THEN {"failed"} ELSE Answers :
          /\ stdout' = [stdout EXCEPT ![g] = Append(@, [kind |-> "response", id |-> id, value |-> value])]
          /\ ready' = IF id.why = "init" /\ value = "ok" THEN ready \cup {g} ELSE ready
          /\ ran' = IF id.why = "op" /\ value = "ok" THEN [ran EXCEPT ![id.caller][id.op] = @ + 1] ELSE ran
    /\ stdin' = [stdin EXCEPT ![g] = Tail(@)]
    /\ UNCHANGED <<server, client, waiters, caller, initialized, initLock, used, overlaps>>
Ask(g) ==
    /\ server[g] = "running"
    /\ used.events < MaxEvents
    /\ stdout' = [stdout EXCEPT ![g] = Append(@, [kind |-> "request"])]
    /\ Spend("events")
    /\ UNCHANGED <<server, ready, stdin, ran, client, waiters, caller, initialized, initLock, overlaps>>
Crash(g) ==
    /\ server[g] = "running"
    /\ used.events < MaxEvents
    /\ server' = [server EXCEPT ![g] = "crashed"]
    /\ stdin' = [stdin EXCEPT ![g] = <<>>]
    /\ Spend("events")
    /\ UNCHANGED <<ready, stdout, ran, client, waiters, caller, initialized, initLock, overlaps>>

-----------------------------------------------------------------------------
CallerStep(c) ==
    \/ TakeInitLock(c) \/ StartCheck(c) \/ Spawn(c) \/ SpawnFails(c) \/ StartReader(c)
    \/ Notify(c) \/ FinishInit(c)
    \/ Send(c) \/ Write(c) \/ Receive(c)
    \/ CloseCheck(c) \/ CloseClear(c) \/ CloseStop(c) \/ CloseJoin(c) \/ Closed(c) \/ CloseRaised(c)
ReaderStep(g) ==
    \/ ReadMessage(g) \/ RouteResponse(g) \/ TakeServerRequest(g) \/ HandlerReturns(g) \/ HandlerRaises(g)
    \/ Reply(g) \/ ReadUnreadable(g) \/ ReadEof(g) \/ FailAll(g)
Next == \/ \E c \in Callers : Use(c) \/ Close(c) \/ Cancel(c) \/ CallerStep(c)
        \/ \E g \in Gens : ReaderStep(g) \/ Answer(g) \/ Ask(g) \/ Crash(g)
Spec == Init /\ [][Next]_vars

\* Threads run, the handler returns, the server answers what it is sent.
FairSpec == /\ Spec
            /\ \A c \in Callers : WF_vars(CallerStep(c))
            /\ \A g \in Gens : WF_vars(ReaderStep(g)) /\ WF_vars(Answer(g))

-----------------------------------------------------------------------------
(* Properties.                                                             *)

Ids == [caller : Callers, why : {"op", "init"}, op : 1..MaxOps, try : 1..MaxAttempts]
\* Every variable holds a value of its type.
TypeOK ==
    /\ proc \in Gens \cup {None}
    /\ server \in [Gens -> {"none", "running", "crashed", "gone"}]
    /\ ready \subseteq Gens /\ torn \subseteq Gens
    /\ \A g \in Gens : \A i \in DOMAIN stdin[g] : stdin[g][i] \in Ids
    /\ reader \in [Gens -> [at : {"none", "loop", "reading", "handling", "replying", "failing", "dead"},
                            of : Gens \cup {None}]]
    /\ readerThread \in Gens \cup {None}
    /\ waiters \subseteq Ids
    /\ \A c \in Callers : /\ caller[c].op \in 0..MaxOps /\ caller[c].try \in 0..MaxAttempts
                          /\ caller[c].gen \in Gens \cup {None} /\ caller[c].detached \in BOOLEAN
                          /\ caller[c].result \in {"none", "ok", "busy", "failed"}
    /\ initialized \in BOOLEAN
    /\ initLock \in Callers \cup {NoCaller}
    /\ ran \in [Callers -> [1..MaxOps -> Nat]]

Overlapped(kinds) == overlaps \cap kinds # {}

\* No app-server is left behind: one that runs is the client's, or a close that has
\* read it is about to stop it.  Only a start whose task was cancelled, or two closes
\* at the same time, can lose one; a crash, a failed initialisation and a close during
\* a start cannot.
ServersAreTracked ==
    Overlapped({"cancelled start", "two closes"}) \/
        \A g \in Gens : server[g] = "running" =>
            proc = g \/ \E c \in Callers : caller[c].at \in {"clear", "stop"} /\ caller[c].gen = g

\* An AsyncCodex that takes itself for initialised is being closed, or has a process that
\* no close has stopped and that has accepted initialize: no use skips the initialisation
\* it needs.  A close that ran beside an initialisation, was cancelled, or raised on a
\* broken pipe, can leave it with none, and a start whose task was cancelled with one that
\* has accepted nothing.  A process that has crashed stays the client's, and the flag
\* stays set: every use raises until somebody closes the client.
UsableWhenInitialized ==
    Overlapped({"close and start", "cancelled close", "close raised"}) \/
        (initialized => \/ \E c \in Callers : Closing(c)
                        \/ /\ proc # None /\ server[proc] # "gone"
                           /\ proc \in ready \/ Overlapped({"cancelled start"}))

\* The failure of one process is not passed to a request that another, running one
\* holds: the reader that fails it was created for that process or reads from it,
\* unless a reader has outlived its half second or a start did not wait for the close
\* before it.
Strays == {"join timed out", "close and start", "cancelled start", "close raised"}
FailuresAreOwn ==
    [][\A c \in Callers, g \in Gens :
         /\ reader[g].at = "failing" /\ reader'[g].at = "dead"
         /\ caller[c].at = "wait" /\ caller[c].result = "none" /\ caller'[c].result = "failed"
         /\ server[caller[c].gen] = "running"
         => caller[c].gen \in {g, reader[g].of} \/ Overlapped(Strays)]_vars

\* The answer of the approval handler goes to the process that asked, if to any.
RepliesGoToTheAsker ==
    [][\A g \in Gens :
         reader[g].at = "replying" /\ reader'[g].at = "loop"
         => reader[g].of = proc \/ Overlapped(Strays)]_vars

\* retry_on_overload does not repeat what a server has carried out.
AtMostOnce == \A c \in Callers, o \in 1..MaxOps : ran[c][o] <= 1

\* Every use and every close ends, across crashes, closes and restarts, and however
\* they overlap: close fails no request itself, but the reader it ends does.  It is
\* stranded when that reader is gone before, by an exception of the approval handler or
\* a line it cannot read, or goes on to the next process because nobody waited for it.
OperationsEnd == \A c \in Callers :
    caller[c].at # "idle" ~> \/ caller[c].at = "idle"
                             \/ Overlapped({"cancelled start", "handler raised", "unreadable line",
                                         "join timed out", "close raised"})
=============================================================================
