------------------------- MODULE ClientLifecycleProofs -------------------------
(***************************************************************************)
(* What ClientLifecycle promises for any number of tasks, uses, closes,    *)
(* cancellations, crashes and restarts: the types; that no process and no  *)
(* client is lost; that failures and replies stay with their process; and  *)
(* that retry_on_overload has nothing carried out twice.                   *)
(***************************************************************************)
EXTENDS ClientLifecycle, TLAPS

-----------------------------------------------------------------------------
(* Types, and what a task is doing where.                                  *)

Initialising == {"start", "spawn", "reader", "notify", "finish"}
Asking == Initialising \cup {"lock", "send", "write", "wait"}
Shutting == {"close", "clear", "stop", "join", "closed", "raised"}
Tasks == [at : Asking \cup Shutting \cup {"idle"}, why : {"op", "init", "close", "abort"},
          op : 0..MaxOps, try : 0..MaxAttempts, gen : Gens \cup {None},
          result : {"none", "ok", "busy", "failed"}, detached : BOOLEAN]
Lines == [kind : {"response"}, id : Ids, value : {"ok", "busy", "failed"}] \cup [kind : {"request"}]
ReaderPlaces == {"none", "loop", "reading", "handling", "replying", "failing", "dead"}

Processes == /\ proc \in Gens \cup {None} /\ readerThread \in Gens \cup {None}
             /\ server \in [Gens -> {"none", "running", "crashed", "gone"}]
             /\ ready \subseteq Gens /\ torn \subseteq Gens
             /\ stdin \in [Gens -> Seq(Ids)] /\ stdout \in [Gens -> Seq(Lines)]
             /\ reader \in [Gens -> [at : ReaderPlaces, of : Gens \cup {None}]]
             /\ ran \in [Callers -> [1..MaxOps -> Nat]]
Clients == /\ waiters \subseteq Ids
           /\ caller \in [Callers -> Tasks]
           /\ initialized \in BOOLEAN /\ initLock \in Callers \cup {NoCaller}
           /\ used \in [starts : 0..MaxStarts, closes : Nat, cancels : Nat, events : Nat]

\* A task that asks has an operation, one that closes is Closing, and only a blocking
\* call outlives its task.
Role(t) == /\ t.at \in Asking => t.why \in {"op", "init"} /\ t.op # 0 /\ t.try # 0
           /\ t.at \in Initialising => t.why = "init"
           /\ t.at \in {"idle", "lock"} => t.why = "op"
           /\ t.at \in Shutting => t.why \in {"close", "abort"}
           /\ t.at \in {"reader", "wait", "clear", "stop"} => t.gen \in Gens
           /\ t.why = "op" => ~t.detached
Roles == \A c \in Callers : Role(caller[c])
\* A reader that holds a line knows whose it is.
Sources == \A g \in Gens : reader[g].at = "reading" => reader[g].of \in Gens
Types == Processes /\ Clients /\ Roles /\ Sources

-----------------------------------------------------------------------------
LEMMA TaskTypes ==
  ASSUME Types, NEW c \in Callers, NEW t \in Tasks, Role(t),
         caller' = [caller EXCEPT ![c] = t]
  PROVE  caller' \in [Callers -> Tasks] /\ Roles'
  BY DEF Types, Clients, Roles

\* What a request is named by.
LEMMA IdTypes ==
  ASSUME Types, NEW c \in Callers, caller[c].at \in Asking
  PROVE  Id(c) \in Ids
  <1>1. caller[c] \in Tasks /\ Role(caller[c])
    BY DEF Types, Clients, Roles
  <1> QED BY <1>1, Bounds DEF Id, Ids, Tasks, Role, Asking, Initialising

\* Where a call ends, or an initialisation gives up.
LEMMA EndTypes ==
  ASSUME Types, NEW c \in Callers, Rest(c) \/ Fail(c)
  PROVE  caller' \in [Callers -> Tasks] /\ Roles'
  <1>1. caller[c] \in Tasks
    BY DEF Types, Clients
  <1> DEFINE t == [Idle EXCEPT !.op = caller[c].op]
             u == [Idle EXCEPT !.at = "close", !.why = "abort", !.op = caller[c].op]
  <1>2. t \in Tasks /\ Role(t) /\ u \in Tasks /\ Role(u)
    <2>1. /\ Idle \in Tasks /\ Idle.at = "idle" /\ Idle.why = "op" /\ Idle.detached = FALSE
      BY Bounds DEF Idle, Tasks, Asking, Shutting, Initialising, None
    <2>2. caller[c].op \in 0..MaxOps
      BY <1>1 DEF Tasks
    <2> QED BY <2>1, <2>2 DEF Tasks, Role, Asking, Shutting, Initialising
  <1>3. caller' = [caller EXCEPT ![c] = t] \/ caller' = [caller EXCEPT ![c] = u]
    BY DEF Rest, Fail
  <1> HIDE DEF t, u
  <1> QED BY <1>2, <1>3, TaskTypes

\* The steps of a task keep what is said of the tasks.
LEMMA CallerTypes ==
  ASSUME Types, NEW c \in Callers, Use(c) \/ Close(c) \/ Cancel(c) \/ CallerStep(c)
  PROVE  caller' \in [Callers -> Tasks] /\ Roles'
  <1>1. caller[c] \in Tasks /\ Role(caller[c])
    BY DEF Types, Clients, Roles
  <1> DEFINE t == caller[c]
  <1>2. ASSUME NEW u \in Tasks, Role(u), caller' = [caller EXCEPT ![c] = u]
        PROVE  caller' \in [Callers -> Tasks] /\ Roles'
    BY <1>2, TaskTypes
  <1>3. CASE Rest(c) \/ Fail(c)
    BY <1>3, EndTypes
  <1> USE DEF Tasks, Role, Asking, Shutting, Initialising, None, At
  <1>4. CASE Use(c)
    <2>1. PICK where \in {"send", "lock"} :
            caller' = [caller EXCEPT ![c] = [t EXCEPT !.at = where, !.why = "op", !.op = @ + 1, !.try = 1]]
      BY <1>4 DEF Use
    <2> DEFINE u == [t EXCEPT !.at = where, !.why = "op", !.op = @ + 1, !.try = 1]
    <2>2. t.op \in 0..MaxOps /\ t.op < MaxOps /\ t.at = "idle"
      BY <1>1, <1>4 DEF Use
    <2>3. t.op + 1 \in 0..MaxOps /\ t.op + 1 # 0 /\ 1 \in 0..MaxAttempts
      BY <2>2, Bounds
    <2>4. u \in Tasks /\ Role(u)
      <3>1. u \in Tasks
        BY <1>1, <2>3
      <3>2. /\ u.at = where /\ u.why = "op" /\ u.op = t.op + 1 /\ u.try = 1 /\ u.detached = t.detached
        BY <1>1
      <3>3. ~t.detached
        BY <1>1, <2>2
      <3> HIDE DEF u
      <3> QED BY <2>3, <3>1, <3>2, <3>3
    <2> QED BY <1>2, <2>1, <2>4
  <1>5. CASE Close(c)
    <2> DEFINE u == [t EXCEPT !.at = "close", !.why = "close"]
    <2>1. u \in Tasks /\ Role(u) /\ caller' = [caller EXCEPT ![c] = u]
      BY <1>1, <1>5 DEF Close
    <2> QED BY <1>2, <2>1
  <1>6. CASE Cancel(c)
    <2> DEFINE u == [t EXCEPT !.detached = TRUE]
    <2>1. u \in Tasks /\ Role(u) /\ caller' = [caller EXCEPT ![c] = u]
      BY <1>1, <1>6 DEF Cancel
    <2> QED BY <1>2, <2>1
  <1>7. CASE TakeInitLock(c)
    <2>1. \/ caller' = [caller EXCEPT ![c] = [t EXCEPT !.at = "send"]]
          \/ caller' = [caller EXCEPT ![c] = [t EXCEPT !.at = "start", !.why = "init"]]
      BY <1>7 DEF TakeInitLock
    <2>2. /\ [t EXCEPT !.at = "send"] \in Tasks /\ Role([t EXCEPT !.at = "send"])
          /\ [t EXCEPT !.at = "start", !.why = "init"] \in Tasks
          /\ Role([t EXCEPT !.at = "start", !.why = "init"])
      BY <1>1, <1>7 DEF TakeInitLock
    <2> QED BY <1>2, <2>1, <2>2
  <1>8. CASE StartCheck(c) /\ proc = None
    <2>1. caller' = [caller EXCEPT ![c] = [t EXCEPT !.at = "spawn"]]
      BY <1>8 DEF StartCheck
    <2>2. [t EXCEPT !.at = "spawn"] \in Tasks /\ Role([t EXCEPT !.at = "spawn"])
      BY <1>1, <1>8 DEF StartCheck
    <2> QED BY <1>2, <2>1, <2>2
  <1>9. CASE (StartCheck(c) /\ proc # None) \/ StartReader(c)
    <2>1. Rest(c) \/ caller' = [caller EXCEPT ![c] = [t EXCEPT !.at = "send"]]
      BY <1>9 DEF StartCheck, StartReader, Started
    <2>2. [t EXCEPT !.at = "send"] \in Tasks /\ Role([t EXCEPT !.at = "send"])
      BY <1>1, <1>9 DEF StartCheck, StartReader
    <2> QED BY <1>2, <1>3, <2>1, <2>2
  <1>10. CASE Spawn(c)
    <2> DEFINE u == [t EXCEPT !.at = "reader", !.gen = used.starts + 1]
    <2>1. used.starts + 1 \in Gens
      BY <1>10, Bounds DEF Spawn, Types, Clients, Gens
    <2>2. u \in Tasks /\ Role(u) /\ caller' = [caller EXCEPT ![c] = u]
      BY <1>1, <1>10, <2>1 DEF Spawn
    <2> QED BY <1>2, <2>2
  <1>11. CASE SpawnFails(c)
    BY <1>3, <1>11 DEF SpawnFails
  <1>12. CASE Notify(c)
    <2>1. Fail(c) \/ caller' = [caller EXCEPT ![c] = [t EXCEPT !.at = "finish"]]
      BY <1>12 DEF Notify
    <2>2. [t EXCEPT !.at = "finish"] \in Tasks /\ Role([t EXCEPT !.at = "finish"])
      BY <1>1, <1>12 DEF Notify
    <2> QED BY <1>2, <1>3, <2>1, <2>2
  <1>13. CASE FinishInit(c)
    <2>1. Rest(c) \/ (~t.detached /\ caller' = [caller EXCEPT ![c] = [t EXCEPT !.at = "send", !.why = "op"]])
      BY <1>13 DEF FinishInit
    <2>2. ~t.detached => /\ [t EXCEPT !.at = "send", !.why = "op"] \in Tasks
                         /\ Role([t EXCEPT !.at = "send", !.why = "op"])
      BY <1>1, <1>13 DEF FinishInit
    <2> QED BY <1>2, <1>3, <2>1, <2>2
  <1>14. CASE Send(c)
    <2> DEFINE u == [t EXCEPT !.at = "write", !.result = "none"]
    <2>1. u \in Tasks /\ Role(u) /\ caller' = [caller EXCEPT ![c] = u]
      BY <1>1, <1>14 DEF Send
    <2> QED BY <1>2, <2>1
  <1>15. CASE Write(c)
    <2> DEFINE u == [t EXCEPT !.at = "wait", !.gen = proc]
    <2>1. Rest(c) \/ Fail(c) \/ (proc # None /\ caller' = [caller EXCEPT ![c] = u])
      BY <1>15 DEF Write, Writable
    <2>2. proc # None => u \in Tasks /\ Role(u)
      BY <1>1, <1>15 DEF Write, Types, Processes
    <2> QED BY <1>2, <1>3, <2>1, <2>2
  <1>16. CASE Receive(c)
    <2> DEFINE u == [t EXCEPT !.at = "send", !.try = @ + 1]
               v == [t EXCEPT !.at = "notify", !.result = "none", !.gen = None]
    <2>1. \/ Rest(c) \/ Fail(c) \/ (Retried(c) /\ caller' = [caller EXCEPT ![c] = u])
          \/ (t.why # "op" /\ caller' = [caller EXCEPT ![c] = v])
      BY <1>16 DEF Receive
    <2>2. Retried(c) => u \in Tasks /\ Role(u)
      <3> SUFFICES ASSUME Retried(c) PROVE u \in Tasks /\ Role(u)
        OBVIOUS
      <3>1. t.try + 1 \in 0..MaxAttempts /\ t.try + 1 # 0
        BY <1>1, Bounds DEF Retried
      <3> QED BY <1>1, <1>16, <3>1 DEF Receive, Retried
    <2>3. t.why # "op" => v \in Tasks /\ Role(v)
      BY <1>1, <1>16 DEF Receive
    <2> QED BY ZenonT(40), <1>2, <1>3, <2>1, <2>2, <2>3
  <1>17. CASE CloseCheck(c)
    <2> DEFINE where == IF proc = None THEN "closed" ELSE "clear"
               u == [t EXCEPT !.at = where, !.gen = proc]
    <2>1. caller' = [caller EXCEPT ![c] = u]
      BY <1>17 DEF CloseCheck
    <2>2. /\ where \in {"closed", "clear"} /\ proc \in Gens \cup {None}
          /\ where = "clear" => proc \in Gens
      BY DEF Types, Processes
    <2> HIDE DEF where
    <2>3. u \in Tasks /\ u.at = where /\ u.gen = proc /\ u.why = t.why
      BY <1>1, <2>2
    <2>4. t.why \in {"close", "abort"}
      BY <1>1, <1>17 DEF CloseCheck
    <2> HIDE DEF u
    <2>5. Role(u)
      BY <2>2, <2>3, <2>4
    <2> QED BY <1>2, <2>1, <2>3, <2>5
  <1>18. CASE CloseClear(c) \/ CloseStop(c) \/ CloseJoin(c)
    <2>1. PICK where \in {"stop", "raised", "join", "closed"} : At(c, where) /\ (where = "stop" => CloseClear(c))
      BY <1>18 DEF CloseClear, CloseStop, CloseJoin
    <2> DEFINE u == [t EXCEPT !.at = where]
    <2>2. u \in Tasks /\ Role(u) /\ caller' = [caller EXCEPT ![c] = u]
      BY <1>1, <1>18, <2>1 DEF CloseClear, CloseStop, CloseJoin
    <2> QED BY <1>2, <2>2
  <1>19. CASE Closed(c) \/ CloseRaised(c)
    BY <1>3, <1>19 DEF Closed, CloseRaised
  <1> QED BY <1>4, <1>5, <1>6, <1>7, <1>8, <1>9, <1>10, <1>11, <1>12, <1>13, <1>14, <1>15, <1>16, <1>17,
      <1>18, <1>19 DEF CallerStep, StartCheck

\* The other variables, under the steps of a task.
LEMMA CallerSharedTypes ==
  ASSUME Types, NEW c \in Callers, Use(c) \/ Close(c) \/ Cancel(c) \/ CallerStep(c)
  PROVE  /\ Processes' /\ Sources' /\ waiters' \subseteq Ids /\ initialized' \in BOOLEAN
         /\ initLock' \in Callers \cup {NoCaller}
         /\ used' \in [starts : 0..MaxStarts, closes : Nat, cancels : Nat, events : Nat]
  <1>1. Processes /\ Clients /\ Sources /\ Role(caller[c]) /\ caller[c] \in Tasks
    BY DEF Types, Clients, Roles
  <1> DEFINE Budget == [starts : 0..MaxStarts, closes : Nat, cancels : Nat, events : Nat]
  <1>2. ASSUME UNCHANGED <<processes, client>>, waiters' \subseteq Ids, initialized' \in BOOLEAN,
               initLock' \in Callers \cup {NoCaller}, used' \in Budget
        PROVE  /\ Processes' /\ Sources' /\ waiters' \subseteq Ids /\ initialized' \in BOOLEAN
               /\ initLock' \in Callers \cup {NoCaller} /\ used' \in Budget
    BY <1>1, <1>2 DEF Processes, Sources, processes, client
  <1>3. CASE Spawn(c)
    <2>1. used.starts \in 0..MaxStarts /\ used.starts + 1 \in Gens /\ used.starts + 1 \in 0..MaxStarts
      BY <1>1, <1>3, Bounds DEF Spawn, Clients, Gens
    <2>2. used' \in [starts : 0..MaxStarts, closes : Nat, cancels : Nat, events : Nat]
      BY <1>1, <1>3, <2>1 DEF Spawn, Clients, Spend
    <2> QED BY <1>1, <1>3, <2>1, <2>2 DEF Spawn, Processes, Clients, Sources
  <1>4. CASE StartReader(c)
    <2>1. caller[c].gen \in Gens
      BY <1>1, <1>4 DEF StartReader, Role
    <2>2. UNCHANGED reader \/ reader' = [reader EXCEPT ![caller[c].gen] = [reader[caller[c].gen] EXCEPT !.at = "loop"]]
      BY <1>4 DEF StartReader
    <2>3. [reader[caller[c].gen] EXCEPT !.at = "loop"] \in [at : ReaderPlaces, of : Gens \cup {None}]
      BY <1>1, <2>1 DEF Processes, ReaderPlaces
    <2>4. reader' \in [Gens -> [at : ReaderPlaces, of : Gens \cup {None}]]
      BY <1>1, <2>1, <2>2, <2>3 DEF Processes
    <2>5. \A g \in Gens : reader'[g].at = "reading" => reader'[g] = reader[g]
      <3>1. [reader[caller[c].gen] EXCEPT !.at = "loop"].at = "loop"
        BY <1>1, <2>1 DEF Processes
      <3> QED BY <1>1, <2>1, <2>2, <3>1 DEF Processes
    <2>6. Sources'
      BY <1>1, <2>5 DEF Sources
    <2> QED BY <1>1, <1>4, <2>1, <2>4, <2>6 DEF StartReader, Processes, Clients, processes
  <1>5. CASE Notify(c)
    BY <1>1, <1>5 DEF Notify, Processes, Clients, Sources, processes, None
  <1>6. CASE Write(c)
    <2>1. Id(c) \in Ids
      BY <1>6, IdTypes DEF Write, Asking
    <2>2. stdin' \in [Gens -> Seq(Ids)]
      <3>1. UNCHANGED stdin \/ (proc \in Gens /\ stdin' = [stdin EXCEPT ![proc] = Append(@, Id(c))])
        BY <1>1, <1>6 DEF Write, Writable, Processes
      <3>2. \A g \in Gens : Append(stdin[g], Id(c)) \in Seq(Ids)
        BY <1>1, <2>1 DEF Processes
      <3> QED BY <1>1, <3>1, <3>2 DEF Processes
    <2> QED BY <1>1, <1>6, <2>2 DEF Write, Processes, Clients, Sources, None
  <1>7. CASE CloseClear(c)
    BY <1>1, <1>7 DEF CloseClear, Processes, Clients, Sources, processes
  <1>8. CASE CloseStop(c)
    <2>1. caller[c].gen \in Gens
      BY <1>1, <1>8 DEF CloseStop, Role
    <2>2. server' \in [Gens -> {"none", "running", "crashed", "gone"}] /\ torn' \subseteq Gens
      BY <1>1, <1>8, <2>1 DEF CloseStop, Processes
    <2>3. stdin' = stdin \/ stdin' = [stdin EXCEPT ![caller[c].gen] = <<>>]
      BY <1>8 DEF CloseStop
    <2>4. <<>> \in Seq(Ids)
      OBVIOUS
    <2>5. stdin' \in [Gens -> Seq(Ids)]
      BY <1>1, <2>1, <2>3, <2>4 DEF Processes
    <2> QED BY <1>1, <1>8, <2>2, <2>5 DEF CloseStop, Processes, Clients, Sources
  <1>9. CASE Use(c) \/ StartCheck(c) \/ Receive(c) \/ CloseCheck(c) \/ CloseJoin(c) \/ TakeInitLock(c)
            \/ FinishInit(c) \/ Closed(c) \/ CloseRaised(c)
    BY <1>1, <1>2, <1>9 DEF Clients, Use, StartCheck, Receive, CloseCheck, CloseJoin, TakeInitLock, FinishInit, Closed,
       CloseRaised
  <1>10. CASE Close(c) \/ SpawnFails(c) \/ Cancel(c)
    <2>1. used \in Budget
      BY <1>1 DEF Clients
    <2>2. \/ used' = [used EXCEPT !.closes = @ + 1] \/ used' = [used EXCEPT !.events = @ + 1]
          \/ used' = [used EXCEPT !.cancels = @ + 1, !.events = @ + 1]
      BY <1>10 DEF Close, SpawnFails, Cancel, Spend
    <2>3. used.closes + 1 \in Nat /\ used.events + 1 \in Nat /\ used.cancels + 1 \in Nat
      BY <2>1
    <2>4. /\ [used EXCEPT !.closes = @ + 1] \in Budget /\ [used EXCEPT !.events = @ + 1] \in Budget
          /\ [used EXCEPT !.cancels = @ + 1, !.events = @ + 1] \in Budget
      BY <2>1, <2>3
    <2>5. used' \in Budget
      BY <2>2, <2>4
    <2> QED BY <1>1, <1>2, <1>10, <2>5 DEF Clients, Close, SpawnFails, Cancel
  <1>11. CASE Send(c)
    <2>1. Id(c) \in Ids
      BY <1>11, IdTypes DEF Send, Asking
    <2> QED BY <1>1, <1>2, <1>11, <2>1 DEF Clients, Send
  <1> QED BY <1>3, <1>4, <1>5, <1>6, <1>7, <1>8, <1>9, <1>10, <1>11 DEF CallerStep

\* The readers and the servers.
LEMMA OtherTypes ==
  ASSUME Types, NEW g \in Gens, ReaderStep(g) \/ Answer(g) \/ Ask(g) \/ Crash(g)
  PROVE  Types'
  <1>1. Processes /\ Clients /\ Roles /\ Sources
    BY DEF Types
  <1>2. \A h \in Gens : stdout[h] # <<>> => Head(stdout[h]) \in Lines /\ Tail(stdout[h]) \in Seq(Lines)
    BY <1>1 DEF Processes
  <1>3. \A where \in ReaderPlaces : [reader[g] EXCEPT !.at = where] \in [at : ReaderPlaces, of : Gens \cup {None}]
    BY <1>1 DEF Processes
  \* The reader moves, and that is all.
  <1>4. ASSUME NEW where \in ReaderPlaces \ {"reading"}, Reading(g, where)
        PROVE  reader' \in [Gens -> [at : ReaderPlaces, of : Gens \cup {None}]] /\ Sources'
    <2>1. reader' = [reader EXCEPT ![g] = [reader[g] EXCEPT !.at = where]]
      BY <1>4 DEF Reading
    <2>2. [reader[g] EXCEPT !.at = where].at = where
      BY <1>1 DEF Processes
    <2>3. reader' \in [Gens -> [at : ReaderPlaces, of : Gens \cup {None}]]
      BY <1>1, <1>3, <2>1 DEF Processes
    <2> QED BY <1>1, <1>4, <2>1, <2>2, <2>3 DEF Processes, Sources
  <1>5. CASE ReadMessage(g)
    <2>1. CASE proc = None
      BY <1>1, <1>4, <1>5, <2>1 DEF ReadMessage, Reading, Types, Processes, Clients, Roles, processes, ReaderPlaces
    <2>2. CASE proc # None
      <3>1. reader' = [reader EXCEPT ![g] = [at |-> "reading", of |-> proc]] /\ proc \in Gens
        BY <1>1, <1>5, <2>2 DEF ReadMessage, Processes
      <3>2. reader' \in [Gens -> [at : ReaderPlaces, of : Gens \cup {None}]] /\ Sources'
        BY <1>1, <3>1 DEF Processes, Sources, ReaderPlaces
      <3> QED BY <1>1, <1>5, <3>2 DEF ReadMessage, Types, Processes, Clients, Roles, processes
    <2> QED BY <2>1, <2>2
  <1>6. CASE RouteResponse(g)
    <2> DEFINE line == Head(stdout[reader[g].of])
    <2>1. reader[g].of \in Gens /\ line \in Lines /\ line.kind = "response" /\ Tail(stdout[reader[g].of]) \in Seq(Lines)
      BY <1>1, <1>2, <1>6 DEF RouteResponse, Sources
    <2>2. line.value \in {"ok", "busy", "failed"}
      BY <2>1 DEF Lines
    <2>3. \A c \in Callers : /\ [caller[c] EXCEPT !.result = line.value] \in Tasks
                             /\ Role([caller[c] EXCEPT !.result = line.value])
      BY <1>1, <2>2 DEF Clients, Roles, Tasks, Role
    <2>4. caller' \in [Callers -> Tasks] /\ Roles'
      BY <1>1, <1>6, <2>3 DEF RouteResponse, Clients, Roles
    <2>5. stdout' \in [Gens -> Seq(Lines)]
      BY <1>1, <1>6, <2>1 DEF RouteResponse, Processes
    <2>6. reader' \in [Gens -> [at : ReaderPlaces, of : Gens \cup {None}]] /\ Sources'
      BY <1>4, <1>6 DEF RouteResponse, ReaderPlaces
    <2> QED BY <1>1, <1>6, <2>4, <2>5, <2>6 DEF RouteResponse, Types, Processes, Clients
  <1>7. CASE TakeServerRequest(g)
    <2>1. reader[g].of \in Gens /\ Tail(stdout[reader[g].of]) \in Seq(Lines)
      BY <1>1, <1>2, <1>7 DEF TakeServerRequest, Sources
    <2>2. stdout' \in [Gens -> Seq(Lines)]
      BY <1>1, <1>7, <2>1 DEF TakeServerRequest, Processes
    <2>3. reader' \in [Gens -> [at : ReaderPlaces, of : Gens \cup {None}]] /\ Sources'
      BY <1>4, <1>7 DEF TakeServerRequest, ReaderPlaces
    <2> QED BY <1>1, <1>7, <2>2, <2>3 DEF TakeServerRequest, Types, Processes, Clients, Roles
  <1>8. CASE HandlerReturns(g) \/ HandlerRaises(g) \/ ReadEof(g)
    <2>1. PICK where \in {"replying", "failing"} : Reading(g, where)
      BY <1>8 DEF HandlerReturns, HandlerRaises, ReadEof
    <2>2. reader' \in [Gens -> [at : ReaderPlaces, of : Gens \cup {None}]] /\ Sources'
      BY <1>4, <2>1 DEF ReaderPlaces
    <2> QED BY <1>1, <1>8, <2>2 DEF HandlerReturns, HandlerRaises, ReadEof, Types, Processes, Clients, Roles, processes
  <1>9. CASE Reply(g)
    <2>1. PICK where \in {"loop", "failing"} : Reading(g, where)
      BY <1>9 DEF Reply
    <2>2. reader' \in [Gens -> [at : ReaderPlaces, of : Gens \cup {None}]] /\ Sources'
      BY <1>4, <2>1 DEF ReaderPlaces
    <2>3. torn' \subseteq Gens
      BY <1>1, <1>9 DEF Reply, Processes
    <2> QED BY <1>1, <1>9, <2>2, <2>3 DEF Reply, Types, Processes, Clients, Roles, processes
  <1>10. CASE FailAll(g)
    <2>1. reader' \in [Gens -> [at : ReaderPlaces, of : Gens \cup {None}]] /\ Sources'
      BY <1>4, <1>10 DEF FailAll, ReaderPlaces
    <2>2. \A c \in Callers : /\ [caller[c] EXCEPT !.result = "failed"] \in Tasks
                             /\ Role([caller[c] EXCEPT !.result = "failed"])
      BY <1>1 DEF Clients, Roles, Tasks, Role
    <2>3. caller' \in [Callers -> Tasks] /\ Roles'
      BY <1>1, <1>10, <2>2 DEF FailAll, Clients, Roles
    <2> QED BY <1>1, <1>10, <2>1, <2>3 DEF FailAll, Types, Processes, Clients, processes
  <1>11. CASE Answer(g)
    <2>1. Head(stdin[g]) \in Ids /\ Tail(stdin[g]) \in Seq(Ids)
      BY <1>1, <1>11 DEF Answer, Processes
    <2> DEFINE id == Head(stdin[g])
    <2>2. PICK value \in {"ok", "busy", "failed"} :
             /\ stdout' = [stdout EXCEPT ![g] = Append(@, [kind |-> "response", id |-> id, value |-> value])]
             /\ ready' = IF id.why = "init" /\ value = "ok" THEN ready \cup {g} ELSE ready
             /\ ran' = IF id.why = "op" /\ value = "ok" THEN [ran EXCEPT ![id.caller][id.op] = @ + 1] ELSE ran
      BY <1>11, Bounds DEF Answer
    <2>3. [kind |-> "response", id |-> id, value |-> value] \in Lines
      BY <2>1 DEF Lines
    <2>4. stdout' \in [Gens -> Seq(Lines)]
      BY <1>1, <2>2, <2>3 DEF Processes
    <2>5. stdin' \in [Gens -> Seq(Ids)]
      BY <1>1, <1>11, <2>1 DEF Answer, Processes
    <2>6. ran' \in [Callers -> [1..MaxOps -> Nat]]
      <3>1. id.caller \in Callers /\ id.op \in 1..MaxOps
        BY <2>1 DEF Ids
      <3>2. [ran[id.caller] EXCEPT ![id.op] = @ + 1] \in [1..MaxOps -> Nat]
        <4> HIDE DEF id
        <4> DEFINE n == ran[id.caller]
        <4>1. n \in [1..MaxOps -> Nat]
          BY <1>1, <3>1 DEF Processes
        <4> HIDE DEF n
        <4>2. n[id.op] + 1 \in Nat
          BY <3>1, <4>1
        <4>3. [n EXCEPT ![id.op] = @ + 1] = [i \in 1..MaxOps |-> IF i = id.op THEN n[id.op] + 1 ELSE n[i]]
          BY <4>1
        <4>4. [n EXCEPT ![id.op] = @ + 1] \in [1..MaxOps -> Nat]
          BY <4>1, <4>2, <4>3
        <4> QED BY <4>4 DEF n
      <3>3. ran' = ran \/ ran' = [ran EXCEPT ![id.caller] = [ran[id.caller] EXCEPT ![id.op] = @ + 1]]
        BY <2>2
      <3> QED BY <1>1, <3>1, <3>2, <3>3 DEF Processes
    <2>7. ready' \subseteq Gens
      BY <1>1, <2>2 DEF Processes
    <2> QED BY <1>1, <1>11, <2>4, <2>5, <2>6, <2>7 DEF Answer, Types, Processes, Clients, Roles, Sources, client
  <1>12. CASE Ask(g)
    <2>1. [kind |-> "request"] \in Lines
      BY DEF Lines
    <2>2. stdout' \in [Gens -> Seq(Lines)]
      BY <1>1, <1>12, <2>1 DEF Ask, Processes
    <2>3. used' \in [starts : 0..MaxStarts, closes : Nat, cancels : Nat, events : Nat]
      BY <1>1, <1>12 DEF Ask, Spend, Clients
    <2> QED BY <1>1, <1>12, <2>2, <2>3 DEF Ask, Types, Processes, Clients, Roles, Sources, client
  <1>13. CASE Crash(g)
    <2>1. server' \in [Gens -> {"none", "running", "crashed", "gone"}]
      BY <1>1, <1>13 DEF Crash, Processes
    <2>2. <<>> \in Seq(Ids)
      OBVIOUS
    <2>3. stdin' \in [Gens -> Seq(Ids)]
      BY <1>1, <1>13, <2>2 DEF Crash, Processes
    <2>4. used' \in [starts : 0..MaxStarts, closes : Nat, cancels : Nat, events : Nat]
      BY <1>1, <1>13 DEF Crash, Spend, Clients
    <2> QED BY <1>1, <1>13, <2>1, <2>3, <2>4 DEF Crash, Types, Processes, Clients, Roles, Sources, client
  <1>14. CASE ReadUnreadable(g)
    <2>1. reader[g].of \in Gens /\ Tail(stdout[reader[g].of]) \in Seq(Lines)
      BY <1>1, <1>2, <1>14 DEF ReadUnreadable, Sources
    <2>2. stdout' \in [Gens -> Seq(Lines)]
      BY <1>1, <1>14, <2>1 DEF ReadUnreadable, Processes
    <2>3. reader' \in [Gens -> [at : ReaderPlaces, of : Gens \cup {None}]] /\ Sources'
      BY <1>4, <1>14 DEF ReadUnreadable, ReaderPlaces
    <2>4. used' \in [starts : 0..MaxStarts, closes : Nat, cancels : Nat, events : Nat]
      <3>1. used' = [used EXCEPT !.events = @ + 1]
        BY <1>14 DEF ReadUnreadable, Spend
      <3> QED BY <1>1, <3>1 DEF Clients
    <2>5. waiters' \subseteq waiters
      BY <1>14 DEF ReadUnreadable
    <2> QED BY <1>1, <1>14, <2>2, <2>3, <2>4, <2>5 DEF ReadUnreadable, Types, Processes, Clients, Roles
  <1> QED BY <1>5, <1>6, <1>7, <1>8, <1>9, <1>10, <1>11, <1>12, <1>13, <1>14 DEF ReaderStep

LEMMA InitTypes == Init => Types
  <1> SUFFICES ASSUME Init PROVE Types
    OBVIOUS
  <1> USE DEF Init
  <1>1. Idle \in Tasks /\ Role(Idle)
    BY Bounds DEF Idle, Tasks, Role, Asking, Shutting, Initialising, None
  <1>2. <<>> \in Seq(Ids) /\ <<>> \in Seq(Lines)
    OBVIOUS
  <1>3. [at |-> "none", of |-> None] \in [at : ReaderPlaces, of : Gens \cup {None}]
    BY DEF ReaderPlaces
  <1>4. Processes
    BY <1>2, <1>3 DEF Processes
  <1>5. Clients
    <2>1. [starts |-> 0, closes |-> 0, cancels |-> 0, events |-> 0] \in
             [starts : 0..MaxStarts, closes : Nat, cancels : Nat, events : Nat]
      BY Bounds
    <2> QED BY <1>1, <2>1 DEF Clients
  <1>6. Roles
    BY <1>1 DEF Roles
  <1>7. Sources
    BY DEF Sources
  <1> QED BY <1>4, <1>5, <1>6, <1>7 DEF Types

LEMMA NextTypes == Types /\ [Next]_vars => Types'
  <1> SUFFICES ASSUME Types, [Next]_vars PROVE Types'
    OBVIOUS
  <1>1. ASSUME NEW c \in Callers, Use(c) \/ Close(c) \/ Cancel(c) \/ CallerStep(c)
        PROVE  Types'
    BY <1>1, CallerTypes, CallerSharedTypes DEF Types, Clients
  <1>2. ASSUME NEW g \in Gens, ReaderStep(g) \/ Answer(g) \/ Ask(g) \/ Crash(g)
        PROVE  Types'
    BY <1>2, OtherTypes
  <1>3. CASE UNCHANGED vars
    BY <1>3 DEF vars, Types, Processes, Clients, Roles, Sources
  <1> QED BY <1>1, <1>2, <1>3 DEF Next

\* Every variable holds a value of its type, for any number of tasks, uses and faults.
THEOREM LifecycleTypes == Spec => []TypeOK
  <1>1. Types => TypeOK
    BY DEF Types, Processes, Clients, Tasks, ReaderPlaces, TypeOK
  <1> QED BY <1>1, InitTypes, NextTypes, PTL DEF Spec

-----------------------------------------------------------------------------
(* What cannot happen to processes and calls without an overlap.           *)

Lost == {"cancelled start", "two closes"}
Stale == {"close and start", "cancelled close", "close raised"}

\* Processes are started in order; a write fails on one that has ended.
Counted == /\ \A g \in Gens : /\ (g > used.starts) <=> (server[g] = "none")
                              /\ proc = g \/ g \in torn => server[g] # "none"
                              /\ g \in torn => server[g] \in {"crashed", "gone"}
           /\ \A c \in Callers : caller[c].at \in {"clear", "stop"} => server[caller[c].gen] # "none"
\* An initialisation holds _init_lock for as long as its task lives.
Locked == \A c \in Callers : caller[c].why = "init" /\ ~caller[c].detached => initLock = c
\* Where each overlap is noticed.
Noticed == \A c \in Callers : /\ caller[c].why = "init" /\ caller[c].detached => Overlapped({"cancelled start"})
                              /\ Closing(c) /\ caller[c].detached => Overlapped({"cancelled close"})
                              /\ caller[c].at = "raised" => Overlapped({"close raised"})
                              /\ \A d \in Callers : c \in Stopping /\ d \in Stopping /\ c # d
                                                   => Overlapped({"two closes"})
                              /\ caller[c].why = "init" /\ ~caller[c].detached /\ Stopping # {}
                                 => Overlapped({"close and start"})
\* The process is the one a start checked for and a close has read.
Current == Overlapped(Lost) \/ \A c \in Callers : /\ caller[c].at = "spawn" => proc = None
                                                  /\ caller[c].at = "clear" => caller[c].gen = proc
\* An initialisation finishes with a process.
Finishing == Overlapped(Stale) \/ \A c \in Callers : caller[c].at = "finish" /\ ~caller[c].detached => proc # None
Control == Counted /\ Locked /\ Noticed /\ Current /\ Finishing

\* Without strays there is one process at a time, and one reader, its own.
Orderly ==
    Overlapped(Strays) \/
      /\ proc \in {None, used.starts}
      /\ \A g \in Gens : /\ server[g] = "running" =>
                              /\ g = used.starts
                              /\ proc = None => \E c \in Callers : caller[c].at \in {"clear", "stop"}
                         /\ ReaderAlive(g) => /\ g = used.starts /\ g = readerThread
                                              /\ proc = None => Stopping # {}
                         /\ reader[g].at \in {"reading", "handling", "replying"} /\ proc # None
                            => reader[g].of = proc
      /\ \A c \in Callers : /\ caller[c].at \in {"clear", "stop", "reader"} => caller[c].gen = used.starts
                            /\ caller[c].at = "spawn" => proc = None
                            /\ caller[c].at = "reader" => \A g \in Gens : ~ReaderAlive(g)

-----------------------------------------------------------------------------
(* The steps, by what they do to a task.                                   *)

Goes(c, from, to) == caller[c].at \in from /\ caller'[c].at \in to
\* What the task is and which process it has, kept.
Same(c) == /\ caller'[c].why = caller[c].why /\ caller'[c].gen = caller[c].gen
           /\ caller'[c].detached = caller[c].detached
Ends(c) == caller'[c].at = "idle" /\ caller'[c].why = "op" /\ ~caller'[c].detached
Aborts(c) == /\ caller'[c].at = "close" /\ caller'[c].why = "abort"
             /\ ~caller[c].detached /\ ~caller'[c].detached

LEMMA Ending ==
  ASSUME Types, NEW c \in Callers
  PROVE  (Rest(c) => Ends(c)) /\ (Fail(c) => Ends(c) \/ Aborts(c))
  <1>1. Idle.at = "idle" /\ Idle.why = "op" /\ ~Idle.detached
    BY DEF Idle
  <1>2. Idle \in Tasks
    BY Bounds DEF Idle, Tasks, Asking, Shutting, Initialising, None
  <1> DEFINE t == [Idle EXCEPT !.op = caller[c].op]
             u == [Idle EXCEPT !.at = "close", !.why = "abort", !.op = caller[c].op]
  <1>3. /\ t.at = "idle" /\ t.why = "op" /\ ~t.detached
        /\ u.at = "close" /\ u.why = "abort" /\ ~u.detached
    BY <1>1, <1>2 DEF Tasks
  <1> HIDE DEF t, u
  <1>4. Rest(c) => caller' = [caller EXCEPT ![c] = t]
    BY DEF Rest, t
  <1>5. Fail(c) => Rest(c) \/ (~caller[c].detached /\ caller' = [caller EXCEPT ![c] = u])
    BY DEF Fail, u
  <1> QED BY <1>3, <1>4, <1>5 DEF Types, Clients, Ends, Aborts

\* Only the task itself moves, and the overlaps are remembered.
LEMMA OthersStay ==
  ASSUME Types, NEW c \in Callers, Use(c) \/ Close(c) \/ Cancel(c) \/ CallerStep(c)
  PROVE  (\A d \in Callers \ {c} : caller'[d] = caller[d]) /\ overlaps \subseteq overlaps'
  <1>1. caller \in [Callers -> Tasks]
    BY DEF Types, Clients
  <1>2. \/ Rest(c) \/ Fail(c)
        \/ \E t : caller' = [caller EXCEPT ![c] = t]
    BY DEF CallerStep, Use, Close, Cancel, TakeInitLock, StartCheck, Spawn, SpawnFails, StartReader, Notify, FinishInit,
       Send, Write, Receive, CloseCheck, CloseClear, CloseStop, CloseJoin, Closed, CloseRaised, At, Started
  <1>3. overlaps \subseteq overlaps'
    BY DEF CallerStep, Use, Close, Cancel, TakeInitLock, StartCheck, Spawn, SpawnFails, StartReader, Notify, FinishInit,
       Send, Write, Receive, CloseCheck, CloseClear, CloseStop, CloseJoin, Closed, CloseRaised
  <1> QED BY <1>1, <1>2, <1>3 DEF Rest, Fail

\* A reader or a server changes no more of a task than the result of its request.
LEMMA TasksStay ==
  ASSUME Types, NEW g \in Gens, ReaderStep(g) \/ Answer(g) \/ Ask(g) \/ Crash(g)
  PROVE  /\ \A c \in Callers : caller'[c].at = caller[c].at /\ Same(c) /\ caller'[c].op = caller[c].op
         /\ UNCHANGED <<proc, readerThread, initialized, initLock>> /\ used'.starts = used.starts
         /\ overlaps \subseteq overlaps'
  <1>1. caller \in [Callers -> Tasks] /\ used.starts \in 0..MaxStarts
         /\ used \in [starts : 0..MaxStarts, closes : Nat, cancels : Nat, events : Nat]
    BY DEF Types, Clients
  <1>2. \A c \in Callers : \/ caller'[c] = caller[c]
                           \/ \E r : caller'[c] = [caller[c] EXCEPT !.result = r]
    BY <1>1 DEF ReaderStep, ReadMessage, RouteResponse, TakeServerRequest, HandlerReturns, HandlerRaises, Reply,
       ReadUnreadable, ReadEof, FailAll, Answer, Ask, Crash
  <1>3. \A c \in Callers : caller'[c].at = caller[c].at /\ Same(c) /\ caller'[c].op = caller[c].op
    <2> SUFFICES ASSUME NEW c \in Callers
                 PROVE  caller'[c].at = caller[c].at /\ Same(c) /\ caller'[c].op = caller[c].op
      OBVIOUS
    <2> DEFINE t == caller[c]
    <2>1. t \in Tasks
      BY <1>1
    <2> HIDE DEF t
    <2>2. \A r : /\ [t EXCEPT !.result = r].at = t.at /\ [t EXCEPT !.result = r].why = t.why
                 /\ [t EXCEPT !.result = r].gen = t.gen /\ [t EXCEPT !.result = r].detached = t.detached
                 /\ [t EXCEPT !.result = r].op = t.op
      BY <2>1 DEF Tasks
    <2> QED BY <1>2, <2>2 DEF Same, t
  <1>4. UNCHANGED <<proc, readerThread, initialized, initLock>> /\ overlaps \subseteq overlaps'
    BY DEF ReaderStep, ReadMessage, RouteResponse, TakeServerRequest, HandlerReturns, HandlerRaises, Reply,
       ReadUnreadable, ReadEof, FailAll, Answer, Ask, Crash, client
  <1>5. used' = used \/ used' = [used EXCEPT !.events = @ + 1]
    BY DEF ReaderStep, ReadMessage, RouteResponse, TakeServerRequest, HandlerReturns, HandlerRaises, Reply,
       ReadUnreadable, ReadEof, FailAll, Answer, Ask, Crash, Spend
  <1> QED BY <1>1, <1>3, <1>4, <1>5

\* Where each step takes its task.
LEMMA Moves ==
  ASSUME Types, NEW c \in Callers
  PROVE  /\ Use(c) => Goes(c, {"idle"}, {"send", "lock"}) /\ caller'[c].why = "op" /\ ~caller'[c].detached
         /\ Close(c) => Goes(c, {"idle"}, {"close"}) /\ caller'[c].why = "close" /\ ~caller'[c].detached
         /\ Cancel(c) => /\ caller'[c].at = caller[c].at /\ caller'[c].why = caller[c].why
                         /\ caller'[c].gen = caller[c].gen /\ caller'[c].detached
                         /\ caller[c].at # "finish" /\ caller[c].why \in {"init", "close", "abort"}
         /\ TakeInitLock(c) => \/ Goes(c, {"lock"}, {"send"}) /\ Same(c) /\ initialized
                               \/ /\ Goes(c, {"lock"}, {"start"}) /\ caller'[c].why = "init"
                                  /\ ~caller'[c].detached /\ ~initialized
         /\ StartCheck(c) => \/ Goes(c, {"start"}, {"spawn"}) /\ Same(c) /\ proc = None
                             \/ Goes(c, {"start"}, {"send"}) /\ Same(c)
                             \/ Ends(c) /\ caller[c].at = "start"
         /\ Spawn(c) => /\ Goes(c, {"spawn"}, {"reader"}) /\ caller'[c].gen = used.starts + 1
                        /\ caller'[c].why = caller[c].why /\ caller'[c].detached = caller[c].detached
         /\ SpawnFails(c) => caller[c].at = "spawn" /\ (Ends(c) \/ Aborts(c))
         /\ StartReader(c) => caller[c].at = "reader" /\ (Ends(c) \/ (caller'[c].at = "send" /\ Same(c)))
         /\ Notify(c) => /\ caller[c].at = "notify"
                         /\ Ends(c) \/ Aborts(c) \/ (caller'[c].at = "finish" /\ Same(c) /\ Writable)
         /\ FinishInit(c) => /\ caller[c].at = "finish"
                             /\ \/ Ends(c) /\ caller[c].detached
                                \/ /\ caller'[c].at = "send" /\ caller'[c].why = "op"
                                   /\ ~caller'[c].detached /\ ~caller[c].detached
         /\ Send(c) => Goes(c, {"send"}, {"write"}) /\ Same(c)
         /\ Write(c) => /\ caller[c].at = "write"
                        /\ \/ Ends(c) \/ Aborts(c)
                           \/ /\ caller'[c].at = "wait" /\ caller'[c].why = caller[c].why
                              /\ caller'[c].detached = caller[c].detached
         /\ Receive(c) => /\ caller[c].at = "wait"
                          /\ \/ Ends(c) \/ Aborts(c)
                             \/ /\ caller'[c].at \in {"send", "notify"} /\ caller'[c].why = caller[c].why
                                /\ caller'[c].detached = caller[c].detached
         /\ CloseCheck(c) => /\ caller[c].at = "close" /\ caller'[c].gen = proc
                             /\ caller'[c].why = caller[c].why /\ caller'[c].detached = caller[c].detached
                             /\ caller'[c].at = IF proc = None THEN "closed" ELSE "clear"
         /\ CloseClear(c) => Goes(c, {"clear"}, {"stop"}) /\ Same(c)
         /\ CloseStop(c) => /\ caller[c].at = "stop" /\ Same(c)
                            /\ caller'[c].at = IF caller[c].gen \in torn THEN "raised" ELSE "join"
         /\ CloseJoin(c) => Goes(c, {"join"}, {"closed"}) /\ Same(c)
         /\ Closed(c) => caller[c].at = "closed" /\ Ends(c)
         /\ CloseRaised(c) => caller[c].at = "raised" /\ Ends(c)
  <1>1. caller \in [Callers -> Tasks] /\ Role(caller[c])
    BY DEF Types, Clients, Roles
  <1> DEFINE t == caller[c]
  <1>2. t \in Tasks /\ t.detached \in BOOLEAN
    BY <1>1 DEF Tasks
  <1> HIDE DEF t
  <1>3. \A w : At(c, w) => caller'[c].at = w /\ Same(c)
    <2>1. \A w : [t EXCEPT !.at = w].at = w /\ [t EXCEPT !.at = w].why = t.why
              /\ [t EXCEPT !.at = w].gen = t.gen /\ [t EXCEPT !.at = w].detached = t.detached
      BY <1>2 DEF Tasks
    <2> QED BY <1>1, <2>1 DEF At, Same, t
  <1>4. Use(c) => Goes(c, {"idle"}, {"send", "lock"}) /\ caller'[c].why = "op" /\ ~caller'[c].detached
    <2> SUFFICES ASSUME Use(c)
                 PROVE  Goes(c, {"idle"}, {"send", "lock"}) /\ caller'[c].why = "op" /\ ~caller'[c].detached
      OBVIOUS
    <2>1. PICK where \in {"send", "lock"} :
            caller'[c] = [t EXCEPT !.at = where, !.why = "op", !.op = @ + 1, !.try = 1]
      BY <1>1 DEF Use, t
    <2>2. t.at = "idle" /\ ~t.detached
      BY <1>1 DEF Use, t, Role
    <2> DEFINE n == t.op + 1
               u == [t EXCEPT !.at = where, !.why = "op", !.op = n, !.try = 1]
    <2> HIDE DEF n
    <2>3. u.at = where /\ u.why = "op" /\ u.detached = t.detached
      BY <1>2 DEF Tasks
    <2>4. caller'[c] = u
      BY <2>1 DEF n
    <2> HIDE DEF u
    <2> QED BY <2>2, <2>3, <2>4 DEF Goes, t
  <1>5. Close(c) => Goes(c, {"idle"}, {"close"}) /\ caller'[c].why = "close" /\ ~caller'[c].detached
    BY <1>1, <1>2 DEF Close, t, Role, Goes, Tasks
  <1>6. Cancel(c) => /\ caller'[c].at = caller[c].at /\ caller'[c].why = caller[c].why
                     /\ caller'[c].gen = caller[c].gen /\ caller'[c].detached
                     /\ caller[c].at # "finish" /\ caller[c].why \in {"init", "close", "abort"}
    <2> DEFINE u == [t EXCEPT !.detached = TRUE]
    <2>1. u.at = t.at /\ u.why = t.why /\ u.gen = t.gen /\ u.detached
      BY <1>2 DEF Tasks
    <2>2. Cancel(c) => caller' = [caller EXCEPT ![c] = u]
      BY DEF Cancel, t
    <2> HIDE DEF u
    <2> QED BY <1>1, <2>1, <2>2 DEF Cancel, t
  <1>7. TakeInitLock(c) => \/ Goes(c, {"lock"}, {"send"}) /\ Same(c) /\ initialized
                           \/ /\ Goes(c, {"lock"}, {"start"}) /\ caller'[c].why = "init"
                              /\ ~caller'[c].detached /\ ~initialized
    <2> DEFINE u == [t EXCEPT !.at = "start", !.why = "init"]
    <2>1. u.at = "start" /\ u.why = "init" /\ u.detached = t.detached
      BY <1>2 DEF Tasks
    <2>2. TakeInitLock(c) => \/ caller[c].at = "lock" /\ At(c, "send") /\ initialized
                             \/ t.at = "lock" /\ caller' = [caller EXCEPT ![c] = u] /\ ~initialized
      BY <1>1, <1>2 DEF TakeInitLock, t, Tasks
    <2>3. t.at = "lock" => ~t.detached
      BY <1>1 DEF t, Role
    <2> HIDE DEF u
    <2> QED BY <1>1, <1>3, <2>1, <2>2, <2>3 DEF t, Goes
  <1>8. Spawn(c) => /\ Goes(c, {"spawn"}, {"reader"}) /\ caller'[c].gen = used.starts + 1
                    /\ caller'[c].why = caller[c].why /\ caller'[c].detached = caller[c].detached
    BY <1>1, <1>2 DEF Spawn, t, Tasks, Goes
  <1>9. FinishInit(c) => /\ caller[c].at = "finish"
                         /\ \/ Ends(c) /\ caller[c].detached
                           \/ /\ caller'[c].at = "send" /\ caller'[c].why = "op"
                              /\ ~caller'[c].detached /\ ~caller[c].detached
    BY <1>1, <1>2, Ending DEF FinishInit, t, Tasks
  <1>10. Write(c) => /\ caller[c].at = "write"
                    /\ \/ Ends(c) \/ Aborts(c)
                       \/ /\ caller'[c].at = "wait" /\ caller'[c].why = caller[c].why
                          /\ caller'[c].detached = caller[c].detached
    BY <1>1, <1>2, Ending DEF Write, t, Tasks
  <1>11. Receive(c) => /\ caller[c].at = "wait"
                       /\ \/ Ends(c) \/ Aborts(c)
                          \/ /\ caller'[c].at \in {"send", "notify"} /\ caller'[c].why = caller[c].why
                             /\ caller'[c].detached = caller[c].detached
    <2> SUFFICES ASSUME Receive(c), ~Ends(c), ~Aborts(c)
                 PROVE  /\ caller[c].at = "wait"
                        /\ caller'[c].at \in {"send", "notify"} /\ caller'[c].why = caller[c].why
                        /\ caller'[c].detached = caller[c].detached
      BY DEF Receive
    <2> DEFINE n == t.try + 1
               u == [t EXCEPT !.at = "send", !.try = n]
               v == [t EXCEPT !.at = "notify", !.result = "none", !.gen = None]
    <2>1. caller' = [caller EXCEPT ![c] = u] \/ caller' = [caller EXCEPT ![c] = v]
      BY Ending DEF Receive, t
    <2> HIDE DEF n
    <2>2. /\ u.at = "send" /\ u.why = t.why /\ u.detached = t.detached
          /\ v.at = "notify" /\ v.why = t.why /\ v.detached = t.detached
      BY <1>2 DEF Tasks
    <2> HIDE DEF u, v
    <2> QED BY <1>1, <2>1, <2>2 DEF t, Receive
  <1>12. Send(c) => Goes(c, {"send"}, {"write"}) /\ Same(c)
    BY <1>1, <1>2 DEF Send, t, Tasks, Goes, Same
  <1>13. CloseCheck(c) => /\ caller[c].at = "close" /\ caller'[c].gen = proc
                          /\ caller'[c].why = caller[c].why /\ caller'[c].detached = caller[c].detached
                          /\ caller'[c].at = IF proc = None THEN "closed" ELSE "clear"
    <2> SUFFICES ASSUME CloseCheck(c)
                 PROVE  /\ caller[c].at = "close" /\ caller'[c].gen = proc
                        /\ caller'[c].why = caller[c].why /\ caller'[c].detached = caller[c].detached
                        /\ caller'[c].at = IF proc = None THEN "closed" ELSE "clear"
      OBVIOUS
    <2> DEFINE where == IF proc = None THEN "closed" ELSE "clear"
               u == [t EXCEPT !.at = where, !.gen = proc]
    <2>1. caller'[c] = u /\ caller[c].at = "close"
      BY <1>1 DEF CloseCheck, t
    <2> HIDE DEF where
    <2>2. u.at = where /\ u.why = t.why /\ u.gen = proc /\ u.detached = t.detached
      BY <1>2 DEF Tasks
    <2> HIDE DEF u
    <2> QED BY <2>1, <2>2 DEF where, t
  <1>14. CloseStop(c) => /\ caller[c].at = "stop" /\ Same(c)
                        /\ caller'[c].at = IF caller[c].gen \in torn THEN "raised" ELSE "join"
    BY <1>3 DEF CloseStop
  <1>15. /\ Closed(c) => caller[c].at = "closed" /\ Ends(c)
         /\ CloseRaised(c) => caller[c].at = "raised" /\ Ends(c)
         /\ StartCheck(c) => \/ Goes(c, {"start"}, {"spawn"}) /\ Same(c) /\ proc = None
                             \/ Goes(c, {"start"}, {"send"}) /\ Same(c)
                             \/ Ends(c) /\ caller[c].at = "start"
         /\ SpawnFails(c) => caller[c].at = "spawn" /\ (Ends(c) \/ Aborts(c))
         /\ StartReader(c) => caller[c].at = "reader" /\ (Ends(c) \/ (caller'[c].at = "send" /\ Same(c)))
         /\ Notify(c) => /\ caller[c].at = "notify"
                         /\ Ends(c) \/ Aborts(c) \/ (caller'[c].at = "finish" /\ Same(c) /\ Writable)
         /\ CloseClear(c) => Goes(c, {"clear"}, {"stop"}) /\ Same(c)
         /\ CloseJoin(c) => Goes(c, {"join"}, {"closed"}) /\ Same(c)
    BY <1>3, Ending DEF Closed, CloseRaised, StartReader, StartCheck, Started, SpawnFails, Notify, CloseClear, CloseJoin,
       Goes
  <1> QED BY <1>4, <1>5, <1>6, <1>7, <1>8, <1>9, <1>10, <1>11, <1>12, <1>13, <1>14, <1>15

-----------------------------------------------------------------------------
(* The control invariants are kept.                                        *)

LEMMA InitControl == Init => Control /\ Orderly
  <1> SUFFICES ASSUME Init PROVE Control /\ Orderly
    OBVIOUS
  <1>1. Idle.at = "idle" /\ Idle.why = "op" /\ ~Idle.detached
    BY DEF Idle
  <1>2. \A c \in Callers : caller[c] = Idle
    BY DEF Init
  <1>3. \A g \in Gens : reader[g].at = "none" /\ server[g] = "none" /\ g \in Nat /\ g > 0 /\ g # None
    BY Bounds DEF Init, Gens, None
  <1>4. proc = None /\ used.starts = 0 /\ torn = {}
    BY DEF Init, None
  <1>5. Counted
    BY <1>1, <1>2, <1>3, <1>4 DEF Counted
  <1>6. Locked /\ Noticed /\ Current /\ Finishing
    BY <1>1, <1>2 DEF Locked, Noticed, Current, Finishing, Stopping, Closing
  <1>7. Orderly
    BY <1>1, <1>2, <1>3, <1>4 DEF Orderly, ReaderAlive
  <1> QED BY <1>5, <1>6, <1>7 DEF Control

\* Processes are counted as they start, and a write fails only on one that is gone.
LEMMA CountedKept == Types /\ Counted /\ [Next]_vars => Counted'
  <1> SUFFICES ASSUME Types, Counted, [Next]_vars PROVE Counted'
    OBVIOUS
  <1>1. /\ proc \in Gens \cup {None} /\ server \in [Gens -> {"none", "running", "crashed", "gone"}]
        /\ torn \subseteq Gens /\ used.starts \in 0..MaxStarts
        /\ used \in [starts : 0..MaxStarts, closes : Nat, cancels : Nat, events : Nat]
    BY DEF Types, Processes, Clients
  <1>2. Gens \subseteq Nat \ {0} /\ None = 0 /\ MaxStarts \in Nat
    BY Bounds DEF Gens, None
  <1>3. \A g \in Gens : g > used.starts <=> server[g] = "none"
    BY DEF Counted
  <1>4. \A c \in Callers : caller[c].at \in {"clear", "stop"} => caller[c].gen \in Gens
    BY DEF Types, Roles, Role
  <1> DEFINE InOrder == \A g \in Gens : /\ (g > used.starts) <=> (server[g] = "none")
                                        /\ proc = g \/ g \in torn => server[g] # "none"
                                        /\ g \in torn => server[g] \in {"crashed", "gone"}
             Alive == \A g \in Gens : server[g] # "none" => server'[g] # "none"
  \* A process whose stdin cannot be written is gone.
  <1>5. proc # None /\ ~Writable => proc \in Gens /\ server[proc] \in {"crashed", "gone"}
    BY <1>1, <1>2 DEF Counted, Writable
  <1>6. ASSUME server' = server, proc' \in {proc, None}, used'.starts = used.starts,
               torn' \subseteq torn \cup (IF proc # None /\ ~Writable THEN {proc} ELSE {})
        PROVE  InOrder' /\ Alive
    BY <1>1, <1>2, <1>5, <1>6 DEF Counted
  \* A running process ends.
  <1>7. ASSUME NEW g \in Gens, server[g] # "none", NEW s \in {"crashed", "gone"}, server' = [server EXCEPT ![g] = s],
               proc' = proc, torn' = torn, used'.starts = used.starts
        PROVE  InOrder' /\ Alive
    BY <1>1, <1>2, <1>7 DEF Counted
  <1>8. ASSUME NEW c \in Callers, Spawn(c) PROVE InOrder' /\ Alive
    <2> DEFINE n == used.starts + 1
    <2>1. n \in Gens
      BY <1>1, <1>8, Bounds DEF Spawn, Gens
    <2>2. used'.starts = n
      BY <1>1, <1>8 DEF Spawn, Spend
    <2>3. server' = [server EXCEPT ![n] = "running"] /\ proc' = n /\ torn' = torn
      BY <1>8 DEF Spawn
    <2>4. \A g \in Gens : server'[g] = IF g = n THEN "running" ELSE server[g]
      BY <1>1, <2>1, <2>3
    <2>5. \A g \in Gens : g # n => ((g > n) <=> (g > used.starts))
      BY <1>1, <1>2
    <2>6. server[n] = "none" /\ n \notin torn /\ ~(n > n)
      BY <1>1, <1>2, <1>3, <2>1 DEF Counted
    <2> HIDE DEF n
    <2>7. InOrder'
      BY <1>3, <2>1, <2>2, <2>3, <2>4, <2>5, <2>6 DEF Counted
    <2>8. Alive
      BY <2>4
    <2> QED BY <2>7, <2>8
  <1>9. ASSUME NEW c \in Callers, CloseStop(c) PROVE InOrder' /\ Alive
    <2>1. CASE caller[c].gen \in torn
      BY <1>6, <1>9, <2>1 DEF CloseStop
    <2>2. CASE caller[c].gen \notin torn
      <3>1. caller[c].gen \in Gens /\ server[caller[c].gen] # "none"
        BY <1>4, <1>9 DEF CloseStop, Counted
      <3>2. server' = [server EXCEPT ![caller[c].gen] = "gone"] /\ UNCHANGED <<proc, torn, used>>
        BY <1>9, <2>2 DEF CloseStop
      <3> QED BY <1>7, <3>1, <3>2
    <2> QED BY <2>1, <2>2
  <1>10. ASSUME NEW c \in Callers, Use(c) \/ Close(c) \/ Cancel(c) \/ CallerStep(c) PROVE InOrder' /\ Alive
    <2>1. CASE Close(c) \/ Cancel(c) \/ SpawnFails(c)
      <3>1. used'.starts = used.starts
        BY <1>1, <2>1 DEF Close, Cancel, SpawnFails, Spend
      <3>2. UNCHANGED <<server, proc, torn>>
        BY <2>1 DEF Close, Cancel, SpawnFails, processes, client
      <3> QED BY <1>6, <3>1, <3>2
    <2>2. CASE Write(c) \/ Notify(c) \/ CloseClear(c)
      <3>1. server' = server /\ used' = used /\ proc' \in {proc, None}
        BY <2>2 DEF Write, Notify, CloseClear, processes
      <3>2. torn' \subseteq torn \cup (IF proc # None /\ ~Writable THEN {proc} ELSE {})
        BY <2>2 DEF Write, Notify, CloseClear
      <3> QED BY <1>6, <3>1, <3>2
    <2>3. CASE \/ Use(c) \/ StartCheck(c) \/ Receive(c) \/ CloseCheck(c) \/ CloseJoin(c) \/ TakeInitLock(c)
               \/ FinishInit(c) \/ Closed(c) \/ CloseRaised(c) \/ Send(c) \/ StartReader(c)
      <3>1. UNCHANGED <<server, proc, torn, used>>
        BY <2>3 DEF Use, StartCheck, Receive, CloseCheck, CloseJoin, TakeInitLock, FinishInit, Closed,
           CloseRaised, Send, StartReader, processes, client
      <3> QED BY <1>6, <3>1
    <2> QED BY <1>8, <1>9, <1>10, <2>1, <2>2, <2>3 DEF CallerStep
  <1>11. ASSUME NEW g \in Gens, ReaderStep(g) \/ Answer(g) \/ Ask(g) \/ Crash(g) PROVE InOrder' /\ Alive
    <2>1. proc' = proc /\ used'.starts = used.starts
      BY <1>11, TasksStay
    <2>2. CASE Crash(g)
      BY <1>7, <2>1, <2>2 DEF Crash, client
    <2>3. CASE Reply(g)
      BY <1>6, <2>1, <2>3 DEF Reply, processes
    <2>4. CASE ~Crash(g) /\ ~Reply(g)
      <3>1. server' = server /\ torn' = torn
        BY <1>11, <2>4 DEF ReaderStep, ReadMessage, RouteResponse, TakeServerRequest, HandlerReturns, HandlerRaises,
           ReadUnreadable, ReadEof, FailAll, Answer, Ask, processes, client
      <3> QED BY <1>6, <2>1, <3>1
    <2> QED BY <2>2, <2>3, <2>4
  <1>12. CASE UNCHANGED vars
    BY <1>12 DEF vars, Counted
  \* Whoever stops a process has read it, or is where it was.
  <1>13. ASSUME NEW d \in Callers, ~UNCHANGED vars
         PROVE  caller'[d].at \in {"clear", "stop"}
                => \/ caller[d].at \in {"clear", "stop"} /\ caller'[d].gen = caller[d].gen
                   \/ caller'[d].gen = proc /\ proc # None
    <2>1. ASSUME NEW c \in Callers, Use(c) \/ Close(c) \/ Cancel(c) \/ CallerStep(c)
          PROVE  caller'[d].at \in {"clear", "stop"}
                 => \/ caller[d].at \in {"clear", "stop"} /\ caller'[d].gen = caller[d].gen
                    \/ caller'[d].gen = proc /\ proc # None
      <3>1. CASE d # c
        BY <2>1, <3>1, OthersStay
      <3>2. CASE d = c
        BY <2>1, <3>2, Moves DEF CallerStep, Goes, Same, Ends, Aborts
      <3> QED BY <3>1, <3>2
    <2>2. ASSUME NEW g \in Gens, ReaderStep(g) \/ Answer(g) \/ Ask(g) \/ Crash(g)
          PROVE  caller'[d].at = caller[d].at /\ caller'[d].gen = caller[d].gen
      BY <2>2, TasksStay DEF Same
    <2> QED BY <1>13, <2>1, <2>2 DEF Next
  <1>14. CASE ~UNCHANGED vars
    <2>1. InOrder' /\ Alive
      BY <1>10, <1>11, <1>14 DEF Next
    <2>2. \A c \in Callers : caller'[c].at \in {"clear", "stop"} => server'[caller'[c].gen] # "none"
      BY <1>1, <1>4, <1>13, <1>14, <2>1 DEF Counted
    <2> QED BY <2>1, <2>2 DEF Counted
  <1> QED BY <1>12, <1>14


\* Which task initialises, and which stop a process.
LEMMA Arrivals ==
  ASSUME Types, NEW c \in Callers, Use(c) \/ Close(c) \/ Cancel(c) \/ CallerStep(c)
  PROVE  /\ caller'[c].why = "init" => \/ caller[c].why = "init" /\ (caller[c].detached => caller'[c].detached)
                                       \/ TakeInitLock(c) /\ initLock = NoCaller /\ ~caller'[c].detached
         /\ caller'[c].why = "init" /\ caller'[c].detached => caller[c].detached \/ Cancel(c)
         /\ Closing(c)' /\ caller'[c].detached => Closing(c) /\ (caller[c].detached \/ Cancel(c))
         /\ caller'[c].at = "raised" => caller[c].at = "raised" \/ CloseStop(c)
         /\ c \in Stopping' => c \in Stopping \/ CloseCheck(c)
         /\ caller'[c].at = "spawn" => caller[c].at = "spawn" \/ proc = None
         /\ caller'[c].at = "clear" => (caller[c].at = "clear" /\ caller'[c].gen = caller[c].gen)
                                       \/ caller'[c].gen = proc
         /\ caller'[c].at = "finish" => caller[c].at = "finish" \/ proc # None
         /\ caller'[c].at \in {"spawn", "finish"} => caller'[c].why = "init"
         /\ Closing(c) /\ ~Closing(c)' => caller[c].at \in {"closed", "raised"}
  <1>1. Role(caller[c]) /\ Role(caller'[c])
    BY CallerTypes DEF Types, Roles
  <1>2. CASE Cancel(c)
    BY <1>1, <1>2, Moves DEF Closing, Stopping, Role, Asking, Initialising, Shutting
  <1>3. CASE TakeInitLock(c)
    BY <1>1, <1>3, Moves DEF Closing, Stopping, Role, Asking, Initialising, Shutting, Goes, Same, TakeInitLock
  <1>4. CASE Use(c) \/ Close(c) \/ StartCheck(c) \/ Spawn(c) \/ SpawnFails(c) \/ StartReader(c)
    BY <1>1, <1>4, Moves DEF Closing, Stopping, Role, Asking, Initialising, Shutting, Goes, Same, Ends, Aborts
  <1>5. CASE Notify(c) \/ FinishInit(c) \/ Send(c) \/ Write(c) \/ Receive(c)
    BY <1>1, <1>5, Moves DEF Closing, Stopping, Role, Asking, Initialising, Shutting, Goes, Same, Ends, Aborts, Writable
  <1>6. CASE CloseCheck(c) \/ CloseClear(c) \/ CloseStop(c)
    BY <1>1, <1>6, Moves DEF Closing, Stopping, Role, Asking, Initialising, Shutting, Goes, Same
  <1>7. CASE CloseJoin(c) \/ Closed(c) \/ CloseRaised(c)
    BY <1>1, <1>7, Moves DEF Closing, Stopping, Role, Asking, Initialising, Shutting, Goes, Same, Ends
  <1> QED BY <1>2, <1>3, <1>4, <1>5, <1>6, <1>7 DEF CallerStep

\* A live initialisation keeps the lock.
LEMMA LockedKept ==
  ASSUME Types, Locked, NEW c \in Callers, Use(c) \/ Close(c) \/ Cancel(c) \/ CallerStep(c)
  PROVE  Locked'
  <1> SUFFICES ASSUME NEW d \in Callers, caller'[d].why = "init", ~caller'[d].detached
               PROVE  initLock' = d
    BY DEF Locked
  <1>1. c # NoCaller /\ d # NoCaller
    BY Bounds
  \* The lock changes hands only by its holder.
  <1>2. \/ initLock' = initLock \/ (initLock = NoCaller /\ initLock' = c) \/ (initLock = c /\ initLock' = NoCaller)
        \/ FinishInit(c)
    BY DEF CallerStep, Use, Close, Cancel, TakeInitLock, StartCheck, Spawn, SpawnFails, StartReader, Notify,
       Send, Write, Receive, CloseCheck, CloseClear, CloseStop, CloseJoin, Closed, CloseRaised
  <1>3. CASE d # c
    <2>1. initLock = d
      BY <1>3, OthersStay DEF Locked
    <2>2. CASE FinishInit(c)
      <3>1. caller[c].detached
        <4>1. caller[c].why = "init"
          BY <2>2 DEF FinishInit, Types, Roles, Role, Initialising
        <4> QED BY <1>3, <2>1, <4>1 DEF Locked
      <3> QED BY <2>1, <2>2, <3>1 DEF FinishInit
    <2> QED BY <1>1, <1>2, <1>3, <2>1, <2>2
  <1>4. CASE d = c
    <2>1. CASE TakeInitLock(c)
      <3>1. caller[c].why = "op" /\ caller[c].at = "lock"
        BY <2>1 DEF TakeInitLock, Types, Roles, Role
      <3>2. ~initialized
        BY <1>4, <2>1, <3>1, Moves DEF Goes, Same
      <3> QED BY <1>4, <2>1, <3>2 DEF TakeInitLock
    <2>2. CASE ~TakeInitLock(c)
      <3>1. caller[c].why = "init" /\ ~caller[c].detached
        BY <1>4, <2>2, Arrivals
      <3>2. initLock = c
        BY <3>1 DEF Locked
      <3>3. ~Cancel(c) /\ ~Closed(c) /\ ~CloseRaised(c) /\ ~FinishInit(c)
        BY <1>4, <3>1, Moves DEF Types, Roles, Role, Shutting, Closed, CloseRaised, Ends
      <3>4. initLock' = initLock
        BY <2>2, <3>3 DEF CallerStep, Use, Close, StartCheck, Spawn, SpawnFails, StartReader, Notify,
           Send, Write, Receive, CloseCheck, CloseClear, CloseStop, CloseJoin
      <3> QED BY <1>4, <3>2, <3>4
    <2> QED BY <2>1, <2>2
  <1> QED BY <1>3, <1>4

\* Every overlap is noticed when it begins.
LEMMA NoticedKept ==
  ASSUME Types, Locked, Noticed, NEW c \in Callers, Use(c) \/ Close(c) \/ Cancel(c) \/ CallerStep(c)
  PROVE  Noticed'
  <1>1. /\ \A d \in Callers \ {c} : caller'[d] = caller[d]
        /\ overlaps \subseteq overlaps'
    BY OthersStay
  <1>2. \A kinds : Overlapped(kinds) => Overlapped(kinds)'
    BY <1>1 DEF Overlapped
  <1>3. \A d \in Callers : (d # c => (d \in Stopping' <=> d \in Stopping) /\ (Closing(d)' <=> Closing(d)))
    BY <1>1 DEF Stopping, Closing
  <1>4. ASSUME NEW d \in Callers, caller'[d].why = "init", caller'[d].detached
        PROVE  Overlapped({"cancelled start"})'
    <2>1. CASE d = c /\ Cancel(c)
      BY <1>4, <2>1, Moves DEF Cancel, Overlapped, Closing
    <2>2. CASE d # c \/ ~Cancel(c)
      <3>1. caller[d].why = "init" /\ caller[d].detached
        BY <1>1, <1>4, <2>2, Arrivals
      <3> QED BY <1>2, <3>1 DEF Noticed
    <2> QED BY <2>1, <2>2
  <1>5. ASSUME NEW d \in Callers, Closing(d)', caller'[d].detached
        PROVE  Overlapped({"cancelled close"})'
    <2>1. CASE d = c /\ Cancel(c)
      BY <1>5, <2>1, Moves DEF Cancel, Overlapped, Closing
    <2>2. CASE d # c \/ ~Cancel(c)
      <3>1. Closing(d) /\ caller[d].detached
        BY <1>1, <1>3, <1>5, <2>2, Arrivals
      <3> QED BY <1>2, <3>1 DEF Noticed
    <2> QED BY <2>1, <2>2
  <1>6. ASSUME NEW d \in Callers, caller'[d].at = "raised" PROVE Overlapped({"close raised"})'
    <2>1. CASE d = c /\ CloseStop(c)
      BY <1>6, <2>1, Moves DEF CloseStop, Overlapped
    <2>2. CASE d # c \/ ~CloseStop(c)
      BY <1>1, <1>2, <1>6, <2>2, Arrivals DEF Noticed
    <2> QED BY <2>1, <2>2
  <1>7. ASSUME NEW d \in Callers, NEW e \in Callers, d \in Stopping', e \in Stopping', d # e
        PROVE  Overlapped({"two closes"})'
    <2>1. CASE CloseCheck(c) /\ Stopping # {}
      BY <2>1 DEF CloseCheck, Overlapped
    <2>2. CASE ~(CloseCheck(c) /\ Stopping # {})
      <3>1. d \in Stopping /\ e \in Stopping
        <4>1. d # c => d \in Stopping
          BY <1>3, <1>7
        <4>2. e # c => e \in Stopping
          BY <1>3, <1>7
        <4>3. c \in Stopping' => c \in Stopping \/ CloseCheck(c)
          BY Arrivals
        <4> QED BY <1>7, <2>2, <4>1, <4>2, <4>3
      <3> QED BY <1>2, <1>7, <3>1 DEF Noticed
    <2> QED BY <2>1, <2>2
  <1>8. ASSUME NEW d \in Callers, caller'[d].why = "init", ~caller'[d].detached, Stopping' # {}
        PROVE  Overlapped({"close and start"})'
    <2>1. CASE d = c /\ TakeInitLock(c)
      <3>1. Stopping # {}
        <4>1. PICK e \in Callers : e \in Stopping'
          BY <1>8 DEF Stopping
        <4>2. c \notin Stopping'
          <5>1. Role(caller'[c])
            BY CallerTypes DEF Roles
          <5> QED BY <1>8, <2>1, <5>1 DEF Stopping, Role, Shutting
        <4> QED BY <1>3, <4>1, <4>2
      <3>2. ~initialized
        BY <1>8, <2>1, Moves DEF Goes, Same, TakeInitLock, Types, Roles, Role
      <3> QED BY <2>1, <3>1, <3>2 DEF TakeInitLock, Overlapped
    <2>2. CASE d # c \/ ~TakeInitLock(c)
      <3>1. caller[d].why = "init" /\ ~caller[d].detached
        BY <1>1, <1>8, <2>2, Arrivals
      <3>2. CASE Stopping # {}
        BY <1>2, <3>1, <3>2 DEF Noticed
      <3>3. CASE Stopping = {}
        <4>1. c \in Stopping' /\ CloseCheck(c)
          <5>1. PICK e \in Callers : e \in Stopping'
            BY <1>8 DEF Stopping
          <5> QED BY <1>3, <3>3, <5>1, Arrivals
        <4>2. initLock = d /\ d # c
          <5>1. initLock = d
            BY <3>1 DEF Locked
          <5>2. caller[c].why # "init"
            BY <4>1 DEF CloseCheck, Types, Roles, Role, Shutting
          <5> QED BY <3>1, <5>1, <5>2
        <4> QED BY <4>1, <4>2, Bounds DEF CloseCheck, Overlapped
      <3> QED BY <3>2, <3>3
    <2> QED BY <2>1, <2>2
  <1> QED BY <1>4, <1>5, <1>6, <1>7, <1>8 DEF Noticed

\* Only a start and a close change the process.
LEMMA ProcessChanges ==
  ASSUME Types, NEW c \in Callers, Use(c) \/ Close(c) \/ Cancel(c) \/ CallerStep(c)
  PROVE  proc' = proc \/ (Spawn(c) /\ proc' # None) \/ (CloseClear(c) /\ proc' = None)
  <1>1. used.starts \in 0..MaxStarts
    BY DEF Types, Clients
  <1>2. Spawn(c) => proc' # None
    BY <1>1, Bounds DEF Spawn, None
  <1> QED BY <1>2 DEF CallerStep, Use, Close, Cancel, TakeInitLock, StartCheck, SpawnFails, StartReader, Notify, FinishInit,
      Send, Write, Receive, CloseCheck, CloseClear, CloseStop, CloseJoin, Closed, CloseRaised, client

\* Two live initialisations would hold the same lock.
LEMMA OneStart ==
  ASSUME Types, Locked, Noticed, ~Overlapped({"cancelled start"}), NEW c \in Callers, NEW d \in Callers,
         caller[c].why = "init", caller[d].why = "init"
  PROVE  c = d
  BY DEF Locked, Noticed

LEMMA CurrentKept ==
  ASSUME Types, Locked, Noticed, Current, NEW c \in Callers, Use(c) \/ Close(c) \/ Cancel(c) \/ CallerStep(c)
  PROVE  Current'
  <1> SUFFICES ASSUME ~Overlapped(Lost)', NEW d \in Callers
               PROVE  /\ caller'[d].at = "spawn" => proc' = None
                      /\ caller'[d].at = "clear" => caller'[d].gen = proc'
    BY DEF Current
  <1>1. /\ \A e \in Callers \ {c} : caller'[e] = caller[e]
        /\ ~Overlapped(Lost)
    BY OthersStay DEF Overlapped
  <1>2. ~Overlapped({"cancelled start"}) /\ ~Overlapped({"two closes"})
    BY <1>1 DEF Overlapped, Lost
  <1>3. \A e \in Callers : Role(caller[e]) /\ Role(caller'[e])
    BY CallerTypes DEF Types, Roles
  <1>4. \A e \in Callers : /\ caller[e].at = "spawn" => proc = None
                           /\ caller[e].at = "clear" => caller[e].gen = proc /\ proc # None
    BY <1>1, <1>3, Bounds DEF Current, Role, Gens, None
  <1>5. ASSUME caller'[d].at = "spawn" PROVE proc' = None
    <2>1. CASE Spawn(c)
      <3>1. d # c /\ caller[d].at = "spawn" /\ caller[c].at = "spawn"
        BY <1>1, <1>5, <2>1, Moves DEF Goes
      <3>2. caller[d].why = "init" /\ caller[c].why = "init"
        BY <1>3, <3>1 DEF Role, Initialising
      <3> QED BY <1>2, <3>1, <3>2, OneStart
    <2>2. CASE ~Spawn(c)
      <3>1. proc = None
        BY <1>1, <1>4, <1>5, Arrivals
      <3> QED BY <2>2, <3>1, ProcessChanges
    <2> QED BY <2>1, <2>2
  <1>6. ASSUME caller'[d].at = "clear" PROVE caller'[d].gen = proc'
    <2>1. CASE Spawn(c)
      <3>1. d # c /\ caller[d].at = "clear" /\ caller[c].at = "spawn"
        BY <1>1, <1>6, <2>1, Moves DEF Goes
      <3> QED BY <1>4, <3>1
    <2>2. CASE CloseClear(c)
      <3>1. d # c /\ caller[d].at = "clear" /\ caller[c].at = "clear"
        BY <1>1, <1>6, <2>2, Moves DEF Goes
      <3> QED BY <1>2, <3>1 DEF Noticed, Stopping
    <2>3. CASE proc' = proc
      <3>1. caller'[d].gen = proc
        BY <1>1, <1>4, <1>6, Arrivals
      <3> QED BY <2>3, <3>1
    <2> QED BY <2>1, <2>2, <2>3, ProcessChanges
  <1> QED BY <1>5, <1>6

LEMMA FinishingKept ==
  ASSUME Types, Noticed, Finishing, NEW c \in Callers, Use(c) \/ Close(c) \/ Cancel(c) \/ CallerStep(c)
  PROVE  Finishing'
  <1> SUFFICES ASSUME ~Overlapped(Stale)', NEW d \in Callers, caller'[d].at = "finish", ~caller'[d].detached
               PROVE  proc' # None
    BY DEF Finishing
  <1>1. /\ \A e \in Callers \ {c} : caller'[e] = caller[e]
        /\ ~Overlapped(Stale)
    BY OthersStay DEF Overlapped
  <1>2. ~Overlapped({"close and start"})
    BY <1>1 DEF Overlapped, Stale
  <1>3. CASE CloseClear(c)
    <2>1. d # c /\ caller[d].at = "finish" /\ ~caller[d].detached /\ c \in Stopping
      BY <1>1, <1>3, Moves DEF Goes, Stopping
    <2>2. caller[d].why = "init"
      BY <2>1 DEF Types, Roles, Role, Initialising
    <2> QED BY <1>2, <2>1, <2>2 DEF Noticed
  <1>4. CASE ~CloseClear(c)
    <2>1. (caller[d].at = "finish" /\ ~caller[d].detached) \/ proc # None
      <3>1. CASE d # c
        BY <1>1, <3>1
      <3>2. CASE d = c
        <4>1. caller'[d].why = "init"
          BY <3>2, Arrivals
        <4> QED BY <3>2, <4>1, Arrivals DEF TakeInitLock
      <3> QED BY <3>1, <3>2
    <2>2. proc # None
      BY <1>1, <2>1 DEF Finishing
    <2> QED BY <1>4, <2>2, ProcessChanges
  <1> QED BY <1>3, <1>4

\* The control invariants are inductive.
LEMMA NextControl == Types /\ Control /\ [Next]_vars => Control'
  <1> SUFFICES ASSUME Types, Control, [Next]_vars PROVE Control'
    OBVIOUS
  <1>1. Counted'
    BY CountedKept DEF Control
  <1>2. ASSUME NEW c \in Callers, Use(c) \/ Close(c) \/ Cancel(c) \/ CallerStep(c)
        PROVE  Locked' /\ Noticed' /\ Current' /\ Finishing'
    BY <1>2, LockedKept, NoticedKept, CurrentKept, FinishingKept DEF Control
  <1>3. ASSUME NEW g \in Gens, ReaderStep(g) \/ Answer(g) \/ Ask(g) \/ Crash(g)
        PROVE  Locked' /\ Noticed' /\ Current' /\ Finishing'
    <2>1. /\ \A c \in Callers : /\ caller'[c].at = caller[c].at /\ caller'[c].why = caller[c].why
                                /\ caller'[c].gen = caller[c].gen /\ caller'[c].detached = caller[c].detached
          /\ UNCHANGED <<proc, initLock>>
          /\ \A kinds : Overlapped(kinds) => Overlapped(kinds)'
      BY <1>3, TasksStay DEF Same, Overlapped
    <2>2. Stopping' = Stopping /\ \A c \in Callers : Closing(c)' <=> Closing(c)
      BY <2>1 DEF Stopping, Closing
    <2> QED BY <2>1, <2>2 DEF Control, Locked, Noticed, Current, Finishing
  <1>4. CASE UNCHANGED vars
    <2>1. UNCHANGED <<proc, initLock, caller, overlaps>>
      BY <1>4 DEF vars
    <2>2. Stopping' = Stopping /\ (\A c \in Callers : Closing(c)' <=> Closing(c))
          /\ \A kinds : Overlapped(kinds)' <=> Overlapped(kinds)
      BY <2>1 DEF Stopping, Closing, Overlapped
    <2>3. Locked' /\ Current' /\ Finishing'
      BY <2>1, <2>2 DEF Control, Locked, Current, Finishing
    <2>4. Noticed'
      BY <2>1, <2>2 DEF Control, Noticed
    <2> QED BY <1>1, <2>3, <2>4 DEF Control
  <1> QED BY <1>1, <1>2, <1>3, <1>4 DEF Next, Control

-----------------------------------------------------------------------------
(* Nothing is lost.                                                        *)

Tracked == Overlapped(Lost) \/
    \A g \in Gens : server[g] = "running" =>
        proc = g \/ \E c \in Callers : caller[c].at \in {"clear", "stop"} /\ caller[c].gen = g

\* Which processes run after a step.
LEMMA Running ==
  ASSUME Types, NEW c \in Callers, Use(c) \/ Close(c) \/ Cancel(c) \/ CallerStep(c),
         NEW g \in Gens, server'[g] = "running"
  PROVE  server[g] = "running" \/ (Spawn(c) /\ proc' = g)
  <1>1. CASE Spawn(c)
    BY <1>1 DEF Spawn, Types, Processes
  <1>2. CASE CloseStop(c)
    BY <1>2 DEF CloseStop, Types, Processes
  <1>3. CASE ~Spawn(c) /\ ~CloseStop(c)
    BY <1>3 DEF CallerStep, Use, Close, Cancel, TakeInitLock, StartCheck, SpawnFails, StartReader, Notify, FinishInit,
       Send, Write, Receive, CloseCheck, CloseClear, CloseJoin, Closed, CloseRaised, processes
  <1> QED BY <1>1, <1>2, <1>3

LEMMA TrackedKept == Types /\ Control /\ ServersAreTracked /\ [Next]_vars => ServersAreTracked'
  <1> SUFFICES ASSUME Types, Control, ServersAreTracked, [Next]_vars PROVE ServersAreTracked'
    OBVIOUS
  <1>1. Tracked
    BY DEF Tracked, Lost, ServersAreTracked
  <1>2. ASSUME NEW c \in Callers, Use(c) \/ Close(c) \/ Cancel(c) \/ CallerStep(c)
        PROVE  Tracked'
    <2> SUFFICES ASSUME ~Overlapped(Lost)', NEW g \in Gens, server'[g] = "running", proc' # g
                 PROVE  \E d \in Callers : caller'[d].at \in {"clear", "stop"} /\ caller'[d].gen = g
      BY DEF Tracked
    <2>1. (\A e \in Callers \ {c} : caller'[e] = caller[e]) /\ ~Overlapped(Lost)
      BY <1>2, OthersStay DEF Overlapped
    <2>2. server[g] = "running"
      BY <1>2, Running
    <2>3. CASE proc = g
      <3>1. proc # None
        BY <2>3, Bounds DEF Gens, None
      <3>2. CASE CloseClear(c)
        <4>1. caller'[c].at = "stop" /\ caller'[c].gen = caller[c].gen /\ caller[c].at = "clear"
          BY <3>2, Moves DEF Goes, Same
        <4> QED BY <2>1, <2>3, <4>1 DEF Control, Current
      <3>3. CASE Spawn(c)
        BY <2>1, <3>1, <3>3 DEF Spawn, Control, Current
      <3> QED BY <1>2, <2>3, <3>2, <3>3, ProcessChanges
    <2>4. CASE proc # g
      <3>1. PICK d \in Callers : caller[d].at \in {"clear", "stop"} /\ caller[d].gen = g
        BY <1>1, <2>1, <2>2, <2>4 DEF Tracked
      <3>2. CASE d # c
        BY <2>1, <3>1, <3>2
      <3>3. CASE d = c /\ ~CloseStop(c)
        <4>1. CloseClear(c) \/ Cancel(c)
          BY <1>2, <3>1, <3>3, Moves DEF CallerStep, Goes
        <4>2. caller'[c].at \in {"clear", "stop"} /\ caller'[c].gen = g
          BY <3>1, <3>3, <4>1, Moves DEF Goes, Same
        <4> QED BY <4>2
      <3>4. CASE d = c /\ CloseStop(c)
        \* It is stopped here, or it was gone before.
        <4>1. g \notin torn
          BY <2>2 DEF Control, Counted
        <4>2. server' = [server EXCEPT ![g] = "gone"]
          BY <3>1, <3>4, <4>1 DEF CloseStop
        <4> QED BY <4>2 DEF Types, Processes
      <3> QED BY <3>2, <3>3, <3>4
    <2> QED BY <2>3, <2>4
  <1>3. ASSUME NEW g \in Gens, ReaderStep(g) \/ Answer(g) \/ Ask(g) \/ Crash(g)
        PROVE  Tracked'
    <2>1. /\ \A c \in Callers : caller'[c].at = caller[c].at /\ caller'[c].gen = caller[c].gen
          /\ proc' = proc /\ (Overlapped(Lost) => Overlapped(Lost)')
      BY <1>3, TasksStay DEF Same, Overlapped
    <2>2. \A h \in Gens : server'[h] = "running" => server[h] = "running"
      <3>1. server' = server \/ server' = [server EXCEPT ![g] = "crashed"]
        BY <1>3 DEF ReaderStep, ReadMessage, RouteResponse, TakeServerRequest, HandlerReturns, HandlerRaises, Reply,
           ReadUnreadable, ReadEof, FailAll, Answer, Ask, Crash, processes
      <3> QED BY <3>1 DEF Types, Processes
    <2> QED BY <1>1, <2>1, <2>2 DEF Tracked
  <1>4. ASSUME UNCHANGED vars PROVE Tracked'
    BY <1>1, <1>4 DEF vars, Tracked, Overlapped
  <1>5. Tracked'
    BY <1>2, <1>3, <1>4 DEF Next
  <1> QED BY <1>5 DEF Tracked, Lost, ServersAreTracked

\* No app-server is left behind, however often it crashes, fails to start or is closed
\* during a start: only a start whose task is gone, or two closes at once, lose one.
THEOREM NoServerIsLost == Spec => []ServersAreTracked
  <1>1. Init => ServersAreTracked
    BY DEF Init, ServersAreTracked
  <1> QED BY <1>1, InitTypes, NextTypes, InitControl, NextControl, TrackedKept, PTL DEF Spec

-----------------------------------------------------------------------------
(* One process and one reader at a time.                                   *)

Holding == {"reading", "handling", "replying"}

\* A reader comes alive only with a start, and reads from the client's process.
LEMMA ReaderMoves ==
  ASSUME Types, NEW g \in Gens, ReaderStep(g) \/ Answer(g) \/ Ask(g) \/ Crash(g), NEW h \in Gens
  PROVE  /\ ReaderAlive(h)' => ReaderAlive(h)
         /\ reader'[h].at \in Holding => \/ reader[h].at \in Holding /\ reader'[h].of = reader[h].of
                                         \/ reader'[h].of = proc
  <1>1. reader \in [Gens -> [at : ReaderPlaces, of : Gens \cup {None}]]
    BY DEF Types, Processes
  <1> DEFINE r == reader[g]
  <1>2. r \in [at : ReaderPlaces, of : Gens \cup {None}]
    BY <1>1
  <1>3. CASE Answer(g) \/ Ask(g) \/ Crash(g)
    BY <1>3 DEF Answer, Ask, Crash, client, ReaderAlive
  <1>4. CASE ReadMessage(g) /\ proc # None
    <2>1. reader' = [reader EXCEPT ![g] = [at |-> "reading", of |-> proc]] /\ r.at = "loop"
      BY <1>4 DEF ReadMessage
    <2> QED BY <1>1, <2>1 DEF ReaderAlive
  <1>5. CASE ReaderStep(g) /\ ~(ReadMessage(g) /\ proc # None)
    <2>1. PICK where : /\ Reading(g, where)
                       /\ r.at \notin {"none", "dead"}
                       /\ where \in Holding => r.at \in Holding
      <3>1. CASE ReadMessage(g)
        <4>1. r.at = "loop" /\ proc = None
          BY <1>5, <3>1 DEF ReadMessage
        <4>2. Reading(g, "failing")
          BY <3>1, <4>1 DEF ReadMessage, Reading
        <4> QED BY <4>1, <4>2 DEF Holding
      <3>2. CASE RouteResponse(g) \/ TakeServerRequest(g) \/ HandlerReturns(g) \/ HandlerRaises(g)
        BY <3>2 DEF RouteResponse, TakeServerRequest, HandlerReturns, HandlerRaises, Holding
      <3>3. CASE Reply(g) \/ ReadUnreadable(g) \/ ReadEof(g) \/ FailAll(g)
        <4>1. PICK where \in {"loop", "failing", "dead"} : Reading(g, where)
          BY <3>3 DEF Reply, ReadUnreadable, ReadEof, FailAll
        <4>2. r.at \notin {"none", "dead"}
          BY <3>3 DEF Reply, ReadUnreadable, ReadEof, FailAll
        <4> QED BY <4>1, <4>2 DEF Holding
      <3> QED BY <1>5, <3>1, <3>2, <3>3 DEF ReaderStep
    <2> HIDE DEF r
    <2>2. [r EXCEPT !.at = where].at = where /\ [r EXCEPT !.at = where].of = r.of
      BY <1>2 DEF ReaderPlaces
    <2>3. h # g => reader'[h] = reader[h]
      BY <1>1, <2>1 DEF Reading
    <2>4. reader'[g] = [r EXCEPT !.at = where]
      BY <1>1, <2>1 DEF Reading, r
    <2> QED BY <2>1, <2>2, <2>3, <2>4 DEF ReaderAlive, r
  <1> QED BY <1>3, <1>4, <1>5

\* What a state without strays is like, beyond Orderly.
LEMMA Alone ==
  ASSUME Types, Control, Orderly, ~Overlapped(Strays)
  PROVE  /\ \A c, d \in Callers : caller[c].why = "init" /\ caller[d].why = "init" => c = d
         /\ \A c \in Callers : caller[c].why = "init" => Stopping = {} /\ ~caller[c].detached
         /\ \A c \in Callers : caller[c].at \in Initialising => caller[c].why = "init"
         /\ \A c \in Callers : caller[c].at # "raised"
         /\ \A c \in Callers : caller[c].at = "spawn" =>
              \A g \in Gens : server[g] # "running" /\ ~ReaderAlive(g)
  <1>1. /\ ~Overlapped({"cancelled start"}) /\ ~Overlapped({"close and start"})
        /\ ~Overlapped({"close raised"})
    BY DEF Overlapped, Strays
  <1>2. \A c, d \in Callers : caller[c].why = "init" /\ caller[d].why = "init" => c = d
    BY <1>1, OneStart DEF Control
  <1>3. \A c \in Callers : caller[c].why = "init" => Stopping = {} /\ ~caller[c].detached
    BY <1>1 DEF Control, Noticed
  <1>4. \A c \in Callers : caller[c].at \in Initialising => caller[c].why = "init"
    BY DEF Types, Roles, Role
  <1>5. \A c \in Callers : caller[c].at # "raised"
    BY <1>1 DEF Control, Noticed
  <1>6. ASSUME NEW c \in Callers, caller[c].at = "spawn", NEW g \in Gens
        PROVE  server[g] # "running" /\ ~ReaderAlive(g)
    <2>1. proc = None /\ Stopping = {}
      BY <1>3, <1>4, <1>6 DEF Orderly, Initialising
    <2> QED BY <2>1 DEF Orderly, Stopping
  <1> QED BY <1>2, <1>3, <1>4, <1>5, <1>6

\* A start keeps it so: nothing runs and nothing reads when it makes its process.
LEMMA SpawnKeepsOrder ==
  ASSUME Types, Control, Orderly, NEW c \in Callers, Spawn(c), ~Overlapped(Strays)'
  PROVE  Orderly'
  <1>1. (\A e \in Callers \ {c} : caller'[e] = caller[e]) /\ ~Overlapped(Strays)
    BY OthersStay DEF Overlapped, CallerStep
  <1>2. used.starts \in 0..MaxStarts /\ MaxStarts \in Nat
    BY Bounds DEF Types, Clients
  <1> DEFINE n == used.starts + 1
  <1>3. n \in Gens /\ n # None /\ used'.starts = n /\ proc' = n
    BY <1>2, Bounds DEF Spawn, Spend, Gens, None, Types, Clients
  <1>4. /\ caller[c].at = "spawn" /\ caller'[c].at = "reader" /\ caller'[c].gen = n
        /\ reader' = reader
    BY Moves DEF Goes, Spawn
  <1> HIDE DEF n
  <1>5. /\ caller[c].why = "init" /\ Stopping = {}
        /\ \A g \in Gens : server[g] # "running" /\ ~ReaderAlive(g)
    BY <1>1, <1>4, Alone DEF Initialising
  <1>6. \A g \in Gens : ~ReaderAlive(g)' /\ reader'[g].at \notin {"reading", "handling", "replying"}
    BY <1>4, <1>5 DEF ReaderAlive
  <1>7. \A g \in Gens : server'[g] = "running" => g = n
    BY <1>3, <1>5, Running DEF CallerStep
  <1>8. ASSUME NEW d \in Callers
        PROVE  /\ caller'[d].at \in {"clear", "stop", "reader"} => caller'[d].gen = n
               /\ caller'[d].at # "spawn"
    <2>1. CASE d = c
      BY <1>4, <2>1
    <2>2. CASE d # c
      <3>1. caller[d].at \notin Initialising
        BY <1>1, <1>5, <2>2, Alone
      <3> QED BY <1>1, <1>5, <2>2, <3>1 DEF Stopping, Initialising
    <2> QED BY <2>1, <2>2
  <1> QED BY <1>3, <1>6, <1>7, <1>8 DEF Orderly

\* The other steps of a task.
LEMMA TaskKeepsOrder ==
  ASSUME Types, Control, Orderly, NEW c \in Callers, Use(c) \/ Close(c) \/ Cancel(c) \/ CallerStep(c),
         ~Spawn(c), ~Overlapped(Strays)'
  PROVE  Orderly'
  <1>1. (\A e \in Callers \ {c} : caller'[e] = caller[e]) /\ ~Overlapped(Strays)
    BY OthersStay DEF Overlapped
  <1>2. Types' /\ Control'
    BY NextTypes, NextControl DEF Next
  <1>3. used'.starts = used.starts
    <2>1. \/ used' = used \/ used' = [used EXCEPT !.closes = @ + 1] \/ used' = [used EXCEPT !.events = @ + 1]
          \/ used' = [used EXCEPT !.cancels = @ + 1, !.events = @ + 1]
      BY DEF CallerStep, Use, Close, Cancel, TakeInitLock, StartCheck, SpawnFails, StartReader, Notify, FinishInit,
         Send, Write, Receive, CloseCheck, CloseClear, CloseStop, CloseJoin, Closed, CloseRaised, Spend
    <2> QED BY <2>1 DEF Types, Clients
  <1>4. proc' = proc \/ (CloseClear(c) /\ proc' = None)
    BY ProcessChanges
  <1>5. \A g \in Gens : server'[g] = "running" => server[g] = "running"
    BY Running
  <1>6. caller'[c].at # "raised"
    BY <1>1, <1>2 DEF Control, Noticed, Overlapped, Strays
  \* Without a close that raises, stop leads to join, and the process is gone.
  <1>7. CloseStop(c) => /\ caller'[c].at = "join"
                        /\ server' = [server EXCEPT ![caller[c].gen] = "gone"]
    BY <1>6, Moves DEF CloseStop
  <1>8. proc' \in {None, used'.starts}
    BY <1>1, <1>3, <1>4 DEF Orderly
  <1>9. ASSUME NEW g \in Gens, server'[g] = "running"
        PROVE  g = used'.starts /\ (proc' = None => \E d \in Callers : caller'[d].at \in {"clear", "stop"})
    <2>1. server[g] = "running" /\ g = used.starts
      BY <1>1, <1>5, <1>9 DEF Orderly
    <2>2. CASE CloseClear(c)
      BY <1>3, <2>1, <2>2, Moves DEF Goes
    <2>3. CASE ~CloseClear(c) /\ proc = None
      <3>1. PICK d \in Callers : caller[d].at \in {"clear", "stop"}
        BY <1>1, <2>1, <2>3 DEF Orderly
      <3>2. CASE d # c
        BY <1>1, <1>3, <2>1, <3>1, <3>2
      <3>3. CASE d = c /\ CloseStop(c)
        <4>1. caller[c].gen = g
          BY <1>1, <2>1, <3>1, <3>3 DEF Orderly
        <4> QED BY <1>7, <1>9, <3>3, <4>1 DEF Types, Processes
      <3>4. CASE d = c /\ ~CloseStop(c)
        <4>1. Cancel(c)
          BY <2>3, <3>1, <3>4, Moves DEF CallerStep, Goes
        <4> QED BY <1>3, <2>1, <3>1, <3>4, <4>1, Moves
      <3> QED BY <3>2, <3>3, <3>4
    <2> QED BY <1>3, <1>4, <2>1, <2>2, <2>3
  <1>10. ASSUME NEW g \in Gens
         PROVE  (reader'[g] = reader[g] /\ readerThread' = readerThread)
                \/ (StartReader(c) /\ proc # None /\ g # caller[c].gen /\ reader'[g] = reader[g])
                \/ (/\ StartReader(c) /\ proc # None /\ g = caller[c].gen
                    /\ reader'[g].at = "loop" /\ readerThread' = g)
    <2>1. CASE StartReader(c)
      <3>1. caller[c].gen \in Gens
        BY <2>1 DEF StartReader, Types, Roles, Role
      <3> QED BY <2>1, <3>1 DEF StartReader, Types, Processes
    <2>2. CASE ~StartReader(c)
      BY <2>2 DEF CallerStep, Use, Close, Cancel, TakeInitLock, StartCheck, SpawnFails, Notify, FinishInit,
         Send, Write, Receive, CloseCheck, CloseClear, CloseStop, CloseJoin, Closed, CloseRaised, client
    <2> QED BY <2>1, <2>2
  <1>11. StartReader(c) => /\ caller[c].at = "reader" /\ caller[c].gen = used.starts
                           /\ \A g \in Gens : ~ReaderAlive(g)
    BY <1>1 DEF StartReader, Orderly
  <1>12. ASSUME NEW g \in Gens, ReaderAlive(g)'
         PROVE  g = used'.starts /\ g = readerThread' /\ (proc' = None => Stopping' # {})
    <2>1. CASE StartReader(c)
      <3>1. proc # None /\ g = caller[c].gen /\ readerThread' = g
        BY <1>10, <1>11, <1>12, <2>1 DEF ReaderAlive
      <3>2. proc' = proc
        BY <2>1 DEF StartReader
      <3> QED BY <1>3, <1>11, <2>1, <3>1, <3>2
    <2>2. CASE ~StartReader(c)
      <3>1. ReaderAlive(g) /\ g = used.starts /\ g = readerThread /\ readerThread' = readerThread
        BY <1>1, <1>10, <1>12, <2>2 DEF ReaderAlive, Orderly
      <3>2. ASSUME proc' = None PROVE Stopping' # {}
        <4>1. CASE CloseClear(c)
          BY <4>1, Moves DEF Goes, Stopping
        <4>2. CASE ~CloseClear(c)
          <5>1. PICK d \in Callers : d \in Stopping
            BY <1>1, <1>4, <3>1, <3>2, <4>2 DEF Orderly, Stopping
          <5>2. CASE d # c
            BY <1>1, <5>1, <5>2 DEF Stopping
          <5>3. CASE d = c /\ CloseJoin(c)
            \* The reader it waits for is alive.
            <6>1. readerThread # None
              BY <3>1, Bounds DEF Gens, None
            <6> QED BY <3>1, <5>3, <6>1 DEF CloseJoin, Overlapped, Strays
          <5>4. CASE d = c /\ ~CloseJoin(c)
            <6>1. CloseStop(c) \/ Cancel(c)
              BY <4>2, <5>1, <5>4, Moves DEF CallerStep, Goes, Stopping
            <6>2. c \in Stopping'
              BY <1>7, <5>1, <5>4, <6>1, Moves DEF Stopping
            <6> QED BY <6>2
          <5> QED BY <5>2, <5>3, <5>4
        <4> QED BY <4>1, <4>2
      <3> QED BY <1>3, <3>1, <3>2
    <2> QED BY <2>1, <2>2
  <1>13. ASSUME NEW g \in Gens, reader'[g].at \in {"reading", "handling", "replying"}, proc' # None
         PROVE  reader'[g].of = proc'
    <2>1. proc' = proc /\ reader'[g] = reader[g]
      BY <1>4, <1>10, <1>13
    <2> QED BY <1>1, <1>13, <2>1 DEF Orderly
  <1>14. ASSUME NEW d \in Callers
         PROVE  /\ caller'[d].at \in {"clear", "stop", "reader"} => caller'[d].gen = used'.starts
                /\ caller'[d].at = "spawn" => proc' = None
                /\ caller'[d].at = "reader" => \A g \in Gens : ~ReaderAlive(g)'
    <2>1. ASSUME caller'[d].at \in {"clear", "stop", "reader"} PROVE caller'[d].gen = used.starts
      <3>1. \/ caller[d].at \in {"clear", "stop", "reader"} /\ caller'[d].gen = caller[d].gen
            \/ caller'[d].gen = proc /\ proc # None
        BY <1>1, <2>1, Moves DEF CallerStep, Goes, Same, Ends, Aborts
      <3> QED BY <1>1, <3>1 DEF Orderly
    <2>2. ASSUME caller'[d].at = "spawn" PROVE proc' = None
      BY <1>1, <1>4, <2>2, Arrivals DEF Orderly
    <2>3. ASSUME caller'[d].at = "reader" PROVE \A g \in Gens : ~ReaderAlive(g)'
      <3>1. caller[d].at = "reader"
        BY <1>1, <2>3, Moves DEF CallerStep, Goes, Same, Ends, Aborts
      <3>2. ~StartReader(c)
        <4>1. CASE d = c
          BY <2>3, <4>1, Moves DEF Ends
        <4>2. CASE d # c
          BY <1>1, <1>11, <3>1, <4>2, Alone DEF Initialising
        <4> QED BY <4>1, <4>2
      <3> QED BY <1>1, <1>10, <3>1, <3>2 DEF Orderly, ReaderAlive
    <2> QED BY <1>3, <2>1, <2>2, <2>3
  <1> QED BY <1>8, <1>9, <1>12, <1>13, <1>14 DEF Orderly

LEMMA OrderlyKept == Types /\ Control /\ Orderly /\ [Next]_vars => Orderly'
  <1> SUFFICES ASSUME Types, Control, Orderly, [Next]_vars, ~Overlapped(Strays)' PROVE Orderly'
    BY DEF Orderly
  <1>1. ASSUME NEW c \in Callers, Use(c) \/ Close(c) \/ Cancel(c) \/ CallerStep(c)
        PROVE  Orderly'
    BY <1>1, SpawnKeepsOrder, TaskKeepsOrder
  <1>2. ASSUME NEW g \in Gens, ReaderStep(g) \/ Answer(g) \/ Ask(g) \/ Crash(g)
        PROVE  Orderly'
    <2>1. /\ \A c \in Callers : caller'[c].at = caller[c].at /\ caller'[c].gen = caller[c].gen
          /\ UNCHANGED <<proc, readerThread>> /\ used'.starts = used.starts
          /\ ~Overlapped(Strays)
      BY <1>2, TasksStay DEF Same, Overlapped
    <2>2. Stopping' = Stopping
      BY <2>1 DEF Stopping
    <2>3. \A h \in Gens : server'[h] = "running" => server[h] = "running"
      <3>1. server' = server \/ server' = [server EXCEPT ![g] = "crashed"]
        BY <1>2 DEF ReaderStep, ReadMessage, RouteResponse, TakeServerRequest, HandlerReturns, HandlerRaises, Reply,
           ReadUnreadable, ReadEof, FailAll, Answer, Ask, Crash, processes
      <3> QED BY <3>1 DEF Types, Processes
    <2>4. \A h \in Gens : /\ ReaderAlive(h)' => ReaderAlive(h)
                          /\ reader'[h].at \in Holding => \/ reader[h].at \in Holding /\ reader'[h].of = reader[h].of
                                                          \/ reader'[h].of = proc
      BY <1>2, ReaderMoves
    <2> QED BY <2>1, <2>2, <2>3, <2>4 DEF Orderly, Holding
  <1>3. CASE UNCHANGED vars
    BY <1>3 DEF vars, Orderly, Overlapped, ReaderAlive, Stopping
  <1> QED BY <1>1, <1>2, <1>3 DEF Next

\* The answer of the approval handler goes to the process that asked: one process and
\* one reader at a time, unless a reader or a start has been left behind.
THEOREM RepliesAreAsked == Spec => RepliesGoToTheAsker
  <1>1. ASSUME Types, Control, Orderly, [Next]_vars, NEW g \in Gens,
               reader[g].at = "replying", reader'[g].at = "loop", ~Overlapped(Strays)
        PROVE  reader[g].of = proc
    <2>1. proc # None
      <3>1. ASSUME NEW c \in Callers, Use(c) \/ Close(c) \/ Cancel(c) \/ CallerStep(c) PROVE FALSE
        <4>1. StartReader(c)
          BY <1>1, <3>1 DEF CallerStep, Use, Close, Cancel, TakeInitLock, StartCheck, Spawn, SpawnFails, Notify, FinishInit,
             Send, Write, Receive, CloseCheck, CloseClear, CloseStop, CloseJoin, Closed, CloseRaised, client
        <4> QED BY <1>1, <4>1 DEF StartReader, Orderly, ReaderAlive
      <3>2. ASSUME NEW h \in Gens, ReaderStep(h) \/ Answer(h) \/ Ask(h) \/ Crash(h) PROVE proc # None
        <4>1. Reply(h)
          BY <1>1, <3>2 DEF ReaderStep, ReadMessage, RouteResponse, TakeServerRequest, HandlerReturns, HandlerRaises,
             Reading, ReadUnreadable, ReadEof, FailAll, Answer, Ask, Crash, client, Types, Processes
        <4>2. h = g
          BY <1>1, <4>1 DEF Reply, Reading, Types, Processes
        <4>3. Writable
          BY <1>1, <4>1, <4>2 DEF Reply, Reading, Types, Processes
        <4> QED BY <4>3 DEF Writable
      <3> QED BY <1>1, <3>1, <3>2 DEF Next, vars
    <2> QED BY <1>1, <2>1 DEF Orderly
  <1>2. Types /\ Control /\ Orderly /\ [Next]_vars =>
          [\A g \in Gens : reader[g].at = "replying" /\ reader'[g].at = "loop"
                           => reader[g].of = proc \/ Overlapped(Strays)]_vars
    BY <1>1
  <1> QED BY <1>2, InitTypes, NextTypes, InitControl, NextControl, OrderlyKept, PTL DEF Spec, RepliesGoToTheAsker

\* The failure of one process does not reach a request that another, running one holds.
THEOREM FailuresStayWithTheirProcess == Spec => FailuresAreOwn
  <1>1. ASSUME Types, Orderly, NEW c \in Callers, NEW g \in Gens, reader[g].at = "failing",
               caller[c].at = "wait", server[caller[c].gen] = "running", ~Overlapped(Strays)
        PROVE  caller[c].gen = g
    <2>1. caller[c].gen \in Gens
      BY <1>1 DEF Types, Roles, Role
    <2> QED BY <1>1, <2>1 DEF Orderly, ReaderAlive
  <1>2. Types /\ Orderly /\ [Next]_vars =>
          [\A c \in Callers, g \in Gens :
             /\ reader[g].at = "failing" /\ reader'[g].at = "dead"
             /\ caller[c].at = "wait" /\ caller[c].result = "none" /\ caller'[c].result = "failed"
             /\ server[caller[c].gen] = "running"
             => caller[c].gen \in {g, reader[g].of} \/ Overlapped(Strays)]_vars
    BY <1>1
  <1> QED BY <1>2, InitTypes, NextTypes, InitControl, NextControl, OrderlyKept, PTL DEF Spec, FailuresAreOwn

-----------------------------------------------------------------------------
(* retry_on_overload: however often a use is tried, and whatever is        *)
(* closed, cancelled, restarted or crashes meanwhile, no server carries it *)
(* out twice.                                                              *)

\* The task has an operation, of which no request is on its way.
Open(t) == t.at \in Asking /\ ~(t.at = "wait" /\ t.why = "op")
Waits(t) == t.at = "wait" /\ t.why = "op"
IsFor(id, c, o) == id.why = "op" /\ id.caller = c /\ id.op = o

\* Operation o of c has not been carried out, and no server will take a request for it.
Undone(c, o) == /\ ran[c][o] = 0
                /\ \A g \in Gens : \A i \in 1..Len(stdin[g]) : ~IsFor(stdin[g][i], c, o)

\* An operation is tried when it is undone, and tried again only when it still is.
TriedBy(c, t) ==
    /\ Open(t) => Undone(c, t.op)
    /\ Waits(t) /\ t.result = "busy" => Undone(c, t.op)
    /\ t.at = "write" /\ t.why = "op" => t.result # "busy"
Tried == \A c \in Callers : TriedBy(c, caller[c])
\* The router has a waiter for what a task has not been answered, and for nothing else.
Awaited == \A id \in waiters :
    /\ id = Id(id.caller) /\ caller[id.caller].at \in {"write", "wait"}
    /\ caller[id.caller].result = "none"
\* Requests that a server has still to take are for operations it has not carried out.
Taken(id) == id.why = "op" =>
    /\ ran[id.caller][id.op] = 0 /\ id.op <= caller[id.caller].op
    /\ id.op = caller[id.caller].op /\ Waits(caller[id.caller]) => id.try <= caller[id.caller].try
Pending == \A g \in Gens : \A i \in 1..Len(stdin[g]) : Taken(stdin[g][i])
Single == \A g, h \in Gens : \A i \in 1..Len(stdin[g]), j \in 1..Len(stdin[h]) :
    /\ stdin[g][i].why = "op" /\ stdin[h][j].why = "op"
    /\ stdin[g][i].caller = stdin[h][j].caller /\ stdin[g][i].op = stdin[h][j].op
    => g = h /\ i = j
\* An answer is to an earlier try, or to this one; "busy" to this one means undone.
Told(line) == line.kind = "response" /\ line.id.why = "op" =>
    LET t == caller[line.id.caller]
    IN  /\ line.id.op <= t.op
        /\ line.id.op = t.op =>
             /\ Open(t) => line.id.try < t.try
             /\ Waits(t) => /\ line.id.try <= t.try
                            /\ line.id.try = t.try /\ line.value = "busy" => Undone(line.id.caller, t.op)
Answered == \A g \in Gens : \A i \in 1..Len(stdout[g]) : Told(stdout[g][i])
\* Nothing has been carried out before it was asked for.
Future == \A c \in Callers, o \in 1..MaxOps : caller[c].op < o => ran[c][o] = 0
Retrying == Tried /\ Awaited /\ Pending /\ Single /\ Answered /\ Future /\ AtMostOnce

-----------------------------------------------------------------------------
(* What types say of tasks, requests and answers.                          *)

LEMMA Typed ==
  ASSUME Types
  PROVE  /\ \A c \in Callers : /\ caller[c] \in Tasks /\ caller[c].op \in 0..MaxOps
                               /\ caller[c].try \in 0..MaxAttempts
                               /\ caller[c].at \in Asking => caller[c].op \in 1..MaxOps
                               /\ caller[c].at \in Asking => caller[c].why \in {"op", "init"}
         /\ \A id \in Ids : id.caller \in Callers /\ id.op \in 1..MaxOps /\ id.try \in 1..MaxAttempts
         /\ \A g \in Gens : \A i \in 1..Len(stdin[g]) : stdin[g][i] \in Ids
         /\ \A g \in Gens : Len(stdin[g]) \in Nat /\ Len(stdout[g]) \in Nat
         /\ \A g \in Gens : \A i \in 1..Len(stdout[g]) :
              /\ stdout[g][i] \in Lines
              /\ stdout[g][i].kind = "response" => stdout[g][i].id \in Ids /\ stdout[g][i].value \in {"ok", "busy", "failed"}
         /\ waiters \subseteq Ids
         /\ MaxOps \in Nat /\ MaxAttempts \in Nat
  <1>1. /\ waiters \subseteq Ids /\ MaxOps \in Nat /\ MaxAttempts \in Nat
        /\ \A c \in Callers : caller[c] \in Tasks /\ Role(caller[c])
    BY Bounds DEF Types, Clients, Roles
  <1>2. ASSUME NEW c \in Callers
        PROVE  /\ caller[c].op \in 0..MaxOps /\ caller[c].try \in 0..MaxAttempts
               /\ caller[c].at \in Asking => caller[c].op \in 1..MaxOps /\ caller[c].why \in {"op", "init"}
    <2>1. caller[c].op \in 0..MaxOps /\ caller[c].try \in 0..MaxAttempts
      BY <1>1 DEF Tasks
    <2> QED BY <1>1, <2>1 DEF Role
  <1>3. \A id \in Ids : id.caller \in Callers /\ id.op \in 1..MaxOps /\ id.try \in 1..MaxAttempts
    BY DEF Ids
  <1>4. ASSUME NEW g \in Gens
        PROVE  /\ Len(stdin[g]) \in Nat /\ Len(stdout[g]) \in Nat
               /\ \A i \in 1..Len(stdin[g]) : stdin[g][i] \in Ids
               /\ \A i \in 1..Len(stdout[g]) : stdout[g][i] \in Lines
    <2>1. stdin[g] \in Seq(Ids) /\ stdout[g] \in Seq(Lines)
      BY DEF Types, Processes
    <2> QED BY <2>1
  <1>5. \A line \in Lines : line.kind = "response" => line.id \in Ids /\ line.value \in {"ok", "busy", "failed"}
    BY DEF Lines
  <1> QED BY <1>1, <1>2, <1>3, <1>4, <1>5

LEMMA InitRetrying == Init => Retrying
  <1> SUFFICES ASSUME Init PROVE Retrying
    OBVIOUS
  <1>1. \A c \in Callers : caller[c].at = "idle" /\ ran[c] = [o \in 1..MaxOps |-> 0]
    BY DEF Init, Idle
  <1>2. \A g \in Gens : stdin[g] = <<>> /\ stdout[g] = <<>>
    BY DEF Init
  <1>3. Tried
    BY <1>1 DEF Tried, TriedBy, Open, Waits, Asking, Initialising
  <1>4. Awaited
    BY DEF Init, Awaited
  <1>5. Pending /\ Single /\ Answered
    BY <1>2 DEF Pending, Single, Answered
  <1>6. Future /\ AtMostOnce
    BY <1>1, Bounds DEF AtMostOnce, Future
  <1> QED BY <1>3, <1>4, <1>5, <1>6 DEF Retrying

-----------------------------------------------------------------------------
(* Steps that send nothing.                                                *)

\* What has been sent stays, or is lost with its process.
Fewer == \A g \in Gens : stdin'[g] = stdin[g] \/ stdin'[g] = <<>>

LEMMA UndoneStays ==
  ASSUME Fewer, ran' = ran, NEW c, NEW o, Undone(c, o)
  PROVE  Undone(c, o)'
  BY DEF Fewer, Undone, IsFor

\* A task goes on before its request, or ends.
Passes(c) == /\ caller'[c].op = caller[c].op
             /\ \/ /\ Open(caller[c]) /\ Open(caller'[c])
                   /\ caller'[c].try = caller[c].try /\ caller'[c].at # "write"
                \/ caller'[c].at \notin Asking

LEMMA Passing ==
  ASSUME Types, Types', Retrying, NEW c \in Callers, \A d \in Callers \ {c} : caller'[d] = caller[d],
         Passes(c), waiters' \subseteq waiters, \A id \in waiters' : id.caller # c,
         Fewer, ran' = ran, stdout' = stdout
  PROVE  Retrying'
  <1>1. ~Waits(caller'[c]) /\ caller'[c].at # "write"
    BY DEF Passes, Open, Waits, Asking, Initialising
  <1>2. Tried'
    <2>1. ASSUME NEW d \in Callers, NEW u, u = caller'[d] PROVE TriedBy(d, u)'
      <3>1. CASE d = c
        <4>1. Open(u) => Undone(c, u.op)
          BY <2>1, <3>1 DEF Passes, Retrying, Tried, TriedBy, Open
        <4> QED BY <1>1, <2>1, <3>1, <4>1, UndoneStays DEF TriedBy
      <3>2. CASE d # c
        <4>1. TriedBy(d, u)
          BY <2>1, <3>2 DEF Retrying, Tried
        <4> QED BY <4>1, UndoneStays DEF TriedBy
      <3> QED BY <3>1, <3>2
    <2> QED BY <2>1 DEF Tried
  <1>3. Awaited'
    BY Typed DEF Retrying, Awaited, Id
  <1>4. Pending'
    <2> SUFFICES ASSUME NEW g \in Gens, NEW i \in 1..Len(stdin'[g]) PROVE Taken(stdin[g][i])' /\ stdin'[g] = stdin[g]
      BY DEF Pending, Taken
    <2>1. stdin'[g] = stdin[g] /\ Taken(stdin[g][i]) /\ stdin[g][i] \in Ids
      BY Typed DEF Fewer, Retrying, Pending
    <2>2. stdin[g][i].caller \in Callers
      BY <2>1 DEF Ids
    <2> QED BY <1>1, <2>1, <2>2 DEF Taken, Passes, Waits
  <1>5. Single'
    BY DEF Retrying, Single, Fewer
  <1>6. Answered'
    <2> SUFFICES ASSUME NEW g \in Gens, NEW i \in 1..Len(stdout[g]) PROVE Told(stdout[g][i])'
      BY DEF Answered, Told
    <2>1. Told(stdout[g][i]) /\ (stdout[g][i].kind = "response" => stdout[g][i].id.caller \in Callers)
      BY Typed DEF Retrying, Answered
    <2>2. CASE stdout[g][i].id.caller = c
      BY <1>1, <2>1, <2>2 DEF Told, Passes, Open
    <2>3. CASE stdout[g][i].id.caller # c
      BY <2>1, <2>3, UndoneStays DEF Told
    <2> QED BY <2>2, <2>3
  <1>7. Future' /\ AtMostOnce'
    BY DEF Retrying, Future, AtMostOnce, Passes
  <1> QED BY <1>2, <1>3, <1>4, <1>5, <1>6, <1>7 DEF Retrying

\* Tasks stay where they are, as far as requests go; some get a result.
Alike(c) == /\ caller'[c].at = caller[c].at /\ caller'[c].why = caller[c].why
            /\ caller'[c].op = caller[c].op /\ caller'[c].try = caller[c].try
LEMMA Staying ==
  ASSUME Types, Types', Retrying,
         \A c \in Callers : Alike(c) /\ (caller'[c].result = caller[c].result \/ TriedBy(c, caller'[c])),
         waiters' \subseteq waiters, \A id \in waiters' : caller'[id.caller].result = caller[id.caller].result,
         Fewer, ran' = ran,
         \A g \in Gens : \A i \in 1..Len(stdout'[g]) :
             stdout'[g][i].kind = "response" => \E j \in 1..Len(stdout[g]) : stdout'[g][i] = stdout[g][j]
  PROVE  Retrying'
  <1>1. \A c \in Callers : /\ Open(caller'[c]) = Open(caller[c]) /\ Waits(caller'[c]) = Waits(caller[c])
                           /\ Id(c)' = Id(c)
    BY DEF Alike, Open, Waits, Id
  <1>2. Tried'
    <2> SUFFICES ASSUME NEW d \in Callers, NEW u, u = caller'[d] PROVE TriedBy(d, u)'
      BY DEF Tried
    <2>1. TriedBy(d, caller[d])
      BY DEF Retrying, Tried
    <2>2. TriedBy(d, u)
      BY <1>1, <2>1 DEF TriedBy, Alike
    <2> QED BY <2>2, UndoneStays DEF TriedBy
  <1>3. Awaited'
    BY <1>1, Typed DEF Retrying, Awaited, Alike
  <1>4. Pending'
    <2> SUFFICES ASSUME NEW g \in Gens, NEW i \in 1..Len(stdin'[g]) PROVE Taken(stdin[g][i])' /\ stdin'[g] = stdin[g]
      BY DEF Pending, Taken
    <2>1. stdin'[g] = stdin[g] /\ Taken(stdin[g][i]) /\ stdin[g][i].caller \in Callers
      BY Typed DEF Fewer, Retrying, Pending
    <2> QED BY <1>1, <2>1 DEF Taken, Alike
  <1>5. Single'
    BY SMTT(30) DEF Retrying, Single, Fewer
  <1>6. Answered'
    <2> SUFFICES ASSUME NEW g \in Gens, NEW i \in 1..Len(stdout'[g]), NEW line, line = stdout'[g][i] PROVE Told(line)'
      BY DEF Answered, Told
    <2>1. ASSUME line.kind = "response" PROVE Told(line) /\ line.id.caller \in Callers
      BY <2>1, Typed DEF Retrying, Answered
    <2> QED BY <1>1, <2>1, UndoneStays DEF Told, Alike
  <1>7. Future' /\ AtMostOnce'
    BY DEF Retrying, Future, AtMostOnce, Alike
  <1> QED BY <1>2, <1>3, <1>4, <1>5, <1>6, <1>7 DEF Retrying

-----------------------------------------------------------------------------
(* A task tries an operation.                                              *)

\* It has a new operation, or tries the one that was refused anew.
Renews(c) == /\ Open(caller'[c]) /\ caller'[c].at # "write" /\ caller'[c].op \in 1..MaxOps
             /\ \/ caller'[c].op = caller[c].op + 1
                \/ /\ caller'[c].op = caller[c].op /\ caller'[c].try = caller[c].try + 1
                   /\ Waits(caller[c]) /\ caller[c].result = "busy"

LEMMA Renewing ==
  ASSUME Types, Types', Retrying, NEW c \in Callers, \A d \in Callers \ {c} : caller'[d] = caller[d],
         Renews(c), waiters' = waiters, \A id \in waiters : id.caller # c, UNCHANGED processes
  PROVE  Retrying'
  <1>1. Fewer /\ ran' = ran /\ stdout' = stdout /\ stdin' = stdin
    BY DEF processes, Fewer
  <1>2. Undone(c, caller'[c].op)
    <2>1. CASE caller'[c].op = caller[c].op + 1
      <3>1. caller[c].op \in 0..MaxOps /\ caller[c].op < caller'[c].op
        BY <2>1, Typed
      <3>2. ASSUME NEW g \in Gens, NEW i \in 1..Len(stdin[g]) PROVE ~IsFor(stdin[g][i], c, caller'[c].op)
        BY <2>1, <3>1, Typed DEF Retrying, Pending, Taken, IsFor
      <3> QED BY <3>1, <3>2 DEF Undone, Renews, Retrying, Future
    <2>2. CASE Waits(caller[c]) /\ caller[c].result = "busy" /\ caller'[c].op = caller[c].op
      BY <2>2 DEF Retrying, Tried, TriedBy
    <2> QED BY <2>1, <2>2 DEF Renews
  <1>3. Tried'
    <2> SUFFICES ASSUME NEW d \in Callers, NEW u, u = caller'[d] PROVE TriedBy(d, u)'
      BY DEF Tried
    <2>1. CASE d = c
      BY <1>1, <1>2, <2>1, UndoneStays DEF TriedBy, Renews, Open, Waits
    <2>2. CASE d # c
      <3>1. TriedBy(d, u)
        BY <2>2 DEF Retrying, Tried
      <3> QED BY <1>1, <3>1, UndoneStays DEF TriedBy
    <2> QED BY <2>1, <2>2
  <1>4. Awaited'
    BY Typed DEF Retrying, Awaited, Id
  <1>5. Pending'
    <2> SUFFICES ASSUME NEW g \in Gens, NEW i \in 1..Len(stdin[g]) PROVE Taken(stdin[g][i])'
      BY <1>1 DEF Pending, Taken
    <2>1. Taken(stdin[g][i]) /\ stdin[g][i] \in Ids /\ stdin[g][i].op \in Nat
      BY Typed DEF Retrying, Pending
    <2>2. caller[c].op \in 0..MaxOps /\ (caller'[c].op = caller[c].op \/ caller'[c].op = caller[c].op + 1)
      BY Typed DEF Renews
    <2>3. ~Waits(caller'[c])
      BY DEF Renews, Open, Waits
    <2>4. PICK id \in Ids : id = stdin[g][i]
      BY <2>1
    <2>5. CASE id.caller = c
      BY <1>1, <2>1, <2>2, <2>3, <2>4, <2>5 DEF Taken
    <2>6. CASE id.caller # c
      BY <1>1, <2>1, <2>4, <2>6, Typed DEF Taken
    <2> QED BY <2>4, <2>5, <2>6
  <1>6. Single'
    BY <1>1 DEF Retrying, Single
  <1>7. Answered'
    <2> SUFFICES ASSUME NEW g \in Gens, NEW i \in 1..Len(stdout[g]), NEW line, line = stdout[g][i] PROVE Told(line)'
      BY <1>1 DEF Answered, Told
    <2>1. Told(line) /\ (line.kind = "response" => line.id \in Ids)
      BY Typed DEF Retrying, Answered
    <2>2. CASE line.kind = "response" /\ line.id.caller = c
      <3>1. /\ line.id.op \in 1..MaxOps /\ line.id.try \in 1..MaxAttempts /\ caller[c].op \in 0..MaxOps
            /\ caller[c].try \in 0..MaxAttempts
        BY <2>1, <2>2, Typed
      <3>2. ~Waits(caller'[c])
        BY DEF Renews, Open, Waits
      <3> QED BY <2>1, <2>2, <3>1, <3>2 DEF Told, Renews
    <2>3. CASE line.kind = "response" /\ line.id.caller # c
      BY <1>1, <2>1, <2>3, Typed, UndoneStays DEF Told
    <2>4. CASE line.kind # "response"
      BY <2>4 DEF Told
    <2> QED BY <2>2, <2>3, <2>4
  <1>8. Future' /\ AtMostOnce'
    <2>1. \A o \in 1..MaxOps : caller'[c].op < o => caller[c].op < o
      BY Typed DEF Renews
    <2> QED BY <1>1, <2>1 DEF Retrying, Future, AtMostOnce
  <1> QED BY <1>3, <1>4, <1>5, <1>6, <1>7, <1>8 DEF Retrying

LEMMA Sending ==
  ASSUME Types, Types', Retrying, NEW c \in Callers, Send(c)
  PROVE  Retrying'
  <1>1. PICK t \in Tasks : t = caller[c] /\ t.at = "send"
    BY Typed DEF Send
  <1>2. PICK u : u = [t EXCEPT !.at = "write", !.result = "none"]
    OBVIOUS
  <1>3. /\ u.at = "write" /\ u.result = "none" /\ u.why = t.why /\ u.op = t.op /\ u.try = t.try
        /\ caller'[c] = u /\ \A d \in Callers \ {c} : caller'[d] = caller[d]
    <2>1. caller' = [caller EXCEPT ![c] = u] /\ caller \in [Callers -> Tasks]
      BY <1>1, <1>2 DEF Send, Types, Clients
    <2>2. u.at = "write" /\ u.result = "none" /\ u.why = t.why /\ u.op = t.op /\ u.try = t.try
      BY <1>2 DEF Tasks
    <2> QED BY <2>1, <2>2
  <1>4. Open(t) /\ Open(u)
    BY <1>1, <1>3 DEF Open, Asking, Initialising
  <1>5. waiters' = waiters \cup {Id(c)} /\ stdin' = stdin /\ stdout' = stdout /\ ran' = ran /\ Fewer
    BY DEF Send, processes, Fewer
  <1>6. Tried'
    <2> SUFFICES ASSUME NEW d \in Callers, NEW v, v = caller'[d] PROVE TriedBy(d, v)'
      BY DEF Tried
    <2>1. CASE d = c
      <3>1. Undone(c, u.op)
        BY <1>1, <1>3, <1>4 DEF Retrying, Tried, TriedBy
      <3> QED BY <1>3, <1>5, <2>1, <3>1, UndoneStays DEF TriedBy
    <2>2. CASE d # c
      <3>1. TriedBy(d, v)
        BY <1>3, <2>2 DEF Retrying, Tried
      <3> QED BY <1>5, <3>1, UndoneStays DEF TriedBy
    <2> QED BY <2>1, <2>2
  <1>7. Awaited'
    <2>1. \A id \in waiters : id.caller # c /\ id.caller \in Callers
      BY <1>1, Typed DEF Retrying, Awaited
    <2>2. Id(c)' = Id(c) /\ Id(c).caller = c
      BY <1>1, <1>3 DEF Id
    <2>3. \A id \in waiters : Id(id.caller)' = Id(id.caller)
      BY <1>3, <2>1 DEF Id
    <2>4. ASSUME NEW id \in waiters PROVE /\ id = Id(id.caller)' /\ caller'[id.caller].at \in {"write", "wait"}
                                          /\ caller'[id.caller].result = "none"
      BY <1>3, <2>1, <2>3 DEF Retrying, Awaited
    <2> QED BY <1>3, <1>5, <2>2, <2>4 DEF Awaited
  <1>8. Pending'
    <2> SUFFICES ASSUME NEW g \in Gens, NEW i \in 1..Len(stdin[g]) PROVE Taken(stdin[g][i])'
      BY <1>5 DEF Pending, Taken
    <2>1. Taken(stdin[g][i]) /\ stdin[g][i].caller \in Callers
      BY Typed DEF Retrying, Pending
    <2>2. ~Waits(u)
      BY <1>3 DEF Waits
    <2> QED BY <1>1, <1>3, <1>5, <2>1, <2>2 DEF Taken
  <1>9. Single'
    BY <1>5 DEF Retrying, Single
  <1>10. Answered'
    <2> SUFFICES ASSUME NEW g \in Gens, NEW i \in 1..Len(stdout[g]), NEW line, line = stdout[g][i] PROVE Told(line)'
      BY <1>5 DEF Answered, Told
    <2>1. Told(line) /\ (line.kind = "response" => line.id.caller \in Callers)
      BY Typed DEF Retrying, Answered
    <2>2. ~Waits(u)
      BY <1>3 DEF Waits
    <2>3. CASE line.id.caller = c
      BY <1>1, <1>3, <1>4, <2>1, <2>2, <2>3 DEF Told
    <2>4. CASE line.id.caller # c
      BY <1>3, <1>5, <2>1, <2>4, UndoneStays DEF Told
    <2> QED BY <2>3, <2>4
  <1>11. Future' /\ AtMostOnce'
    BY <1>1, <1>3, <1>5 DEF Retrying, Future, AtMostOnce
  <1> QED BY <1>6, <1>7, <1>8, <1>9, <1>10, <1>11 DEF Retrying

LEMMA Writing ==
  ASSUME Types, Types', Retrying, NEW c \in Callers, Write(c), Writable
  PROVE  Retrying'
  <1>1. PICK t \in Tasks : t = caller[c] /\ t.at = "write" /\ t.op \in 1..MaxOps
    BY Typed DEF Write, Asking
  <1>2. PICK u : u = [t EXCEPT !.at = "wait", !.gen = proc]
    OBVIOUS
  <1>3. /\ u.at = "wait" /\ u.result = t.result /\ u.why = t.why /\ u.op = t.op /\ u.try = t.try
        /\ caller'[c] = u /\ \A d \in Callers \ {c} : caller'[d] = caller[d]
    <2>1. caller' = [caller EXCEPT ![c] = u] /\ caller \in [Callers -> Tasks]
      BY <1>1, <1>2 DEF Write, Types, Clients
    <2>2. u.at = "wait" /\ u.result = t.result /\ u.why = t.why /\ u.op = t.op /\ u.try = t.try
      BY <1>2 DEF Tasks
    <2> QED BY <2>1, <2>2
  <1>4. PICK id \in Ids : id = Id(c) /\ id.caller = c /\ id.why = t.why /\ id.op = t.op /\ id.try = t.try
    BY <1>1, IdTypes DEF Id, Asking
  <1>5. waiters' = waiters /\ stdout' = stdout /\ ran' = ran
    BY DEF Write
  <1>6. PICK p \in Gens, n \in Nat :
          /\ n = Len(stdin[p]) /\ Len(stdin'[p]) = n + 1 /\ stdin'[p][n + 1] = id
          /\ \A i \in 1..n : stdin'[p][i] = stdin[p][i]
          /\ \A g \in Gens \ {p} : stdin'[g] = stdin[g]
    <2>1. proc \in Gens /\ stdin' = [stdin EXCEPT ![proc] = Append(stdin[proc], id)]
      BY <1>4 DEF Write, Writable, Types, Processes
    <2>2. stdin \in [Gens -> Seq(Ids)]
      BY DEF Types, Processes
    <2>3. PICK s \in Seq(Ids) : s = stdin[proc] /\ stdin'[proc] = Append(s, id)
      BY <2>1, <2>2
    <2> QED BY <2>1, <2>2, <2>3
  <1>kept. ASSUME NEW g \in Gens, NEW i \in 1..Len(stdin'[g]), ~(g = p /\ i = n + 1)
         PROVE  i \in 1..Len(stdin[g]) /\ stdin'[g][i] = stdin[g][i]
    <2>1. CASE g = p
      BY <1>6, <1>kept, <2>1
    <2>2. CASE g # p
      BY <1>6, <2>2
    <2> QED BY <2>1, <2>2
  <1>7. Open(t) /\ Undone(c, t.op) /\ (t.why = "op" => t.result # "busy")
    <2>1. Open(t)
      BY <1>1 DEF Open, Asking
    <2> QED BY <1>1, <2>1 DEF Retrying, Tried, TriedBy
  \* Only what is undone and of c is about the new request.
  <1>8. ASSUME NEW d, NEW o, Undone(d, o), ~IsFor(id, d, o) PROVE Undone(d, o)'
    <2> SUFFICES ASSUME NEW g \in Gens, NEW i \in 1..Len(stdin'[g]) PROVE ~IsFor(stdin'[g][i], d, o)
      BY <1>5, <1>8 DEF Undone, IsFor
    <2>1. CASE g = p /\ i = n + 1
      BY <1>6, <1>8, <2>1
    <2>2. CASE ~(g = p /\ i = n + 1)
      BY <1>8, <1>kept, <2>2 DEF Undone
    <2> QED BY <2>1, <2>2
  <1>9. Tried'
    <2> SUFFICES ASSUME NEW d \in Callers, NEW v, v = caller'[d] PROVE TriedBy(d, v)'
      BY DEF Tried
    <2>1. CASE d = c
      <3>1. Open(u) => t.why # "op" /\ ~IsFor(id, c, u.op)
        BY <1>3, <1>4 DEF Open, IsFor
      <3> QED BY <1>3, <1>7, <1>8, <2>1, <3>1 DEF TriedBy, Waits
    <2>2. CASE d # c
      <3>1. TriedBy(d, v) /\ ~IsFor(id, d, v.op)
        BY <1>3, <1>4, <2>2 DEF Retrying, Tried, IsFor
      <3> QED BY <1>8, <3>1 DEF TriedBy
    <2> QED BY <2>1, <2>2
  <1>10. Awaited'
    <2>1. \A w \in waiters : w.caller \in Callers /\ Id(w.caller)' = Id(w.caller)
      BY <1>1, <1>3, Typed DEF Id
    <2> QED BY <1>1, <1>3, <1>5, <2>1 DEF Retrying, Awaited
  <1>11. Pending'
    <2> SUFFICES ASSUME NEW g \in Gens, NEW i \in 1..Len(stdin'[g]), NEW w, w = stdin'[g][i] PROVE Taken(w)'
      BY DEF Pending, Taken
    <2>1. CASE g = p /\ i = n + 1
      <3>1. w = id
        BY <1>6, <2>1
      <3>2. id.why = "op" => ran[c][id.op] = 0
        BY <1>4, <1>7 DEF Undone
      <3>3. id.op \in Nat /\ id.try \in Nat
        BY Typed
      <3> QED BY <1>3, <1>4, <1>5, <3>1, <3>2, <3>3 DEF Taken
    <2>2. CASE ~(g = p /\ i = n + 1)
      <3>1. PICK j \in 1..Len(stdin[g]) : w = stdin[g][j]
        BY <1>kept, <2>2
      <3>2. Taken(w) /\ w.caller \in Callers /\ ~(w.why = "op" /\ w.caller = c /\ w.op = t.op)
        BY <1>7, <3>1, Typed DEF Retrying, Pending, Undone, IsFor
      <3> QED BY <1>1, <1>3, <1>5, <3>2 DEF Taken
    <2> QED BY <2>1, <2>2
  <1>12. Single'
    <2>1. ASSUME NEW g \in Gens, NEW i \in 1..Len(stdin[g]), stdin[g][i].why = "op"
          PROVE  ~(id.why = "op" /\ stdin[g][i].caller = id.caller /\ stdin[g][i].op = id.op)
      BY <1>4, <1>7, <2>1 DEF Undone, IsFor
    <2> SUFFICES ASSUME NEW g \in Gens, NEW h \in Gens, NEW i \in 1..Len(stdin'[g]), NEW j \in 1..Len(stdin'[h]),
                        stdin'[g][i].why = "op", stdin'[h][j].why = "op",
                        stdin'[g][i].caller = stdin'[h][j].caller, stdin'[g][i].op = stdin'[h][j].op
                 PROVE  g = h /\ i = j
      BY DEF Single
    <2>2. CASE g = p /\ i = n + 1
      <3>1. stdin'[g][i] = id
        BY <1>6, <2>2
      <3>2. ASSUME ~(h = p /\ j = n + 1) PROVE j \in 1..Len(stdin[h]) /\ stdin'[h][j] = stdin[h][j]
        BY <1>kept, <3>2
      <3> QED BY <2>1, <2>2, <3>1, <3>2
    <2>3. CASE h = p /\ j = n + 1
      <3>1. stdin'[h][j] = id
        BY <1>6, <2>3
      <3>2. ASSUME ~(g = p /\ i = n + 1) PROVE i \in 1..Len(stdin[g]) /\ stdin'[g][i] = stdin[g][i]
        BY <1>kept, <3>2
      <3> QED BY <2>1, <2>3, <3>1, <3>2
    <2>4. CASE ~(g = p /\ i = n + 1) /\ ~(h = p /\ j = n + 1)
      <3>1. i \in 1..Len(stdin[g]) /\ stdin'[g][i] = stdin[g][i] /\ j \in 1..Len(stdin[h]) /\ stdin'[h][j] = stdin[h][j]
        BY <1>kept, <2>4
      <3> QED BY <3>1 DEF Retrying, Single
    <2> QED BY <2>2, <2>3, <2>4
  <1>13. Answered'
    <2> SUFFICES ASSUME NEW g \in Gens, NEW i \in 1..Len(stdout[g]), NEW line, line = stdout[g][i] PROVE Told(line)'
      BY <1>5 DEF Answered, Told
    <2>1. Told(line) /\ (line.kind = "response" => line.id \in Ids)
      BY Typed DEF Retrying, Answered
    <2>2. CASE line.kind = "response" /\ line.id.caller = c
      <3>1. line.id.try \in Nat /\ t.try \in Nat
        BY <1>1, <2>1, <2>2, Typed
      <3>2. line.id.op = t.op /\ line.id.why = "op" => line.id.try < t.try
        BY <1>1, <1>7, <2>1, <2>2 DEF Told
      <3>3. line.id.why = "op" => line.id.op <= t.op
        BY <1>1, <2>1, <2>2 DEF Told
      <3> QED BY <1>3, <2>2, <3>1, <3>2, <3>3 DEF Told
    <2>3. CASE line.kind = "response" /\ line.id.caller # c
      <3>1. ~IsFor(id, line.id.caller, caller[line.id.caller].op)
        BY <1>4, <2>3 DEF IsFor
      <3> QED BY SMTT(30), <1>3, <1>8, <2>1, <2>3, <3>1, Typed DEF Told
    <2>4. CASE line.kind # "response"
      BY <2>4 DEF Told
    <2> QED BY <2>2, <2>3, <2>4
  <1>14. Future' /\ AtMostOnce'
    BY <1>1, <1>3, <1>5 DEF Retrying, Future, AtMostOnce
  <1> QED BY <1>9, <1>10, <1>11, <1>12, <1>13, <1>14 DEF Retrying

-----------------------------------------------------------------------------
(* Answers, and what follows them.                                         *)

LEMMA Results ==
  ASSUME Types, NEW c \in Callers, NEW r, caller'[c] = [caller[c] EXCEPT !.result = r]
  PROVE  Alike(c) /\ caller'[c].result = r
  <1>1. PICK t \in Tasks : t = caller[c]
    BY Typed
  <1> QED BY <1>1 DEF Alike, Tasks

LEMMA Responding ==
  ASSUME Types, Types', Retrying, NEW g \in Gens, RouteResponse(g)
  PROVE  Retrying'
  <1>1. PICK p \in Gens : p = reader[g].of /\ stdout[p] # <<>>
    BY DEF RouteResponse, Types, Sources
  <1>2. PICK n \in Nat, s \in Seq(Lines) : s = stdout[p] /\ n = Len(s) /\ n > 0
    <2>1. PICK s \in Seq(Lines) : s = stdout[p] /\ s # <<>>
      BY <1>1 DEF Types, Processes
    <2>2. Len(s) \in Nat /\ Len(s) > 0
      BY <2>1
    <2> QED BY <2>1, <2>2
  <1>3. PICK line \in Lines : line = Head(s) /\ line = stdout[p][1] /\ line.kind = "response" /\ line.id \in Ids
    BY <1>1, <1>2, Typed DEF RouteResponse
  <1>4. /\ waiters' = waiters \ {line.id} /\ stdin' = stdin /\ ran' = ran
        /\ caller' = [c \in Callers |-> IF line.id \in waiters /\ line.id.caller = c
                                        THEN [caller[c] EXCEPT !.result = line.value] ELSE caller[c]]
        /\ stdout' = [stdout EXCEPT ![p] = Tail(s)]
    BY <1>1, <1>2, <1>3 DEF RouteResponse
  <1>5. Told(line)
    BY <1>2, <1>3 DEF Retrying, Answered
  <1>6. ASSUME NEW c \in Callers
        PROVE  Alike(c) /\ (caller'[c].result = caller[c].result \/ TriedBy(c, caller'[c]))
    <2>1. CASE ~(line.id \in waiters /\ line.id.caller = c)
      BY <1>4, <2>1 DEF Alike
    <2>2. CASE line.id \in waiters /\ line.id.caller = c
      <3>1. Alike(c) /\ caller'[c].result = line.value
        BY ZenonT(40), <1>4, <2>2, Results
      <3>2. /\ line.id.op = caller[c].op /\ line.id.try = caller[c].try /\ line.id.why = caller[c].why
        BY <2>2 DEF Retrying, Awaited, Id
      <3>3. PICK t, u : t = caller[c] /\ u = caller'[c] /\ t.try \in Nat
        BY Typed
      <3>4. t.why = "op" => ~Open(t) /\ (Waits(t) /\ line.value = "busy" => Undone(c, t.op))
        BY <1>3, <1>5, <2>2, <3>2, <3>3 DEF Told
      <3>5. t.at = "write" => Open(t)
        BY DEF Open, Asking
      <3>6. TriedBy(c, t) /\ Open(u) = Open(t) /\ Waits(u) = Waits(t) /\ u.at = t.at /\ u.why = t.why /\ u.op = t.op
        BY <3>1, <3>3 DEF Retrying, Tried, Alike, Open, Waits
      <3>7. TriedBy(c, u)
        BY <3>1, <3>3, <3>4, <3>5, <3>6 DEF TriedBy, Waits
      <3> QED BY <3>1, <3>3, <3>7
    <2> QED BY <2>1, <2>2
  <1>7. ASSUME NEW id \in waiters' PROVE caller'[id.caller].result = caller[id.caller].result
    <2>1. id.caller \in Callers /\ id \in waiters /\ id # line.id /\ id = Id(id.caller)
      BY <1>4, <1>7, Typed DEF Retrying, Awaited
    <2>2. ~(line.id \in waiters /\ line.id.caller = id.caller)
      BY <2>1 DEF Retrying, Awaited
    <2> QED BY <1>4, <2>1, <2>2
  <1>8. ASSUME NEW h \in Gens, NEW i \in 1..Len(stdout'[h])
        PROVE  \E j \in 1..Len(stdout[h]) : stdout'[h][i] = stdout[h][j]
    <2>1. CASE h = p
      <3>1. stdout'[h] = Tail(s)
        BY <1>4, <2>1 DEF Types, Processes
      <3>2. Tail(s)[i] = s[i + 1] /\ i + 1 \in 1..n
        BY <1>2, <3>1
      <3> QED BY <1>2, <2>1, <3>1, <3>2
    <2>2. CASE h # p
      BY <1>4, <2>2 DEF Types, Processes
    <2> QED BY <2>1, <2>2
  <1>9. Fewer
    BY <1>4 DEF Fewer
  <1> QED BY <1>4, <1>6, <1>7, <1>8, <1>9, Staying

LEMMA FailingAll ==
  ASSUME Types, Types', Retrying, NEW g \in Gens, FailAll(g)
  PROVE  Retrying'
  <1>1. /\ waiters' = {} /\ stdin' = stdin /\ stdout' = stdout /\ ran' = ran /\ Fewer
        /\ caller' = [c \in Callers |-> IF Id(c) \in waiters THEN [caller[c] EXCEPT !.result = "failed"] ELSE caller[c]]
    BY DEF FailAll, processes, Fewer
  <1>2. ASSUME NEW c \in Callers
        PROVE  Alike(c) /\ (caller'[c].result = caller[c].result \/ TriedBy(c, caller'[c]))
    <2>1. CASE Id(c) \notin waiters
      BY <1>1, <2>1 DEF Alike
    <2>2. CASE Id(c) \in waiters
      <3>1. Alike(c) /\ caller'[c].result = "failed"
        BY <1>1, <2>2, Results
      <3>2. TriedBy(c, caller[c])
        BY DEF Retrying, Tried
      <3>3. TriedBy(c, caller'[c])
        BY <3>1, <3>2 DEF TriedBy, Alike, Open, Waits
      <3> QED BY <3>1, <3>3
    <2> QED BY <2>1, <2>2
  <1> QED BY <1>1, <1>2, Staying

LEMMA Answering ==
  ASSUME Types, Types', Retrying, NEW g \in Gens, Answer(g)
  PROVE  Retrying'
  <1>1. PICK n \in Nat, s \in Seq(Ids) : s = stdin[g] /\ n = Len(s) /\ n > 0
    BY DEF Answer, Types, Processes
  <1>2. PICK id \in Ids : id = Head(s) /\ id = stdin[g][1] /\ id.caller \in Callers /\ id.op \in 1..MaxOps
    BY <1>1, Typed
  <1>3. PICK value : /\ stdout' = [stdout EXCEPT ![g] = Append(@, [kind |-> "response", id |-> id, value |-> value])]
                     /\ ran' = IF id.why = "op" /\ value = "ok" THEN [ran EXCEPT ![id.caller][id.op] = @ + 1] ELSE ran
    BY <1>1, <1>2 DEF Answer
  <1>4. stdin' = [stdin EXCEPT ![g] = Tail(s)] /\ waiters' = waiters /\ caller' = caller
    BY <1>1 DEF Answer
  <1>5. Taken(id)
    BY <1>1, <1>2 DEF Retrying, Pending
  \* The other requests have moved up.
  <1>6. /\ Len(stdin'[g]) = n - 1 /\ \A i \in 1..(n - 1) : i + 1 \in 1..n /\ stdin'[g][i] = stdin[g][i + 1]
        /\ \A h \in Gens \ {g} : stdin'[h] = stdin[h]
    <2>1. stdin'[g] = Tail(s) /\ \A h \in Gens \ {g} : stdin'[h] = stdin[h]
      BY <1>4 DEF Types, Processes
    <2> QED BY <1>1, <2>1
  \* None of them is for the operation that has been answered.
  <1>7. ASSUME NEW h \in Gens, NEW i \in 1..Len(stdin'[h])
        PROVE  /\ \E j \in 1..Len(stdin[h]) : stdin'[h][i] = stdin[h][j] /\ (h = g => j = i + 1) /\ (h # g => j = i)
               /\ id.why = "op" => ~IsFor(stdin'[h][i], id.caller, id.op)
    <2>1. PICK j \in 1..Len(stdin[h]) : stdin'[h][i] = stdin[h][j] /\ (h = g => j = i + 1) /\ (h # g => j = i)
      <3>1. CASE h = g
        BY <1>1, <1>6, <3>1
      <3>2. CASE h # g
        BY <1>6, <3>2
      <3> QED BY <3>1, <3>2
    <2>2. 1 \in 1..Len(stdin[g]) /\ ~(h = g /\ j = 1)
      BY <1>1, <1>6, <2>1
    <2> QED BY SMTT(30), <1>2, <2>1, <2>2 DEF Retrying, Single, IsFor
  <1>8. ASSUME NEW c \in Callers, NEW o \in 1..MaxOps
        PROVE  ran'[c][o] = IF id.why = "op" /\ value = "ok" /\ c = id.caller /\ o = id.op THEN 1 ELSE ran[c][o]
    <2>1. CASE id.why = "op" /\ value = "ok"
      <3>1. ran[id.caller][id.op] = 0
        BY <1>5, <2>1 DEF Taken
      <3>2. /\ ran \in [Callers -> [1..MaxOps -> Nat]]
            /\ ran' = [ran EXCEPT ![id.caller][id.op] = ran[id.caller][id.op] + 1]
        BY <1>3, <2>1 DEF Types, Processes
      <3>3. PICK b, p : b = id.caller /\ p = id.op /\ b \in Callers /\ p \in 1..MaxOps
        BY <1>2
      <3>4. ran' = [ran EXCEPT ![b] = [ran[b] EXCEPT ![p] = 1]]
        BY <3>1, <3>2, <3>3
      <3>5. ran'[c] = IF c = b THEN [ran[b] EXCEPT ![p] = 1] ELSE ran[c]
        BY <3>2, <3>3, <3>4
      <3> QED BY <2>1, <3>2, <3>3, <3>5
    <2>2. CASE ~(id.why = "op" /\ value = "ok")
      BY <1>3, <2>2
    <2> QED BY <2>1, <2>2
  <1>9. ASSUME NEW c \in Callers, NEW o \in 1..MaxOps, Undone(c, o) PROVE Undone(c, o)' /\ ~IsFor(id, c, o)
    <2>1. ~IsFor(id, c, o)
      BY <1>1, <1>2, <1>9 DEF Undone
    <2>2. ran'[c][o] = 0
      BY <1>8, <1>9, <2>1 DEF Undone, IsFor
    <2> QED BY <1>7, <1>9, <2>1, <2>2 DEF Undone
  <1>10. Tried'
    <2> SUFFICES ASSUME NEW d \in Callers, NEW u, u = caller[d] PROVE TriedBy(d, u)'
      BY <1>4 DEF Tried
    <2>1. TriedBy(d, u) /\ (Open(u) \/ Waits(u) => u.op \in 1..MaxOps)
      BY Typed DEF Retrying, Tried, Open, Waits, Asking
    <2> QED BY <1>9, <2>1 DEF TriedBy
  <1>11. Awaited'
    BY <1>4 DEF Retrying, Awaited, Id
  <1>12. Pending'
    <2> SUFFICES ASSUME NEW h \in Gens, NEW i \in 1..Len(stdin'[h]), NEW w, w = stdin'[h][i] PROVE Taken(w)'
      BY DEF Pending, Taken
    <2>1. Taken(w) /\ w.caller \in Callers /\ w.op \in 1..MaxOps /\ (id.why = "op" => ~IsFor(w, id.caller, id.op))
      BY <1>7, Typed DEF Retrying, Pending
    <2>2. w.why = "op" => ran'[w.caller][w.op] = ran[w.caller][w.op]
      BY <1>8, <2>1 DEF IsFor
    <2> QED BY <1>4, <2>1, <2>2 DEF Taken
  <1>13. Single'
    <2> SUFFICES ASSUME NEW h \in Gens, NEW k \in Gens, NEW i \in 1..Len(stdin'[h]), NEW j \in 1..Len(stdin'[k]),
                        stdin'[h][i].why = "op", stdin'[k][j].why = "op",
                        stdin'[h][i].caller = stdin'[k][j].caller, stdin'[h][i].op = stdin'[k][j].op
                 PROVE  h = k /\ i = j
      BY DEF Single
    <2>1. PICK a \in 1..Len(stdin[h]) : stdin'[h][i] = stdin[h][a] /\ (h = g => a = i + 1) /\ (h # g => a = i)
      BY <1>7
    <2>2. PICK b \in 1..Len(stdin[k]) : stdin'[k][j] = stdin[k][b] /\ (k = g => b = j + 1) /\ (k # g => b = j)
      BY <1>7
    <2>3. h = k /\ a = b
      <3>1. /\ stdin[h][a].why = "op" /\ stdin[k][b].why = "op"
            /\ stdin[h][a].caller = stdin[k][b].caller /\ stdin[h][a].op = stdin[k][b].op
        BY <2>1, <2>2
      <3> HIDE <2>1, <2>2
      <3> QED BY SMTT(30), <3>1 DEF Retrying, Single
    <2>4. h = g => i \in Nat /\ j \in Nat
      BY <1>1, <1>6, <2>3
    <2> QED BY <2>1, <2>2, <2>3, <2>4
  <1>14. Answered'
    <2> SUFFICES ASSUME NEW h \in Gens, NEW i \in 1..Len(stdout'[h]), NEW line, line = stdout'[h][i] PROVE Told(line)'
      BY DEF Answered, Told
    <2>1. (\E j \in 1..Len(stdout[h]) : line = stdout[h][j]) \/ line = [kind |-> "response", id |-> id, value |-> value]
      <3>1. PICK z \in Seq(Lines) : z = stdout[h]
        BY DEF Types, Processes
      <3>2. stdout'[h] = z \/ stdout'[h] = Append(z, [kind |-> "response", id |-> id, value |-> value])
        BY <1>3, <3>1 DEF Types, Processes
      <3> QED BY SMTT(30), <3>1, <3>2
    <2>2. CASE \E j \in 1..Len(stdout[h]) : line = stdout[h][j]
      <3>1. Told(line) /\ (line.kind = "response" => line.id \in Ids)
        BY <2>2, Typed DEF Retrying, Answered
      <3>2. \A c \in Callers : Waits(caller[c]) => caller[c].op \in 1..MaxOps
        BY Typed DEF Waits, Asking
      <3> QED BY <1>4, <1>9, <3>1, <3>2, Typed DEF Told
    <2>3. CASE line = [kind |-> "response", id |-> id, value |-> value]
      <3>1. line.id = id /\ line.value = value /\ line.kind = "response"
        BY <2>3
      <3>2. PICK c, t : c = id.caller /\ t = caller[c] /\ c \in Callers
        BY <1>2
      <3>3. CASE id.why = "op"
        <4>1. id.op <= t.op /\ (id.op = t.op /\ Waits(t) => id.try <= t.try)
          BY <1>5, <3>2, <3>3 DEF Taken
        <4>2. id.op = t.op => ~Open(t)
          <5>1. Open(t) => Undone(c, t.op)
            BY <3>2 DEF Retrying, Tried, TriedBy
          <5> QED BY <1>1, <1>2, <3>2, <3>3, <5>1 DEF Undone, IsFor
        <4>3. value = "busy" => Undone(c, id.op)'
          <5>1. value = "busy" => ran'[c][id.op] = 0
            BY <1>2, <1>5, <1>8, <3>2, <3>3 DEF Taken
          <5> QED BY <1>7, <3>2, <3>3, <5>1 DEF Undone
        <4>4. id.op = t.op /\ Waits(t) /\ value = "busy" => Undone(c, t.op)'
          BY <4>3
        <4> QED BY <1>4, <3>1, <3>2, <4>1, <4>2, <4>4 DEF Told
      <3>4. CASE id.why # "op"
        BY <3>1, <3>4 DEF Told
      <3> QED BY <3>3, <3>4
    <2> QED BY <2>1, <2>2, <2>3
  <1>kept. Future'
    <2> SUFFICES ASSUME NEW c \in Callers, NEW o \in 1..MaxOps, caller[c].op < o PROVE ran'[c][o] = 0
      BY <1>4 DEF Future
    <2>1. ran[c][o] = 0 /\ caller[c].op \in Nat
      BY Typed DEF Retrying, Future
    <2>2. ~(id.why = "op" /\ c = id.caller /\ o = id.op)
      BY <1>5, <2>1 DEF Taken
    <2> QED BY <1>8, <2>1, <2>2
  <1>16. AtMostOnce'
    BY <1>8 DEF Retrying, AtMostOnce
  <1> QED BY <1>10, <1>11, <1>12, <1>13, <1>14, <1>kept, <1>16 DEF Retrying

-----------------------------------------------------------------------------
(* The steps.                                                              *)

LEMMA Leaving ==
  ASSUME Types, NEW c \in Callers, Rest(c) \/ Fail(c)
  PROVE  Passes(c)
  <1>1. PICK t \in Tasks : t = caller[c]
    BY Typed
  <1> DEFINE u == [Idle EXCEPT !.op = t.op]
             v == [Idle EXCEPT !.at = "close", !.why = "abort", !.op = t.op]
  <1>2. u.op = t.op /\ u.at = "idle" /\ v.op = t.op /\ v.at = "close"
    BY DEF Idle
  <1>3. caller'[c] = u \/ caller'[c] = v
    BY <1>1 DEF Rest, Fail, Types, Clients
  <1> HIDE DEF u, v
  <1> QED BY <1>1, <1>2, <1>3 DEF Passes, Asking, Initialising

LEMMA Shifting ==
  ASSUME Types, NEW c \in Callers, NEW where, At(c, where)
  PROVE  Passes(c) \/ (where \in Asking /\ (where \in {"write", "wait"} \/ ~Open(caller[c])))
  <1>1. PICK t \in Tasks : t = caller[c]
    BY Typed
  <1> DEFINE u == [t EXCEPT !.at = where]
  <1>2. caller'[c] = u
    BY <1>1 DEF At, Types, Clients
  <1>3. u.at = where /\ u.op = t.op /\ u.try = t.try
    BY DEF Tasks
  <1> HIDE DEF u
  <1> QED BY <1>1, <1>2, <1>3 DEF Passes, Open

\* The steps of a task that neither have, send nor repeat a request.
Quiet(c) == \/ Close(c) \/ TakeInitLock(c) \/ StartCheck(c) \/ Spawn(c) \/ SpawnFails(c) \/ StartReader(c)
            \/ Notify(c) \/ FinishInit(c) \/ (Write(c) /\ ~Writable) \/ (Receive(c) /\ ~Retried(c))
            \/ CloseCheck(c) \/ CloseClear(c) \/ CloseStop(c) \/ CloseJoin(c) \/ Closed(c) \/ CloseRaised(c)

LEMMA QuietPasses ==
  ASSUME Types, NEW c \in Callers, Quiet(c)
  PROVE  Passes(c)
  <1>1. PICK t \in Tasks : t = caller[c] /\ caller \in [Callers -> Tasks] /\ Role(t)
    BY Typed DEF Types, Clients, Roles
  <1>2. t.at \in Asking \ {"wait"} => Open(t)
    BY DEF Open
  <1> USE DEF Asking, Initialising
  <1>3. CASE Close(c)
    <2> DEFINE u == [t EXCEPT !.at = "close", !.why = "close"]
    <2>1. caller'[c] = u
      BY <1>1, <1>3 DEF Close
    <2>2. u.at = "close" /\ u.op = t.op
      BY DEF Tasks
    <2> HIDE DEF u
    <2> QED BY <1>1, <2>1, <2>2 DEF Passes
  <1>4. CASE TakeInitLock(c)
    <2>1. CASE At(c, "send")
      <3>1. t.at = "lock"
        BY <1>1, <1>4 DEF TakeInitLock
      <3> QED BY <1>1, <1>2, <2>1, <3>1, Shifting
    <2>2. CASE caller' = [caller EXCEPT ![c].at = "start", ![c].why = "init"]
      <3> DEFINE u == [t EXCEPT !.at = "start", !.why = "init"]
      <3>1. caller'[c] = u
        BY <1>1, <2>2
      <3>2. u.at = "start" /\ u.op = t.op /\ u.try = t.try
        BY DEF Tasks
      <3> HIDE DEF u
      <3> QED BY <1>1, <1>2, <1>4, <3>1, <3>2 DEF Passes, Open, TakeInitLock
    <2> QED BY <1>4, <2>1, <2>2 DEF TakeInitLock
  <1>5. CASE StartCheck(c) \/ StartReader(c)
    <2>1. Rest(c) \/ At(c, "send") \/ At(c, "spawn")
      BY <1>5 DEF StartCheck, StartReader, Started
    <2>2. t.at \in {"start", "reader"}
      BY <1>1, <1>5 DEF StartCheck, StartReader
    <2> QED BY <1>1, <1>2, <2>1, <2>2, Leaving, Shifting
  <1>6. CASE Spawn(c)
    <2> DEFINE u == [t EXCEPT !.at = "reader", !.gen = used.starts + 1]
    <2>1. caller'[c] = u
      BY <1>1, <1>6 DEF Spawn
    <2>2. u.at = "reader" /\ u.op = t.op /\ u.try = t.try
      BY DEF Tasks
    <2> HIDE DEF u
    <2> QED BY <1>1, <1>2, <1>6, <2>1, <2>2 DEF Passes, Open, Spawn
  <1>7. CASE Notify(c)
    <2>1. Fail(c) \/ At(c, "finish")
      BY <1>7 DEF Notify
    <2>2. t.at = "notify"
      BY <1>1, <1>7 DEF Notify
    <2> QED BY <1>1, <1>2, <2>1, <2>2, Leaving, Shifting
  <1>8. CASE FinishInit(c)
    <2>1. CASE Rest(c)
      BY <2>1, Leaving
    <2>2. CASE caller' = [caller EXCEPT ![c].at = "send", ![c].why = "op"]
      <3> DEFINE u == [t EXCEPT !.at = "send", !.why = "op"]
      <3>1. caller'[c] = u
        BY <1>1, <2>2
      <3>2. u.at = "send" /\ u.op = t.op /\ u.try = t.try
        BY DEF Tasks
      <3> HIDE DEF u
      <3> QED BY <1>1, <1>2, <1>8, <3>1, <3>2 DEF Passes, Open, FinishInit
    <2> QED BY <1>8, <2>1, <2>2 DEF FinishInit
  <1>9. CASE Receive(c) /\ ~Retried(c)
    <2>1. CASE Rest(c) \/ Fail(c)
      BY <2>1, Leaving
    <2>2. CASE t.why # "op" /\ caller' = [caller EXCEPT ![c].at = "notify", ![c].result = "none", ![c].gen = None]
      <3> DEFINE u == [t EXCEPT !.at = "notify", !.result = "none", !.gen = None]
      <3>1. caller'[c] = u
        BY <1>1, <2>2
      <3>2. u.at = "notify" /\ u.op = t.op /\ u.try = t.try
        BY DEF Tasks
      <3> HIDE DEF u
      <3> QED BY <1>1, <1>9, <2>2, <3>1, <3>2 DEF Passes, Open, Receive
    <2> QED BY <1>1, <1>9, <2>1, <2>2 DEF Receive
  <1>10. CASE CloseCheck(c)
    <2> DEFINE where == IF proc = None THEN "closed" ELSE "clear"
               u == [t EXCEPT !.at = where, !.gen = proc]
    <2>1. caller'[c] = u
      BY <1>1, <1>10 DEF CloseCheck
    <2>2. u.at = where /\ u.op = t.op /\ where \in {"closed", "clear"}
      BY DEF Tasks
    <2> HIDE DEF u, where
    <2> QED BY <1>1, <2>1, <2>2 DEF Passes
  <1>11. CASE CloseClear(c) \/ CloseStop(c) \/ CloseJoin(c)
    <2>1. At(c, "stop") \/ At(c, "raised") \/ At(c, "join") \/ At(c, "closed")
      BY <1>11 DEF CloseClear, CloseStop, CloseJoin
    <2> QED BY <2>1, Shifting
  <1>12. CASE SpawnFails(c) \/ (Write(c) /\ ~Writable) \/ Closed(c) \/ CloseRaised(c)
    BY <1>12, Leaving DEF SpawnFails, Write, Closed, CloseRaised
  <1> QED BY <1>3, <1>4, <1>5, <1>6, <1>7, <1>8, <1>9, <1>10, <1>11, <1>12 DEF Quiet

LEMMA QuietStep ==
  ASSUME Types, Types', Retrying, NEW c \in Callers, Quiet(c)
  PROVE  Retrying'
  <1>1. \A d \in Callers \ {c} : caller'[d] = caller[d]
    BY OthersStay DEF Quiet, CallerStep
  <1>2. ran' = ran /\ stdout' = stdout
    BY DEF Quiet, Close, TakeInitLock, StartCheck, Spawn, SpawnFails, StartReader, Notify, FinishInit,
       Write, Receive, CloseCheck, CloseClear, CloseStop, CloseJoin, Closed, CloseRaised, processes
  <1>3. Fewer
    <2>1. CASE CloseStop(c)
      BY <2>1 DEF CloseStop, Fewer, Types, Processes
    <2>2. CASE ~CloseStop(c)
      <3>1. stdin' = stdin
        BY <2>2 DEF Quiet, Close, TakeInitLock, StartCheck, Spawn, SpawnFails, StartReader, Notify, FinishInit,
           Write, Receive, CloseCheck, CloseClear, CloseJoin, Closed, CloseRaised, processes
      <3> QED BY <3>1 DEF Fewer
    <2> QED BY <2>1, <2>2
  <1>4. waiters' \subseteq waiters /\ \A id \in waiters' : id.caller # c
    <2>1. CASE Write(c) /\ ~Writable
      <3>1. waiters' = waiters \ {Id(c)}
        BY <2>1 DEF Write
      <3> QED BY <3>1 DEF Retrying, Awaited
    <2>2. CASE ~Write(c)
      <3>1. waiters' = waiters
        BY <2>2 DEF Quiet, Close, TakeInitLock, StartCheck, Spawn, SpawnFails, StartReader, Notify, FinishInit,
           Receive, CloseCheck, CloseClear, CloseStop, CloseJoin, Closed, CloseRaised
      <3>2. caller[c].at \notin {"write", "wait"} \/ caller[c].result # "none"
        BY <2>2 DEF Quiet, Close, TakeInitLock, StartCheck, Spawn, SpawnFails, StartReader, Notify, FinishInit,
           Receive, CloseCheck, CloseClear, CloseStop, CloseJoin, Closed, CloseRaised
      <3> QED BY <3>1, <3>2 DEF Retrying, Awaited
    <2> QED BY <2>1, <2>2 DEF Quiet, Write, Close, TakeInitLock, StartCheck, Spawn, SpawnFails, StartReader, Notify,
           FinishInit, Receive, CloseCheck, CloseClear, CloseStop, CloseJoin, Closed, CloseRaised
  <1> QED BY <1>1, <1>2, <1>3, <1>4, QuietPasses, Passing

LEMMA RenewStep ==
  ASSUME Types, Types', Retrying, NEW c \in Callers, Use(c) \/ (Receive(c) /\ Retried(c))
  PROVE  Retrying'
  <1>1. (\A d \in Callers \ {c} : caller'[d] = caller[d]) /\ waiters' = waiters /\ UNCHANGED processes
    BY OthersStay DEF CallerStep, Use, Receive
  <1>2. PICK t \in Tasks : t = caller[c] /\ caller \in [Callers -> Tasks] /\ t.op \in 0..MaxOps
    BY Typed DEF Types, Clients
  <1>3. \A id \in waiters : id.caller # c
    <2>1. caller[c].at \notin {"write", "wait"} \/ caller[c].result # "none"
      BY DEF Use, Receive
    <2> QED BY <2>1 DEF Retrying, Awaited
  <1>4. Renews(c)
    <2>1. CASE Use(c)
      <3>1. PICK where \in {"send", "lock"} :
              caller'[c] = [t EXCEPT !.at = where, !.why = "op", !.op = t.op + 1, !.try = 1]
        BY <1>2, <2>1 DEF Use
      <3>2. caller'[c].at = where /\ caller'[c].op = t.op + 1
        BY <3>1 DEF Tasks
      <3>3. t.op + 1 \in 1..MaxOps
        BY <1>2, <2>1, Typed DEF Use
      <3> QED BY <1>2, <3>2, <3>3 DEF Renews, Open, Asking
    <2>2. CASE Receive(c) /\ Retried(c)
      <3>1. caller'[c] = [t EXCEPT !.at = "send", !.try = t.try + 1]
        BY <1>2, <2>2 DEF Receive
      <3>2. caller'[c].at = "send" /\ caller'[c].op = t.op /\ caller'[c].try = t.try + 1
        BY <3>1 DEF Tasks
      <3>3. t.at = "wait" /\ t.why = "op" /\ t.result = "busy"
        BY <1>2, <2>2 DEF Receive, Retried, Retryable
      <3>4. t.op \in 1..MaxOps
        BY <1>2, <3>3, Typed DEF Asking
      <3> QED BY <1>2, <3>2, <3>3, <3>4 DEF Renews, Open, Waits, Asking
    <2> QED BY <2>1, <2>2
  <1> QED BY <1>1, <1>3, <1>4, Renewing

LEMMA CancelStep ==
  ASSUME Types, Types', Retrying, NEW c \in Callers, Cancel(c)
  PROVE  Retrying'
  <1>1. PICK t \in Tasks : t = caller[c] /\ caller \in [Callers -> Tasks]
    BY Typed DEF Types, Clients
  <1> DEFINE u == [t EXCEPT !.detached = TRUE]
  <1>2. caller'[c] = u /\ \A d \in Callers \ {c} : caller'[d] = caller[d]
    BY <1>1 DEF Cancel
  <1>3. u.at = t.at /\ u.why = t.why /\ u.op = t.op /\ u.try = t.try /\ u.result = t.result
    BY DEF Tasks
  <1> HIDE DEF u
  <1>4. \A d \in Callers : Alike(d) /\ caller'[d].result = caller[d].result
    BY <1>1, <1>2, <1>3 DEF Alike
  <1>5. waiters' = waiters /\ Fewer /\ ran' = ran /\ stdout' = stdout
    BY DEF Cancel, processes, Fewer
  <1> QED BY <1>4, <1>5, Typed, Staying DEF Retrying, Awaited

LEMMA OtherStep ==
  ASSUME Types, Types', Retrying, NEW g \in Gens,
         \/ ReadMessage(g) \/ TakeServerRequest(g) \/ HandlerReturns(g) \/ HandlerRaises(g) \/ Reply(g)
         \/ ReadUnreadable(g) \/ ReadEof(g) \/ Ask(g) \/ Crash(g)
  PROVE  Retrying'
  <1>1. caller' = caller /\ waiters' \subseteq waiters /\ ran' = ran
    BY DEF ReadMessage, TakeServerRequest, HandlerReturns, HandlerRaises, Reply, ReadUnreadable, ReadEof, Ask, Crash, processes
  <1>2. Fewer
    <2>1. stdin' = stdin \/ stdin' = [stdin EXCEPT ![g] = <<>>]
      BY DEF ReadMessage, TakeServerRequest, HandlerReturns, HandlerRaises, Reply, ReadUnreadable, ReadEof, Ask, Crash, processes
    <2> QED BY <2>1 DEF Fewer, Types, Processes
  <1>3. ASSUME NEW h \in Gens, NEW i \in 1..Len(stdout'[h]), stdout'[h][i].kind = "response"
        PROVE  \E j \in 1..Len(stdout[h]) : stdout'[h][i] = stdout[h][j]
    <2>1. PICK s \in Seq(Lines) : s = stdout[h] /\ stdout \in [Gens -> Seq(Lines)]
      BY DEF Types, Processes
    <2>2. CASE TakeServerRequest(g) \/ ReadUnreadable(g)
      <3>1. PICK p \in Gens : p = reader[g].of /\ stdout[p] # <<>> /\ stdout' = [stdout EXCEPT ![p] = Tail(stdout[p])]
        BY <2>2 DEF TakeServerRequest, ReadUnreadable, Types, Sources
      <3>2. CASE h = p
        <4>1. stdout'[h] = Tail(s) /\ s # <<>>
          BY <2>1, <3>1, <3>2
        <4>2. Tail(s)[i] = s[i + 1] /\ i + 1 \in 1..Len(s)
          BY <2>1, <4>1
        <4> QED BY <2>1, <4>1, <4>2
      <3>3. CASE h # p
        BY <2>1, <3>1, <3>3
      <3> QED BY <3>2, <3>3
    <2>3. CASE Ask(g)
      <3>1. stdout'[h] = s \/ stdout'[h] = Append(s, [kind |-> "request"])
        BY <2>1, <2>3 DEF Ask
      <3>2. CASE stdout'[h] = s
        BY <2>1, <3>2
      <3>3. CASE stdout'[h] = Append(s, [kind |-> "request"])
        BY <1>3, <2>1, <3>3
      <3> QED BY <3>1, <3>2, <3>3
    <2>4. CASE ~TakeServerRequest(g) /\ ~ReadUnreadable(g) /\ ~Ask(g)
      BY <1>3, <2>4 DEF ReadMessage, HandlerReturns, HandlerRaises, Reply, ReadEof, Crash, processes
    <2> QED BY <2>2, <2>3, <2>4
  <1> QED BY <1>1, <1>2, <1>3, Staying DEF Alike

LEMMA NextRetrying == Types /\ Retrying /\ [Next]_vars => Retrying'
  <1> SUFFICES ASSUME Types, Retrying, [Next]_vars PROVE Retrying'
    OBVIOUS
  <1>1. Types'
    BY NextTypes
  <1>2. ASSUME NEW c \in Callers, Use(c) \/ Close(c) \/ Cancel(c) \/ CallerStep(c) PROVE Retrying'
    <2>1. Quiet(c) \/ Use(c) \/ (Receive(c) /\ Retried(c)) \/ Cancel(c) \/ Send(c) \/ (Write(c) /\ Writable)
      BY <1>2 DEF CallerStep, Quiet
    <2> QED BY <1>1, <2>1, QuietStep, RenewStep, CancelStep, Sending, Writing
  <1>3. ASSUME NEW g \in Gens, ReaderStep(g) \/ Answer(g) \/ Ask(g) \/ Crash(g) PROVE Retrying'
    BY <1>1, <1>3, OtherStep, Responding, FailingAll, Answering DEF ReaderStep
  <1>4. CASE UNCHANGED vars
    <2>1. caller' = caller /\ waiters' = waiters /\ ran' = ran /\ stdin' = stdin /\ stdout' = stdout
      BY <1>4 DEF vars
    <2> QED BY <1>1, <2>1, Staying DEF Alike, Fewer
  <1> QED BY <1>2, <1>3, <1>4 DEF Next

\* No operation is carried out twice by any server: a retry follows an answer that it
\* was refused, and no lost, late or stray answer is taken for one.
THEOREM UsesAreAtMostOnce == Spec => []AtMostOnce
  <1>1. Retrying => AtMostOnce
    BY DEF Retrying
  <1> QED BY <1>1, InitTypes, NextTypes, InitRetrying, NextRetrying, PTL DEF Spec

-----------------------------------------------------------------------------
(* A client that takes itself for initialised has a process that accepted  *)
(* initialize: the answer a start waits for is to its own request, from    *)
(* the process that is the client's when the flag is set.                  *)

\* The process has been asked it, and its answer has not been read.
Asked(g, id) == \/ \E i \in 1..Len(stdin[g]) : stdin[g][i] = id
                \/ \E i \in 1..Len(stdout[g]) : stdout[g][i].kind = "response" /\ stdout[g][i].id = id
\* The task is on its way to ask its process to initialize.
Before(t) == t.at \in {"lock", "start", "spawn", "reader"} \/ (t.why = "init" /\ t.at \in {"send", "write"})
\* initialize is sent once for an operation, to the process the task then waits for.
OnceBy(g, id, t) == /\ id.op <= t.op
                    /\ id.op = t.op => ~Before(t) /\ (t.why = "init" /\ t.at = "wait" => t.gen = g)
Once == \A g \in Gens, id \in Ids : Asked(g, id) /\ id.why = "init" => OnceBy(g, id, caller[id.caller])
Accepting(line) == line.kind = "response" /\ line.value = "ok" /\ line.id.why = "init"
Accepted == \A g \in Gens : \A i \in 1..Len(stdout[g]) : Accepting(stdout[g][i]) => g \in ready
\* A task that has its answer has it from a process that accepted.
Served == \A c \in Callers : caller[c].why = "init" /\ caller[c].result = "ok" =>
    caller[c].at # "write" /\ (caller[c].at = "wait" => caller[c].gen \in ready)
\* What a close stops is no longer the client's.
Stopped == /\ \A g \in Gens : server[g] = "gone" => proc # g
           /\ \A c \in Callers : caller[c].at = "stop" => caller[c].gen # proc
\* An initialisation is of the client's process.
Astray == Stale \cup {"cancelled start"}
Present == Overlapped(Astray) \/ \A c \in Callers : caller[c].why = "init" /\ ~caller[c].detached =>
    /\ ~initialized
    /\ caller[c].at = "wait" => caller[c].gen = proc
    /\ caller[c].at \in {"notify", "finish"} => proc \in ready
Initialisation == Once /\ Accepted /\ Served /\ Stopped /\ Present

LEMMA ReadyStays == Types /\ [Next]_vars => ready \subseteq ready'
  BY DEF Next, CallerStep, Use, Close, Cancel, TakeInitLock, StartCheck, Spawn, SpawnFails, StartReader, Notify, FinishInit,
     Send, Write, Receive, CloseCheck, CloseClear, CloseStop, CloseJoin, Closed, CloseRaised, ReaderStep, ReadMessage,
     RouteResponse, TakeServerRequest, HandlerReturns, HandlerRaises, Reply, ReadUnreadable, ReadEof, FailAll,
     Answer, Ask, Crash, processes, vars

\* A process has no lines but those it had, its requests and its answers.
LEMMA LineSources ==
  ASSUME Types, [Next]_vars, NEW h \in Gens, NEW i \in 1..Len(stdout'[h]), stdout'[h][i].kind = "response"
  PROVE  \/ \E j \in 1..Len(stdout[h]) : stdout'[h][i] = stdout[h][j]
         \/ /\ Answer(h) /\ Len(stdin[h]) > 0 /\ stdout'[h][i].id = stdin[h][1]
            /\ Accepting(stdout'[h][i]) => h \in ready'
  <1>1. PICK s \in Seq(Lines) : s = stdout[h] /\ stdout \in [Gens -> Seq(Lines)]
    BY DEF Types, Processes
  <1>2. ASSUME NEW g \in Gens, TakeServerRequest(g) \/ RouteResponse(g) \/ ReadUnreadable(g)
        PROVE  \E j \in 1..Len(stdout[h]) : stdout'[h][i] = stdout[h][j]
    <2>1. PICK p \in Gens : p = reader[g].of /\ stdout[p] # <<>> /\ stdout' = [stdout EXCEPT ![p] = Tail(stdout[p])]
      BY <1>2 DEF TakeServerRequest, RouteResponse, ReadUnreadable, Types, Sources
    <2>2. CASE h = p
      <3>1. stdout'[h] = Tail(s) /\ s # <<>>
        BY <1>1, <2>1, <2>2
      <3>2. Tail(s)[i] = s[i + 1] /\ i + 1 \in 1..Len(s)
        BY <1>1, <3>1
      <3> QED BY <1>1, <3>1, <3>2
    <2>3. CASE h # p
      BY <1>1, <2>1, <2>3
    <2> QED BY <2>2, <2>3
  <1>3. ASSUME NEW g \in Gens, Ask(g)
        PROVE  \E j \in 1..Len(stdout[h]) : stdout'[h][i] = stdout[h][j]
    <2>1. stdout'[h] = s \/ stdout'[h] = Append(s, [kind |-> "request"])
      BY <1>1, <1>3 DEF Ask
    <2>2. CASE stdout'[h] = s
      BY <1>1, <2>2
    <2>3. CASE stdout'[h] = Append(s, [kind |-> "request"])
      BY <1>1, <2>3
    <2> QED BY <2>1, <2>2, <2>3
  <1>4. ASSUME NEW g \in Gens, Answer(g), ~\E j \in 1..Len(stdout[h]) : stdout'[h][i] = stdout[h][j]
        PROVE  /\ h = g /\ Len(stdin[h]) > 0 /\ stdout'[h][i].id = stdin[h][1]
               /\ Accepting(stdout'[h][i]) => h \in ready'
    <2>1. PICK q \in Seq(Ids) : q = stdin[g] /\ q # <<>>
      BY <1>4 DEF Answer, Types, Processes
    <2>2. Len(q) > 0 /\ Head(q) = q[1]
      BY <2>1
    <2>3. PICK value : /\ stdout' = [stdout EXCEPT ![g] = Append(@, [kind |-> "response", id |-> q[1], value |-> value])]
                       /\ ready' = IF q[1].why = "init" /\ value = "ok" THEN ready \cup {g} ELSE ready
      BY <1>4, <2>1, <2>2 DEF Answer
    <2> DEFINE line == [kind |-> "response", id |-> q[1], value |-> value]
    <2>4. h = g /\ stdout'[h] = Append(s, line)
      BY <1>1, <1>4, <2>3
    <2>5. stdout'[h][i] = line
      <3> HIDE DEF line
      <3>1. Len(stdout'[h]) = Len(s) + 1 /\ (i \in 1..Len(s) => stdout'[h][i] = s[i]) /\ stdout'[h][Len(s) + 1] = line
        BY <1>1, <2>4
      <3> QED BY <1>1, <1>4, <3>1
    <2> QED BY <2>1, <2>2, <2>3, <2>4, <2>5 DEF Accepting
  <1>5. CASE stdout' = stdout
    BY <1>5
  <1>6. ASSUME NEW c \in Callers, Use(c) \/ Close(c) \/ Cancel(c) \/ CallerStep(c) PROVE stdout' = stdout
    BY <1>6 DEF CallerStep, Use, Close, Cancel, TakeInitLock, StartCheck, Spawn, SpawnFails, StartReader, Notify, FinishInit,
       Send, Write, Receive, CloseCheck, CloseClear, CloseStop, CloseJoin, Closed, CloseRaised, processes
  <1>7. ASSUME NEW g \in Gens, ReaderStep(g) \/ Answer(g) \/ Ask(g) \/ Crash(g)
        PROVE  \/ TakeServerRequest(g) \/ RouteResponse(g) \/ ReadUnreadable(g) \/ Ask(g) \/ Answer(g)
               \/ stdout' = stdout
    BY <1>7 DEF ReaderStep, ReadMessage, HandlerReturns, HandlerRaises, Reply, ReadEof, FailAll, Crash, processes
  <1>8. CASE UNCHANGED vars
    BY <1>5, <1>8 DEF vars
  <1> QED BY <1>2, <1>3, <1>4, <1>5, <1>6, <1>7, <1>8 DEF Next

\* A process is asked what a task writes to it.
LEMMA AskedSources ==
  ASSUME Types, [Next]_vars, NEW h \in Gens, NEW id, Asked(h, id)'
  PROVE  Asked(h, id) \/ \E c \in Callers : Write(c) /\ Writable /\ h = proc /\ id = Id(c)
  <1>1. PICK s \in Seq(Ids) : s = stdin[h] /\ stdin \in [Gens -> Seq(Ids)]
    BY DEF Types, Processes
  <1>2. CASE \E i \in 1..Len(stdout'[h]) : stdout'[h][i].kind = "response" /\ stdout'[h][i].id = id
    <2>1. PICK i \in 1..Len(stdout'[h]) : stdout'[h][i].kind = "response" /\ stdout'[h][i].id = id
      BY <1>2
    <2>2. CASE \E j \in 1..Len(stdout[h]) : stdout'[h][i] = stdout[h][j]
      BY <2>1, <2>2 DEF Asked
    <2>3. CASE Len(stdin[h]) > 0 /\ stdout'[h][i].id = stdin[h][1]
      <3>1. 1 \in 1..Len(stdin[h])
        BY <1>1, <2>3
      <3> QED BY <2>1, <2>3, <3>1 DEF Asked
    <2> QED BY <2>1, <2>2, <2>3, LineSources
  <1>3. CASE \E i \in 1..Len(stdin'[h]) : stdin'[h][i] = id
    <2>1. PICK i \in 1..Len(stdin'[h]) : stdin'[h][i] = id
      BY <1>3
    <2>2. ASSUME NEW c \in Callers, Write(c), Writable PROVE Asked(h, id) \/ (h = proc /\ id = Id(c))
      <3>1. stdin' = [stdin EXCEPT ![proc] = Append(@, Id(c))]
        BY <2>2 DEF Write
      <3>2. CASE h # proc
        BY <1>1, <2>1, <3>1, <3>2 DEF Asked
      <3>3. CASE h = proc
        <4>1. stdin'[h] = Append(s, Id(c))
          BY <1>1, <3>1, <3>3
        <4>2. i \in 1..Len(s) \/ stdin'[h][i] = Id(c)
          BY <1>1, <4>1
        <4>3. i \in 1..Len(s) => stdin'[h][i] = s[i]
          BY <1>1, <4>1
        <4> QED BY <1>1, <2>1, <3>3, <4>2, <4>3 DEF Asked
      <3> QED BY <3>2, <3>3
    <2>3. ASSUME NEW g \in Gens, Answer(g) PROVE Asked(h, id)
      <3>1. stdin' = [stdin EXCEPT ![g] = Tail(@)] /\ stdin[g] # <<>>
        BY <2>3 DEF Answer
      <3>2. CASE h = g
        <4>1. stdin'[h] = Tail(s) /\ s # <<>>
          BY <1>1, <3>1, <3>2
        <4>2. Tail(s)[i] = s[i + 1] /\ i + 1 \in 1..Len(s)
          BY <1>1, <2>1, <4>1
        <4> QED BY <1>1, <2>1, <4>1, <4>2 DEF Asked
      <3>3. CASE h # g
        BY <1>1, <2>1, <3>1, <3>3 DEF Asked
      <3> QED BY <3>2, <3>3
    <2>4. CASE Fewer
      <3>1. stdin'[h] # <<>>
        BY <2>1
      <3> QED BY <2>1, <2>4, <3>1 DEF Fewer, Asked
    <2>5. ASSUME NEW c \in Callers, Use(c) \/ Close(c) \/ Cancel(c) \/ CallerStep(c), ~(Write(c) /\ Writable)
          PROVE  Fewer
      <3>1. CASE CloseStop(c)
        BY <3>1 DEF CloseStop, Fewer, Types, Processes
      <3>2. CASE ~CloseStop(c)
        <4>1. stdin' = stdin
          BY <2>5, <3>2 DEF CallerStep, Use, Close, Cancel, TakeInitLock, StartCheck, Spawn, SpawnFails, StartReader, Notify,
             FinishInit, Send, Write, Receive, CloseCheck, CloseClear, CloseJoin, Closed, CloseRaised, processes
        <4> QED BY <4>1 DEF Fewer
      <3> QED BY <3>1, <3>2
    <2>6. ASSUME NEW g \in Gens, ReaderStep(g) \/ Ask(g) \/ Crash(g) PROVE Fewer
      <3>1. stdin' = stdin \/ stdin' = [stdin EXCEPT ![g] = <<>>]
        BY <2>6 DEF ReaderStep, ReadMessage, RouteResponse, TakeServerRequest, HandlerReturns, HandlerRaises, Reply,
           ReadUnreadable, ReadEof, FailAll, Ask, Crash, processes
      <3> QED BY <3>1 DEF Fewer, Types, Processes
    <2>7. CASE UNCHANGED vars
      BY <2>4, <2>7 DEF vars, Fewer
    <2> QED BY <2>2, <2>3, <2>4, <2>5, <2>6, <2>7 DEF Next, CallerStep
  <1> QED BY <1>2, <1>3 DEF Asked

\* A use counts up the operations, and nothing else does.
LEMMA OperationNumbers ==
  ASSUME Types, NEW c \in Callers, Use(c) \/ Close(c) \/ Cancel(c) \/ CallerStep(c)
  PROVE  \/ caller'[c].op = caller[c].op /\ ~Use(c)
         \/ Use(c) /\ caller'[c].op = caller[c].op + 1
  <1>1. PICK t \in Tasks : t = caller[c] /\ caller \in [Callers -> Tasks] /\ t.at \in Asking \cup Shutting \cup {"idle"}
    BY Typed DEF Types, Clients, Tasks
  <1>2. CASE Use(c)
    <2>1. PICK where : caller'[c] = [t EXCEPT !.at = where, !.why = "op", !.op = t.op + 1, !.try = 1]
      BY <1>1, <1>2 DEF Use
    <2>2. caller'[c].op = t.op + 1
      BY <2>1 DEF Tasks
    <2> QED BY <1>1, <1>2, <2>2
  <1>3. CASE Quiet(c)
    BY <1>1, <1>3, QuietPasses, Moves DEF Passes, Quiet, Use, Goes, Ends, Close, TakeInitLock, StartCheck, Spawn, SpawnFails,
       StartReader, Notify, FinishInit, Write, Receive, CloseCheck, CloseClear, CloseStop, CloseJoin, Closed, CloseRaised
  <1>4. CASE Cancel(c) \/ Send(c) \/ (Write(c) /\ Writable) \/ (Receive(c) /\ Retried(c))
    <2>1. \/ \E w : caller'[c] = [t EXCEPT !.detached = w]
          \/ \E w, r : caller'[c] = [t EXCEPT !.at = w, !.result = r]
          \/ \E w, r : caller'[c] = [t EXCEPT !.at = w, !.gen = r]
          \/ \E w, r : caller'[c] = [t EXCEPT !.at = w, !.try = r]
      <3>1. Cancel(c) => caller'[c] = [t EXCEPT !.detached = TRUE]
        BY <1>1 DEF Cancel
      <3>2. Send(c) => caller'[c] = [t EXCEPT !.at = "write", !.result = "none"]
        BY <1>1 DEF Send
      <3>3. Write(c) /\ Writable => caller'[c] = [t EXCEPT !.at = "wait", !.gen = proc]
        BY <1>1 DEF Write
      <3>4. Receive(c) /\ Retried(c) => caller'[c] = [t EXCEPT !.at = "send", !.try = t.try + 1]
        BY <1>1 DEF Receive
      <3> QED BY ZenonT(40), <1>4, <3>1, <3>2, <3>3, <3>4
    <2>2. caller'[c].op = t.op
      BY <2>1 DEF Tasks
    <2>3. ~Use(c)
      <3>1. caller[c].at # "idle"
        BY <1>4 DEF Cancel, Send, Write, Receive
      <3> QED BY <3>1 DEF Use
    <2> QED BY <1>1, <2>2, <2>3
  <1> QED BY <1>2, <1>3, <1>4 DEF CallerStep, Quiet

LEMMA InitInitialisation == Init => Initialisation
  <1> SUFFICES ASSUME Init PROVE Initialisation
    OBVIOUS
  <1>1. \A c \in Callers : caller[c].at = "idle" /\ caller[c].why = "op"
    BY DEF Init, Idle
  <1>2. \A g \in Gens : stdin[g] = <<>> /\ stdout[g] = <<>> /\ server[g] = "none"
    BY DEF Init
  <1> QED BY <1>1, <1>2 DEF Initialisation, Once, Asked, Accepted, Served, Stopped, Present

\* A task asks its process once.
LEMMA OnceKept == Types /\ Once /\ [Next]_vars => Once'
  <1> SUFFICES ASSUME Types, Once, [Next]_vars, NEW g \in Gens, NEW id \in Ids, Asked(g, id)', id.why = "init"
               PROVE  OnceBy(g, id, caller'[id.caller])
    BY DEF Once, OnceBy, Before
  <1>1. PICK d \in Callers : d = id.caller /\ caller[d] \in Tasks /\ caller[d].op \in 0..MaxOps /\ id.op \in 1..MaxOps
    BY Typed
  <1>2. ASSUME NEW c \in Callers, Write(c), Writable, g = proc, id = Id(c)
        PROVE  OnceBy(g, id, caller'[d])
    <2>1. d = c /\ id.op = caller[c].op
      BY <1>1, <1>2 DEF Id
    <2> DEFINE u == [caller[c] EXCEPT !.at = "wait", !.gen = proc]
    <2>2. caller'[c] = u
      BY <1>2 DEF Write, Types, Clients
    <2>3. u.at = "wait" /\ u.gen = proc /\ u.op = caller[c].op
      BY <1>1, <2>1 DEF Tasks
    <2> HIDE DEF u
    <2> QED BY <1>1, <1>2, <2>1, <2>2, <2>3 DEF OnceBy, Before
  <1>3. ASSUME Asked(g, id), NEW c \in Callers, Use(c) \/ Close(c) \/ Cancel(c) \/ CallerStep(c)
        PROVE  OnceBy(g, id, caller'[d])
    <2>1. OnceBy(g, id, caller[d])
      BY <1>1, <1>3 DEF Once
    <2>2. CASE d # c
      BY <1>3, <2>1, <2>2, OthersStay
    <2>3. CASE d = c /\ Use(c)
      <3>1. caller'[d].op = caller[d].op + 1
        BY <1>3, <2>3, OperationNumbers
      <3> QED BY <1>1, <2>1, <3>1, Bounds DEF OnceBy
    <2>4. CASE d = c /\ ~Use(c)
      <3>1. caller'[c].op = caller[c].op
        BY <1>3, <2>4, OperationNumbers
      <3>2. SUFFICES ASSUME id.op = caller[c].op
                     PROVE  ~Before(caller'[c]) /\ (caller'[c].why = "init" /\ caller'[c].at = "wait" => caller'[c].gen = g)
        BY <2>1, <2>4, <3>1 DEF OnceBy
      <3>3. ~Before(caller[c]) /\ (caller[c].why = "init" /\ caller[c].at = "wait" => caller[c].gen = g)
        BY <2>1, <2>4, <3>2 DEF OnceBy
      <3>4. Role(caller[c])
        BY DEF Types, Roles
      <3>5. CASE Cancel(c) \/ Close(c) \/ TakeInitLock(c) \/ StartCheck(c) \/ Spawn(c) \/ SpawnFails(c) \/ StartReader(c)
        BY <3>3, <3>4, <3>5, Moves DEF Before, Goes, Same, Ends, Aborts, Role
      <3>6. CASE Notify(c) \/ FinishInit(c) \/ Send(c) \/ Write(c)
        BY <3>3, <3>4, <3>6, Moves DEF Before, Goes, Same, Ends, Aborts, Role, Notify
      <3>7. CASE Receive(c)
        \* initialize is not tried again.
        <4>1. caller[c].why = "init" => caller'[c].at # "send"
          <5>1. caller[c].why = "init" => Fail(c) \/ caller'[c].at = "notify"
            <6>1. caller[c].why = "init" => \/ Fail(c)
                    \/ caller'[c] = [caller[c] EXCEPT !.at = "notify", !.result = "none", !.gen = None]
              BY <3>7 DEF Receive, Retried, Types, Clients
            <6>2. [caller[c] EXCEPT !.at = "notify", !.result = "none", !.gen = None].at = "notify"
              BY <1>1, <2>4 DEF Tasks
            <6> QED BY <6>1, <6>2
          <5> QED BY <5>1, Ending DEF Ends, Aborts
        <4> QED BY <3>3, <3>7, <4>1, Moves DEF Before, Ends, Aborts
      <3>8. CASE CloseCheck(c) \/ CloseClear(c) \/ CloseStop(c) \/ CloseJoin(c) \/ Closed(c) \/ CloseRaised(c)
        BY <3>3, <3>4, <3>8, Moves DEF Before, Goes, Same, Ends, Role, Shutting
      <3> QED BY <1>3, <2>4, <3>5, <3>6, <3>7, <3>8 DEF CallerStep
    <2> QED BY <2>2, <2>3, <2>4
  <1>4. ASSUME Asked(g, id), NEW h \in Gens, ReaderStep(h) \/ Answer(h) \/ Ask(h) \/ Crash(h)
        PROVE  OnceBy(g, id, caller'[d])
    BY <1>1, <1>4, TasksStay DEF Once, OnceBy, Before, Same
  <1>5. ASSUME Asked(g, id), UNCHANGED vars PROVE OnceBy(g, id, caller'[d])
    BY <1>1, <1>5 DEF Once, vars
  <1> QED BY <1>1, <1>2, <1>3, <1>4, <1>5, AskedSources DEF Next

\* A process that says it accepted has.
LEMMA AcceptedKept == Types /\ Accepted /\ [Next]_vars => Accepted'
  <1> SUFFICES ASSUME Types, Accepted, [Next]_vars, NEW g \in Gens, NEW i \in 1..Len(stdout'[g]), Accepting(stdout'[g][i])
               PROVE  g \in ready'
    BY DEF Accepted, Accepting
  <1>1. stdout'[g][i].kind = "response"
    BY DEF Accepting
  <1> QED BY <1>1, LineSources, ReadyStays DEF Accepted

\* A task's answer to initialize comes from the process it asked.
LEMMA ServedKept == Types /\ Awaited /\ Once /\ Accepted /\ Served /\ [Next]_vars => Served'
  <1> SUFFICES ASSUME Types, Awaited, Once, Accepted, Served, [Next]_vars,
                      NEW d \in Callers, caller'[d].why = "init", caller'[d].result = "ok"
               PROVE  caller'[d].at # "write" /\ (caller'[d].at = "wait" => caller'[d].gen \in ready')
    BY DEF Served
  <1>1. caller[d] \in Tasks /\ caller \in [Callers -> Tasks] /\ ready \subseteq ready'
    BY ReadyStays DEF Types, Clients
  <1>2. CASE caller'[d] = caller[d]
    BY <1>1, <1>2 DEF Served
  <1>3. ASSUME NEW c \in Callers, Use(c) \/ Close(c) \/ Cancel(c) \/ CallerStep(c), d = c
        PROVE  caller'[d].at # "write" /\ (caller'[d].at = "wait" => caller'[d].gen \in ready')
    <2>1. CASE Send(c)
      <3>1. caller'[c] = [caller[c] EXCEPT !.at = "write", !.result = "none"]
        BY <1>1, <2>1 DEF Send
      <3>2. caller'[c].result = "none"
        BY <1>1, <1>3, <3>1 DEF Tasks
      <3> QED BY <1>3, <3>2
    <2>2. CASE Write(c)
      <3>1. CASE Writable
        <4>1. caller'[c] = [caller[c] EXCEPT !.at = "wait", !.gen = proc] /\ caller[c].at = "write"
          BY <1>1, <2>2, <3>1 DEF Write
        <4>2. caller[c].why = "init" /\ caller[c].result = "ok"
          BY <1>1, <1>3, <4>1 DEF Tasks
        <4> QED BY <4>1, <4>2 DEF Served
      <3>2. CASE ~Writable
        BY <1>3, <2>2, <3>2, Ending DEF Write, Ends, Aborts
      <3> QED BY <3>1, <3>2
    <2>3. CASE Cancel(c)
      <3>1. caller'[c] = [caller[c] EXCEPT !.detached = TRUE]
        BY <1>1, <2>3 DEF Cancel
      <3>2. /\ caller'[c].why = caller[c].why /\ caller'[c].result = caller[c].result
            /\ caller'[c].at = caller[c].at /\ caller'[c].gen = caller[c].gen
        BY <1>1, <1>3, <3>1 DEF Tasks
      <3> QED BY <1>1, <1>3, <3>2 DEF Served
    <2>4. CASE ~Send(c) /\ ~Write(c) /\ ~Cancel(c)
      BY <1>3, <2>4, Moves DEF CallerStep, Goes, Same, Ends, Aborts
    <2> QED BY <2>1, <2>2, <2>3, <2>4
  <1>4. ASSUME NEW g \in Gens, RouteResponse(g), caller'[d] # caller[d]
        PROVE  caller'[d].at # "write" /\ (caller'[d].at = "wait" => caller'[d].gen \in ready')
    <2>1. PICK p \in Gens : p = reader[g].of /\ stdout[p] # <<>>
      BY <1>4 DEF RouteResponse, Types, Sources
    <2>2. PICK s \in Seq(Lines) : s = stdout[p] /\ s # <<>>
      BY <2>1 DEF Types, Processes
    <2>3. 1 \in 1..Len(s) /\ Head(s) = s[1]
      BY <2>2
    <2>4. PICK line : line = s[1] /\ line.kind = "response" /\ line.id \in Ids
      BY <1>4, <2>1, <2>2, <2>3, Typed DEF RouteResponse
    <2>5. line.id \in waiters /\ line.id.caller = d /\ caller'[d] = [caller[d] EXCEPT !.result = line.value]
      BY <1>4, <2>1, <2>2, <2>3, <2>4 DEF RouteResponse
    <2>6. Alike(d) /\ line.value = "ok" /\ caller'[d].gen = caller[d].gen
      <3>1. Alike(d) /\ caller'[d].result = line.value
        BY <2>5, Results
      <3>2. caller'[d].gen = caller[d].gen
        BY <1>1, <2>5 DEF Tasks
      <3> QED BY <3>1, <3>2
    <2>7. line.id = Id(d) /\ caller[d].at \in {"write", "wait"}
      BY <2>5 DEF Awaited
    <2>8. line.id.why = "init" /\ line.id.op = caller[d].op
      BY <2>6, <2>7 DEF Id, Alike
    <2>9. OnceBy(p, line.id, caller[d])
      BY <2>2, <2>3, <2>4, <2>5, <2>8 DEF Once, Asked
    <2>10. caller[d].at = "wait" /\ caller[d].gen = p
      BY <2>6, <2>7, <2>8, <2>9 DEF OnceBy, Before, Alike
    <2>11. p \in ready
      BY <2>2, <2>3, <2>4, <2>6, <2>8 DEF Accepted, Accepting
    <2> QED BY <1>1, <2>6, <2>10, <2>11 DEF Alike
  <1>5. ASSUME NEW g \in Gens, FailAll(g), caller'[d] # caller[d] PROVE FALSE
    <2>1. caller'[d] = [caller[d] EXCEPT !.result = "failed"]
      BY <1>5 DEF FailAll
    <2> QED BY <2>1, Results
  <1>6. ASSUME NEW g \in Gens, ReaderStep(g) \/ Answer(g) \/ Ask(g) \/ Crash(g), ~RouteResponse(g), ~FailAll(g)
        PROVE  caller' = caller
    BY <1>6 DEF ReaderStep, ReadMessage, TakeServerRequest, HandlerReturns, HandlerRaises, Reply, ReadUnreadable, ReadEof,
       Answer, Ask, Crash
  <1>7. CASE UNCHANGED vars
    BY <1>2, <1>7 DEF vars
  <1>8. ASSUME NEW c \in Callers, Use(c) \/ Close(c) \/ Cancel(c) \/ CallerStep(c), d # c
        PROVE  caller'[d] = caller[d]
    BY <1>8, OthersStay
  <1> QED BY <1>2, <1>3, <1>4, <1>5, <1>6, <1>7, <1>8 DEF Next

\* A close stops what it has taken away from the client.
LEMMA StoppedKept == Types /\ Control /\ Stopped /\ [Next]_vars => Stopped'
  <1> SUFFICES ASSUME Types, Control, Stopped, [Next]_vars PROVE Stopped'
    OBVIOUS
  <1>1. /\ server \in [Gens -> {"none", "running", "crashed", "gone"}] /\ None \notin Gens
        /\ \A c \in Callers : caller[c].at \in {"clear", "stop"} => caller[c].gen \in Gens
    BY Bounds DEF Types, Processes, Roles, Role, Gens, None
  <1>2. ASSUME NEW c \in Callers, Use(c) \/ Close(c) \/ Cancel(c) \/ CallerStep(c) PROVE Stopped'
    <2>1. \A d \in Callers \ {c} : caller'[d] = caller[d]
      BY <1>2, OthersStay
    <2>2. CASE Spawn(c)
      <3>1. PICK n \in Gens : n = used.starts + 1 /\ proc' = n /\ server' = [server EXCEPT ![n] = "running"]
        <4>1. used.starts + 1 \in Gens
          BY <2>2, Bounds DEF Spawn, Types, Clients, Gens
        <4> QED BY <2>2, <4>1 DEF Spawn
      <3>2. server[n] = "none"
        BY <3>1 DEF Control, Counted, Types, Clients
      <3>3. caller'[c].at = "reader"
        BY <2>2, Moves DEF Goes
      <3>4. ASSUME NEW d \in Callers, caller'[d].at = "stop" PROVE caller'[d].gen # n
        BY <2>1, <3>2, <3>3, <3>4 DEF Control, Counted
      <3> QED BY <1>1, <3>1, <3>4 DEF Stopped
    <2>3. CASE CloseClear(c)
      <3>1. proc' = None /\ server' = server
        BY <2>3 DEF CloseClear, processes
      <3>2. ASSUME NEW d \in Callers, caller'[d].at = "stop" PROVE caller'[d].gen \in Gens
        BY <1>1, <2>1, <2>3, <3>2, Moves DEF Goes, Same
      <3> QED BY <1>1, <3>1, <3>2 DEF Stopped
    <2>4. CASE CloseStop(c)
      <3>1. /\ server' = server \/ server' = [server EXCEPT ![caller[c].gen] = "gone"]
            /\ proc' = proc /\ caller[c].at = "stop"
        BY <2>4 DEF CloseStop
      <3>2. caller'[c].at # "stop"
        BY <2>4, Moves
      <3> QED BY <1>1, <2>1, <3>1, <3>2 DEF Stopped
    <2>5. CASE ~Spawn(c) /\ ~CloseClear(c) /\ ~CloseStop(c)
      <3>1. proc' = proc /\ server' = server
        BY <1>2, <2>5, ProcessChanges DEF CallerStep, Use, Close, Cancel, TakeInitLock, StartCheck, SpawnFails, StartReader,
           Notify, FinishInit, Send, Write, Receive, CloseCheck, CloseJoin, Closed, CloseRaised, processes
      <3>2. caller'[c].at = "stop" => caller[c].at = "stop" /\ caller'[c].gen = caller[c].gen
        BY <1>2, <2>5, Moves DEF CallerStep, Goes, Same, Ends, Aborts
      <3> QED BY <2>1, <3>1, <3>2 DEF Stopped
    <2> QED BY <2>2, <2>3, <2>4, <2>5
  <1>3. ASSUME NEW g \in Gens, ReaderStep(g) \/ Answer(g) \/ Ask(g) \/ Crash(g) PROVE Stopped'
    <2>1. server' = server \/ server' = [server EXCEPT ![g] = "crashed"]
      BY <1>3 DEF ReaderStep, ReadMessage, RouteResponse, TakeServerRequest, HandlerReturns, HandlerRaises, Reply,
         ReadUnreadable, ReadEof, FailAll, Answer, Ask, Crash, processes
    <2> QED BY <1>1, <1>3, <2>1, TasksStay DEF Stopped, Same
  <1>4. CASE UNCHANGED vars
    BY <1>4 DEF vars, Stopped
  <1> QED BY <1>2, <1>3, <1>4 DEF Next

\* The process of an initialisation stays the client's.
LEMMA PresentKept == Types /\ Control /\ Served /\ Present /\ [Next]_vars => Present'
  <1> SUFFICES ASSUME Types, Control, Served, Present, [Next]_vars, ~Overlapped(Astray)',
                      NEW d \in Callers, caller'[d].why = "init", ~caller'[d].detached
               PROVE  /\ ~initialized'
                      /\ caller'[d].at = "wait" => caller'[d].gen = proc'
                      /\ caller'[d].at \in {"notify", "finish"} => proc' \in ready'
    BY DEF Present
  <1>1. ready \subseteq ready'
    BY ReadyStays
  <1>2. ASSUME NEW c \in Callers, Use(c) \/ Close(c) \/ Cancel(c) \/ CallerStep(c)
        PROVE  /\ ~initialized'
               /\ caller'[d].at = "wait" => caller'[d].gen = proc'
               /\ caller'[d].at \in {"notify", "finish"} => proc' \in ready'
    <2>1. (\A e \in Callers \ {c} : caller'[e] = caller[e]) /\ ~Overlapped(Astray)
      BY <1>2, OthersStay DEF Overlapped
    <2>2. ~Overlapped({"cancelled start"}) /\ ~Overlapped({"close and start"})
      BY <2>1 DEF Overlapped, Astray, Stale
    <2>3. \A e \in Callers : Role(caller[e]) /\ (caller[e].at = "finish" => caller[e].why = "init")
      BY DEF Types, Roles, Role, Initialising
    <2>4. CASE d = c /\ TakeInitLock(c)
      <3>1. caller[c].why = "op" /\ caller[c].at = "lock"
        BY <2>3, <2>4 DEF TakeInitLock, Role
      <3>2. caller'[c].at = "start" /\ ~initialized
        BY <2>4, <3>1, Moves DEF Goes, Same
      <3> QED BY <2>4, <3>2 DEF TakeInitLock
    <2>5. CASE d # c \/ ~TakeInitLock(c)
      <3>1. caller[d].why = "init" /\ ~caller[d].detached
        BY <1>2, <2>1, <2>5, Arrivals
      <3>2. /\ ~initialized
            /\ caller[d].at = "wait" => caller[d].gen = proc
            /\ caller[d].at \in {"notify", "finish"} => proc \in ready
        BY <2>1, <3>1 DEF Present
      <3>3. ~FinishInit(c)
        <4>1. CASE d = c
          BY <3>1, <4>1, Moves DEF Ends
        <4>2. CASE d # c
          <5>1. FinishInit(c) => caller[c].why = "init"
            BY <2>3 DEF FinishInit
          <5> QED BY <2>2, <3>1, <4>2, <5>1, OneStart DEF Control
        <4> QED BY <4>1, <4>2
      <3>4. ~initialized'
        BY <1>2, <3>2, <3>3 DEF CallerStep, Use, Close, Cancel, TakeInitLock, StartCheck, Spawn, SpawnFails, StartReader,
           Notify, Send, Write, Receive, CloseCheck, CloseClear, CloseStop, CloseJoin, Closed, CloseRaised
      <3>5. proc' = proc \/ (d = c /\ Spawn(c))
        <4>1. ~CloseClear(c)
          <5>1. CloseClear(c) => c \in Stopping
            BY DEF CloseClear, Stopping
          <5> QED BY <2>2, <3>1, <5>1 DEF Control, Noticed
        <4>2. Spawn(c) => d = c
          <5>1. Spawn(c) => caller[c].why = "init"
            BY <2>3 DEF Spawn, Role, Initialising
          <5> QED BY <2>2, <3>1, <5>1, OneStart DEF Control
        <4> QED BY <1>2, <4>1, <4>2, ProcessChanges
      <3>6. CASE d # c
        BY <1>1, <2>1, <3>2, <3>4, <3>5, <3>6
      <3>7. CASE d = c /\ Write(c)
        <4>1. Writable => caller'[c] = [caller[c] EXCEPT !.at = "wait", !.gen = proc]
          BY <3>7 DEF Write, Types, Clients
        <4>2. Writable => caller'[c].at = "wait" /\ caller'[c].gen = proc
          BY <4>1, Typed DEF Tasks
        <4>3. ~Writable => Ends(c) \/ Aborts(c)
          BY <3>7, Ending DEF Write
        <4>4. proc' = proc
          BY <3>7 DEF Write
        <4> QED BY <3>4, <3>7, <4>2, <4>3, <4>4 DEF Ends, Aborts
      <3>8. CASE d = c /\ Receive(c)
        <4>1. caller[c].at = "wait" /\ proc' = proc
          BY <3>8 DEF Receive, client
        <4>2. CASE caller[c].result = "ok"
          <5>1. proc \in ready
            BY <3>1, <3>2, <3>8, <4>1, <4>2 DEF Served
          <5>2. caller'[c].at # "wait"
            BY <3>8, Moves DEF Ends, Aborts
          <5> QED BY <1>1, <3>4, <3>8, <4>1, <5>1, <5>2
        <4>3. CASE caller[c].result # "ok"
          <5>1. Fail(c)
            BY <3>1, <3>8, <4>3 DEF Receive, Retried
          <5> QED BY <3>4, <3>8, <5>1, Ending DEF Ends, Aborts
        <4> QED BY <4>2, <4>3
      <3>9. CASE d = c /\ ~Write(c) /\ ~Receive(c)
        <4>1. caller'[c].at # "wait" /\ (caller'[c].at \in {"notify", "finish"} => Notify(c))
          BY <1>2, <2>5, <3>1, <3>3, <3>9, Moves DEF CallerStep, Goes, Same, Ends, Aborts
        <4>2. Notify(c) => caller[c].at = "notify" /\ proc' = proc
          BY DEF Notify
        <4> QED BY <1>1, <3>2, <3>4, <3>9, <4>1, <4>2
      <3> QED BY <3>6, <3>7, <3>8, <3>9
    <2> QED BY <2>4, <2>5
  <1>3. ASSUME NEW g \in Gens, ReaderStep(g) \/ Answer(g) \/ Ask(g) \/ Crash(g)
        PROVE  /\ ~initialized'
               /\ caller'[d].at = "wait" => caller'[d].gen = proc'
               /\ caller'[d].at \in {"notify", "finish"} => proc' \in ready'
    <2>1. ~Overlapped(Astray)
      BY <1>3, TasksStay DEF Overlapped
    <2> QED BY <1>1, <1>3, <2>1, TasksStay DEF Present, Same
  <1>4. CASE UNCHANGED vars
    BY <1>4 DEF vars, Present, Overlapped
  <1> QED BY <1>2, <1>3, <1>4 DEF Next

LEMMA NextInitialisation ==
  Types /\ Control /\ Awaited /\ Initialisation /\ [Next]_vars => Initialisation'
  BY OnceKept, AcceptedKept, ServedKept, StoppedKept, PresentKept DEF Initialisation

\* The process a client has, when it takes itself for initialised.
Good == proc # None /\ server[proc] # "gone" /\ (proc \in ready \/ Overlapped({"cancelled start"}))

LEMMA UsableKept ==
  Types /\ Control /\ Present /\ Stopped' /\ UsableWhenInitialized /\ [Next]_vars => UsableWhenInitialized'
  <1> SUFFICES ASSUME Types, Control, Present, Stopped', UsableWhenInitialized, [Next]_vars,
                      ~Overlapped(Stale)', initialized'
               PROVE  Good' \/ \E d \in Callers : Closing(d)'
    BY DEF UsableWhenInitialized, Good, Stale
  <1>1. Types' /\ ready \subseteq ready'
    BY NextTypes, ReadyStays
  <1>2. proc' # None => server'[proc'] # "gone"
    BY <1>1 DEF Types, Processes, Stopped
  <1>3. ASSUME NEW c \in Callers, Use(c) \/ Close(c) \/ Cancel(c) \/ CallerStep(c)
        PROVE  Good' \/ \E d \in Callers : Closing(d)'
    <2>1. /\ \A e \in Callers \ {c} : caller'[e] = caller[e]
          /\ ~Overlapped(Stale) /\ (Overlapped({"cancelled start"}) => Overlapped({"cancelled start"})')
      BY <1>3, OthersStay DEF Overlapped
    <2>2. CASE FinishInit(c) /\ ~initialized
      <3>1. caller[c].at = "finish" /\ ~caller[c].detached /\ caller[c].why = "init" /\ proc' = proc
        BY <2>2 DEF FinishInit, client, Types, Roles, Role, Initialising
      <3>2. proc # None
        BY <2>1, <3>1 DEF Control, Finishing
      <3>3. proc \in ready \/ Overlapped({"cancelled start"})
        BY <2>1, <3>1 DEF Present, Overlapped, Astray
      <3> QED BY <1>1, <1>2, <2>1, <3>1, <3>2, <3>3 DEF Good
    <2>3. CASE CloseClear(c)
      <3>1. Closing(c) /\ caller'[c].why = caller[c].why
        BY <2>3, Moves DEF Same, CloseClear, Types, Roles, Role, Shutting, Closing
      <3> QED BY <3>1 DEF Closing
    <2>4. CASE ~CloseClear(c) /\ ~(FinishInit(c) /\ ~initialized)
      <3>1. initialized
        BY <1>3, <2>4 DEF CallerStep, Use, Close, Cancel, TakeInitLock, StartCheck, Spawn, SpawnFails, StartReader, Notify,
           FinishInit, Send, Write, Receive, CloseCheck, CloseStop, CloseJoin, Closed, CloseRaised, Types, Clients
      <3>2. Good \/ \E d \in Callers : Closing(d)
        BY <2>1, <3>1 DEF UsableWhenInitialized, Stale, Good
      <3>3. CASE Good
        <4>1. CASE Spawn(c)
          \* Only a start whose task is gone is still on its way.
          <5>1. caller[c].why = "init" /\ proc' # None
            <6>1. caller[c].why = "init"
              BY <4>1 DEF Spawn, Types, Roles, Role, Initialising
            <6>2. proc' \in Nat \ {0}
              BY <4>1 DEF Spawn, Types, Clients
            <6> QED BY <6>1, <6>2 DEF None
          <5>2. Overlapped({"cancelled start"})
            BY <2>1, <3>1, <5>1 DEF Present, Overlapped, Astray, Control, Noticed
          <5> QED BY <1>2, <2>1, <5>1, <5>2 DEF Good
        <4>2. CASE ~Spawn(c)
          <5>1. proc' = proc
            BY <1>3, <2>4, <4>2, ProcessChanges
          <5> QED BY <1>1, <1>2, <2>1, <3>3, <5>1 DEF Good
        <4> QED BY <4>1, <4>2
      <3>4. ASSUME NEW d \in Callers, Closing(d), ~Closing(d)' PROVE FALSE
        <4>1. d = c /\ caller[c].at \in {"closed", "raised"}
          <5>1. d = c
            BY <2>1, <3>4 DEF Closing
          <5> QED BY <1>3, <3>4, <5>1, Arrivals
        <4>2. caller[c].at = "closed" /\ ~caller[c].detached
          BY <2>1, <3>4, <4>1 DEF Control, Noticed, Overlapped, Stale
        <4>3. Closed(c)
          BY <1>3, <3>4, <4>1, <4>2, Moves DEF CallerStep, Goes, Closing
        <4> QED BY <4>2, <4>3 DEF Closed
      <3> QED BY <3>2, <3>3, <3>4
    <2> QED BY <2>2, <2>3, <2>4
  <1>4. ASSUME NEW g \in Gens, ReaderStep(g) \/ Answer(g) \/ Ask(g) \/ Crash(g)
        PROVE  Good' \/ \E d \in Callers : Closing(d)'
    <2>1. /\ \A c \in Callers : Closing(c)' <=> Closing(c)
          /\ proc' = proc /\ initialized' = initialized /\ ~Overlapped(Stale)
          /\ Overlapped({"cancelled start"}) => Overlapped({"cancelled start"})'
      BY <1>4, TasksStay DEF Same, Overlapped, Closing
    <2>2. Good \/ \E d \in Callers : Closing(d)
      BY <2>1 DEF UsableWhenInitialized, Stale, Good
    <2> QED BY <1>1, <1>2, <2>1, <2>2 DEF Good
  <1>5. CASE UNCHANGED vars
    <2>1. UNCHANGED <<proc, initialized, caller, overlaps, server, ready>>
      BY <1>5 DEF vars
    <2>2. ~Overlapped(Stale) /\ \A c \in Callers : Closing(c)' <=> Closing(c)
      BY <2>1 DEF Overlapped, Closing
    <2> QED BY <2>1, <2>2 DEF UsableWhenInitialized, Stale, Good, Overlapped
  <1> QED BY <1>3, <1>4, <1>5 DEF Next

\* A client that takes itself for initialised is being closed, or has a process that no
\* close has stopped and that has accepted initialize.
THEOREM InitializedIsUsable == Spec => []UsableWhenInitialized
  <1>1. Init => UsableWhenInitialized
    BY DEF Init, UsableWhenInitialized
  <1>2. Retrying => Awaited
    BY DEF Retrying
  <1>3. Initialisation => Present /\ Stopped
    BY DEF Initialisation
  <1> QED BY <1>1, <1>2, <1>3, InitTypes, NextTypes, InitControl, NextControl, InitRetrying, NextRetrying,
      InitInitialisation, NextInitialisation, UsableKept, PTL DEF Spec
=============================================================================
