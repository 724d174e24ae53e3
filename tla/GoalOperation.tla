---------------------------- MODULE GoalOperation ----------------------------
(***************************************************************************)
(* Goal operations on one conversation thread (_goal.py and the goal part  *)
(* of client.py and _message_router.py).  A goal makes the app-server run  *)
(* physical turns one after the other; the SDK shows them as one logical   *)
(* turn.  The operation, named by its _GoalOperationState, is started      *)
(* inside the thread-start lock (see ThreadStartLock), observed by the     *)
(* reader thread and consumed by a stream.                                 *)
(*                                                                         *)
(* The app-server is external: it carries a request out, refuses it, or    *)
(* fails before or after it has taken effect, and its notifications are    *)
(* those the code expects, in every order the code allows for.  Events     *)
(* inside a turn change no state of an operation and are left out, and so  *)
(* is what the server does once nobody reads its stdout any more.          *)
(***************************************************************************)
EXTENDS Naturals, Sequences

CONSTANTS Ops,          \* callers: each starts a goal operation or a turn
          NoOp,
          MaxTurns,     \* bound: physical turns the server runs
          StoredGoals,  \* subset of {"none", "active"}: what the thread may have stored
          Leavers,      \* bound: callers whose streams may be closed or interrupted early
          Unheard,      \* bound: callers whose pauses and interrupts may not be carried out
          MayFail       \* whether the transport may fail

ASSUME OpsAssumption == /\ NoOp \notin Ops /\ Leavers \cup Unheard \subseteq Ops /\ MaxTurns \in Nat
                        /\ StoredGoals \subseteq {"none", "active"} /\ MayFail \in BOOLEAN

VARIABLES
    goal,      \* server: status of the thread's goal, or "none"
    goalOf,    \* server: the operation that set it; NoOp for the stored one
    turn,      \* server: the active physical turn, or 0
    turns,     \* server: turns[k] is the goal physical turn k works for; NoOp for
               \* the stored goal's turns and for those of turn_start
    overtaken, \* history: operations whose goal/clear met a turn that had started after
               \* their idle check
    unpaused,  \* history: operations whose pause the server did not carry out while a
               \* goal was active
    unstopped, \* history: operations whose interrupt it did not carry out while a turn ran
    wire,      \* stdout: what the server has sent and the reader has not read
    request,   \* the request each operation's thread has outstanding
    reply,     \* what the response queue of that request holds
    lock,      \* holder of the thread-start lock
    route,     \* _goal_operations of the thread
    at,        \* where the thread of each operation is
    state,     \* each _GoalOperationState, and whether its start was abandoned
    queue,     \* _notifications of each operation
    cursor,    \* each _GoalStreamCursor
    out,       \* logical events each stream has returned
    hand,      \* what the reader is doing with the notification it has read
    transport  \* "up" until the reader thread ends; then "down" when the process is
               \* gone, "deaf" when it still takes requests nobody reads the answers to

historyVars == <<overtaken, unpaused, unstopped>>
serverVars == <<goal, goalOf, turn, turns, historyVars>>
opVars == <<state, queue>>
streamVars == <<cursor, out>>
vars == <<serverVars, wire, request, reply, lock, route, at, opVars, streamVars, hand, transport>>

None == [kind |-> "none"]
Request(kind, k) == [kind |-> kind, turn |-> k]
Response(o, answer, k) == [kind |-> "response", op |-> o, answer |-> answer, turn |-> k]
Note(kind, k, status) == [kind |-> kind, turn |-> k, status |-> status]
Goal(status) == Note("goal", 0, status)
Cleared == Note("cleared", 0, "none")
Failure == Note("failure", 0, "none")
Closed == Note("closed", 0, "none")

Terminal(status) == status \in {"complete", "paused"}

Init ==
    /\ goal \in StoredGoals
    /\ goalOf = NoOp /\ turn = 0 /\ turns = <<>> /\ wire = <<>>
    /\ overtaken = {} /\ unpaused = {} /\ unstopped = {}
    /\ request = [o \in Ops |-> None]
    /\ reply = [o \in Ops |-> None]
    /\ lock = NoOp /\ route = NoOp
    /\ at = [o \in Ops |-> "out"]
    /\ state = [o \in Ops |-> [first |-> 0, current |-> 0, completed |-> 0, status |-> "none",
                               cleared |-> FALSE, routing |-> FALSE, failed |-> FALSE,
                               finished |-> FALSE, abandoned |-> FALSE]]
    /\ queue = [o \in Ops |-> <<>>]
    /\ cursor = [o \in Ops |-> [started |-> FALSE, active |-> FALSE, last |-> None,
                                failed |-> None, status |-> "none", cleared |-> FALSE]]
    /\ out = [o \in Ops |-> <<>>]
    /\ hand = None
    /\ transport = "up"

-----------------------------------------------------------------------------
(* The app-server (external).                                              *)

ServerStartsTurn ==
    /\ transport = "up"
    /\ goal = "active" /\ turn = 0 /\ Len(turns) < MaxTurns
    /\ turns' = Append(turns, goalOf)
    /\ turn' = Len(turns) + 1
    /\ wire' = Append(wire, Note("started", turn', "none"))
    /\ UNCHANGED <<goal, goalOf, historyVars>>

ServerEndsTurn ==
    /\ transport = "up"
    /\ turn # 0
    /\ turn' = 0
    /\ \E status \in {"completed", "failed"} : wire' = Append(wire, Note("completed", turn, status))
    /\ UNCHANGED <<goal, goalOf, turns, historyVars>>

\* A turn of the goal reports it complete, or it is blocked or out of budget.
ServerSettlesGoal ==
    /\ transport = "up"
    /\ goal = "active" /\ \E k \in DOMAIN turns : turns[k] = goalOf
    /\ goal' = "complete"
    /\ wire' = Append(wire, Goal("complete"))
    /\ UNCHANGED <<goalOf, turn, turns, historyVars>>

\* An answer that is not "ok" stands for an error response, and for a response
\* the client refuses: a thread that is not idle or not persisted.
ServerReads(o) ==
    /\ request[o].kind = "read"
    /\ \E answer \in {"ok", "invalid"} :
          /\ answer = "ok" => turn = 0
          /\ wire' = Append(wire, Response(o, answer, 0))
    /\ UNCHANGED serverVars

ServerClears(o) ==
    /\ request[o].kind = "clear"
    /\ \/ \E answer \in {"ok", "error"} :
            /\ goal' = "none"
            /\ LET sent == Response(o, answer, 0) IN
               IF goal = "none" THEN wire' = Append(wire, sent)
               ELSE wire' \in {wire \o <<sent, Cleared>>, wire \o <<Cleared, sent>>}
            /\ overtaken' = IF turn = 0 THEN overtaken ELSE overtaken \cup {o}
       \/ \E answer \in {"invalid", "error"} :
            /\ UNCHANGED <<goal, overtaken>>
            /\ wire' = Append(wire, Response(o, answer, 0))
    /\ UNCHANGED <<goalOf, turn, turns, unpaused, unstopped>>

ServerSets(o) ==
    /\ request[o].kind = "set"
    /\ \/ \E answer \in {"ok", "error"} :
            /\ goal' = "active" /\ goalOf' = o
            /\ wire' \in {wire \o <<Response(o, answer, 0), Goal("active")>>,
                          wire \o <<Goal("active"), Response(o, answer, 0)>>}
       \/ \E answer \in {"invalid", "error"} :
            /\ UNCHANGED <<goal, goalOf>>
            /\ wire' = Append(wire, Response(o, answer, 0))
    /\ UNCHANGED <<turn, turns, historyVars>>

\* Carried out or not: cancel_goal_operation does not look at the answer.
ServerPauses(o) ==
    /\ request[o].kind = "pause"
    /\ \/ /\ goal = "active" /\ goal' = "paused"
          /\ wire' = wire \o <<Goal("paused"), Response(o, "ok", 0)>>
          /\ UNCHANGED unpaused
       \/ /\ goal = "active" => o \in Unheard
          /\ wire' = Append(wire, Response(o, "error", 0))
          /\ unpaused' = IF goal = "active" THEN unpaused \cup {o} ELSE unpaused
          /\ UNCHANGED goal
    /\ UNCHANGED <<goalOf, turn, turns, overtaken, unstopped>>

\* Of the answers, _interrupt_goal_operation looks only for "expected active turn id
\* ... but found ...", which names the active turn.
ServerInterrupts(o) ==
    /\ request[o].kind = "interrupt"
    /\ \/ /\ turn = request[o].turn /\ turn' = 0
          /\ wire' = wire \o <<Response(o, "ok", 0), Note("completed", turn, "interrupted")>>
          /\ UNCHANGED unstopped
       \/ /\ turn \notin {0, request[o].turn}
          /\ wire' = Append(wire, Response(o, "expected", turn))
          /\ UNCHANGED <<turn, unstopped>>
       \/ /\ turn # 0 => o \in Unheard
          /\ wire' = Append(wire, Response(o, "error", 0))
          /\ unstopped' = IF turn # 0 THEN unstopped \cup {o} ELSE unstopped
          /\ UNCHANGED turn
    /\ UNCHANGED <<goal, goalOf, turns, overtaken, unpaused>>

\* A turn that is not the goal's: the one turn_start asks for.
ServerAcceptsTurn(o) ==
    /\ request[o].kind = "turn"
    /\ \/ /\ turn = 0 /\ Len(turns) < MaxTurns
          /\ turns' = Append(turns, NoOp)
          /\ turn' = Len(turns) + 1
          /\ wire' = wire \o <<Response(o, "ok", turn'), Note("started", turn', "none")>>
       \/ /\ wire' = Append(wire, Response(o, "error", 0))
          /\ UNCHANGED <<turn, turns>>
    /\ UNCHANGED <<goal, goalOf, historyVars>>

ServerAnswers(o) ==
    /\ transport = "up"
    /\ request' = [request EXCEPT ![o] = None]
    /\ \/ ServerAcceptsTurn(o) \/ ServerReads(o) \/ ServerClears(o) \/ ServerSets(o) \/ ServerPauses(o) \/ ServerInterrupts(o)
    /\ UNCHANGED <<reply, lock, route, at, opVars, streamVars, hand, transport>>

Server ==
    /\ ServerStartsTurn \/ ServerEndsTurn \/ ServerSettlesGoal
    /\ UNCHANGED <<request, reply, lock, route, at, opVars, streamVars, hand, transport>>

-----------------------------------------------------------------------------
(* The reader thread: route_notification, observe, fail_all.               *)

ReadResponse ==
    /\ transport = "up" /\ hand = None
    /\ wire # <<>> /\ Head(wire).kind = "response"
    /\ reply' = [reply EXCEPT ![Head(wire).op] = Head(wire)]
    /\ wire' = Tail(wire)
    /\ UNCHANGED <<serverVars, request, lock, route, at, opVars, streamVars, hand, transport>>

\* The lookup under the router's lock.  Without an operation the notification
\* goes the way MessageRouter models.
ReadNotification ==
    /\ transport = "up" /\ hand = None
    /\ wire # <<>> /\ Head(wire).kind # "response"
    /\ hand' = IF route = NoOp THEN None
               ELSE [kind |-> "observe", op |-> route, note |-> Head(wire)]
    /\ wire' = Tail(wire)
    /\ UNCHANGED <<serverVars, request, reply, lock, route, at, opVars, streamVars, transport>>

\* Faulty: any notification's status is taken for the goal's.
ObservedAsGoal(s, n) ==
    [s EXCEPT !.status = n.status, !.cleared = @ \/ n.kind = "cleared",
              !.first = IF @ = 0 THEN n.turn ELSE @]

Observed(s, n) ==
    CASE n.kind = "started" ->
            [s EXCEPT !.first = IF @ = 0 THEN n.turn ELSE @, !.current = n.turn]
      [] n.kind = "completed" ->
            [s EXCEPT !.completed = n.turn, !.current = IF @ = n.turn THEN 0 ELSE @]
      [] n.kind = "goal" ->
            [s EXCEPT !.status = n.status, !.cleared = @ /\ n.status # "active"]
      [] n.kind = "cleared" ->
            [s EXCEPT !.cleared = TRUE]

IsOver(s) == s.current = 0 /\ s.completed # 0 /\ (s.cleared \/ Terminal(s.status))

\* observe under the operation's condition; turns are passed over until the
\* operation routes them, and then go the way MessageRouter models.
Observe ==
    /\ hand.kind = "observe"
    /\ LET o == hand.op
           n == hand.note
           s == Observed(state[o], n)
       IN IF ~state[o].routing /\ n.kind \in {"started", "completed"}
          THEN hand' = None /\ UNCHANGED state
          ELSE /\ state' = [state EXCEPT ![o] = [s EXCEPT !.finished = @ \/ IsOver(s)]]
               /\ hand' = [hand EXCEPT !.kind = "put"]
    /\ UNCHANGED <<serverVars, wire, request, reply, lock, route, at, queue, streamVars, transport>>

PutObserved ==
    /\ hand.kind = "put"
    /\ queue' = [queue EXCEPT ![hand.op] = Append(@, hand.note)]
    /\ hand' = [hand EXCEPT !.kind = "release"]
    /\ UNCHANGED <<serverVars, wire, request, reply, lock, route, at, state, streamVars, transport>>

\* Faulty: whichever operation has the route loses it.
UnregisterAnyGoal(o) == route' = NoOp

\* unregister_goal removes the route only while it is this operation's.
UnregisterGoal(o) == route' = IF route = o THEN NoOp ELSE route

ReaderReleases ==
    /\ hand.kind = "release"
    /\ IF state[hand.op].finished THEN UnregisterGoal(hand.op) ELSE UNCHANGED route
    /\ hand' = None
    /\ UNCHANGED <<serverVars, wire, request, reply, lock, at, opVars, streamVars, transport>>

Calling == {"read", "clear", "set", "pause", "interrupt", "retry", "turn"}
Blocked(o) == at[o] \in Calling /\ reply[o] = None

\* The request whose answer is next is lost with it when the answer is an error that
\* route_response cannot read: its waiter is out of the table when fail_all runs.
Unreadable ==
    {o \in Ops : wire # <<>> /\ Head(wire).kind = "response" /\ Head(wire).op = o /\ Head(wire).answer # "ok"}

\* The reader loop ends, with the process or (a line, an answer or an approval handler
\* that raises) without it.  fail_all drops the route, fails its operation, and
\* answers the requests under way.
FailAll ==
    /\ MayFail /\ transport = "up" /\ hand = None
    /\ \E lost \in Unreadable \cup {NoOp} :
          /\ transport' \in (IF lost = NoOp THEN {"down", "deaf"} ELSE {"deaf"})
          /\ reply' = [o \in Ops |-> IF Blocked(o) /\ o # lost THEN Response(o, "error", 0) ELSE reply[o]]
    /\ request' = [o \in Ops |-> None]
    /\ route' = NoOp
    /\ wire' = <<>>
    /\ hand' = IF route = NoOp THEN None ELSE [kind |-> "fail", op |-> route]
    /\ UNCHANGED <<serverVars, lock, at, opVars, streamVars>>

\* Faulty: only wait_for_start is woken.
FailGoalWithoutItem ==
    /\ hand.kind = "fail"
    /\ state' = [state EXCEPT ![hand.op].failed = TRUE]
    /\ hand' = None
    /\ UNCHANGED <<serverVars, wire, request, reply, lock, route, at, queue, streamVars, transport>>

FailGoal ==
    /\ hand.kind = "fail"
    /\ state' = [state EXCEPT ![hand.op].failed = TRUE]
    /\ queue' = [queue EXCEPT ![hand.op] = Append(@, Failure)]
    /\ hand' = None
    /\ UNCHANGED <<serverVars, wire, request, reply, lock, route, at, streamVars, transport>>

\* A request sent to a process that is gone raises when it is written.
RequestFails(o) ==
    /\ transport = "down" /\ Blocked(o)
    /\ reply' = [reply EXCEPT ![o] = Response(o, "error", 0)]
    /\ request' = [request EXCEPT ![o] = None]
    /\ UNCHANGED <<serverVars, wire, lock, route, at, opVars, streamVars, hand, transport>>

-----------------------------------------------------------------------------
(* The thread of an operation: start_goal_operation.                       *)

Send(o, kind, k) == request' = [request EXCEPT ![o] = Request(kind, k)]
Go(o, place) == at' = [at EXCEPT ![o] = place]
Unlock(o) == lock' = IF lock = o THEN NoOp ELSE lock
Answered(o, place) == at[o] = place /\ reply[o] # None /\ reply' = [reply EXCEPT ![o] = None]

BeginStart(o) ==
    /\ at[o] = "out" /\ lock = NoOp
    /\ lock' = o
    /\ Send(o, "read", 0) /\ Go(o, "read")
    /\ UNCHANGED <<serverVars, wire, reply, route, opVars, streamVars, hand, transport>>

\* Faulty: turn_start does not look for a goal operation.
BeginTurnUnchecked(o) ==
    /\ at[o] = "out" /\ lock = NoOp
    /\ lock' = o /\ Send(o, "turn", 0) /\ Go(o, "turn")
    /\ UNCHANGED <<serverVars, wire, reply, route, opVars, streamVars, hand, transport>>

\* turn_start: refused while an operation has the thread's route.
BeginTurn(o) ==
    /\ at[o] = "out" /\ lock = NoOp
    /\ IF route = NoOp
       THEN lock' = o /\ Send(o, "turn", 0) /\ Go(o, "turn")
       ELSE Go(o, "raised") /\ UNCHANGED <<lock, request>>
    /\ UNCHANGED <<serverVars, wire, reply, route, opVars, streamVars, hand, transport>>

AfterTurn(o) ==
    /\ Answered(o, "turn")
    /\ Go(o, "turned") /\ Unlock(o)
    /\ UNCHANGED <<serverVars, wire, request, route, opVars, streamVars, hand, transport>>

\* The thread must be idle (and persisted).
AfterRead(o) ==
    /\ Answered(o, "read")
    /\ IF reply[o].answer = "ok"
       THEN Go(o, "reserve") /\ UNCHANGED lock
       ELSE Go(o, "raised") /\ Unlock(o)
    /\ UNCHANGED <<serverVars, wire, request, route, opVars, streamVars, hand, transport>>

\* Faulty: a reservation takes the route over.
ReserveRegardless(o) ==
    /\ at[o] = "reserve"
    /\ route' = o /\ Send(o, "clear", 0) /\ Go(o, "clear")
    /\ UNCHANGED <<serverVars, wire, reply, lock, opVars, streamVars, hand, transport>>

ReserveGoal(o) ==
    /\ at[o] = "reserve"
    /\ IF route = NoOp
       THEN route' = o /\ Send(o, "clear", 0) /\ Go(o, "clear") /\ UNCHANGED lock
       ELSE Go(o, "raised") /\ Unlock(o) /\ UNCHANGED <<route, request>>
    /\ UNCHANGED <<serverVars, wire, reply, opVars, streamVars, hand, transport>>

\* The except clause before the goal is known to be set: a refused request has
\* set nothing; after any other error it may have, and the goal is cancelled.
StartRaises(o, refused) ==
    IF refused THEN Go(o, "finish") /\ UNCHANGED request ELSE Send(o, "pause", 0) /\ Go(o, "pause")

AfterClear(o) ==
    /\ Answered(o, "clear")
    /\ IF reply[o].answer = "ok"
       THEN state' = [state EXCEPT ![o].routing = TRUE] /\ Send(o, "set", 0) /\ Go(o, "set")
       ELSE StartRaises(o, reply[o].answer = "invalid") /\ UNCHANGED state
    /\ UNCHANGED <<serverVars, wire, lock, route, queue, streamVars, hand, transport>>

\* Faulty: a goal whose request failed is taken for one that was not set.
AfterSetWithoutCancel(o) ==
    /\ Answered(o, "set")
    /\ IF reply[o].answer = "ok" THEN Go(o, "start") ELSE Go(o, "finish")
    /\ UNCHANGED <<serverVars, wire, request, lock, route, opVars, streamVars, hand, transport>>

AfterSet(o) ==
    /\ Answered(o, "set")
    /\ IF reply[o].answer = "ok" THEN Go(o, "start") /\ UNCHANGED request
       ELSE StartRaises(o, reply[o].answer = "invalid")
    /\ UNCHANGED <<serverVars, wire, lock, route, opVars, streamVars, hand, transport>>

\* wait_for_start returns the first turn: the lock is released, the stream opens.
Started(o) ==
    /\ at[o] = "start" /\ state[o].first # 0
    /\ Go(o, "stream") /\ Unlock(o)
    /\ UNCHANGED <<serverVars, wire, request, reply, route, opVars, streamVars, hand, transport>>

\* Faulty: nobody looks after a start whose task was cancelled.
AbandonedToItself(o) ==
    /\ o \in Leavers /\ at[o] = "start" /\ state[o].first # 0
    /\ state' = [state EXCEPT ![o].abandoned = TRUE]
    /\ Go(o, "finish") /\ Unlock(o)
    /\ UNCHANGED <<serverVars, wire, request, reply, route, queue, streamVars, hand, transport>>

\* The same when the task that awaits the start has been cancelled meanwhile (async
\* client): the thread went on, and now its goal is cancelled by cleanup_cancelled_start.
Abandoned(o) ==
    /\ o \in Leavers /\ at[o] = "start" /\ state[o].first # 0
    /\ state' = [state EXCEPT ![o].abandoned = TRUE]
    /\ Send(o, "pause", 0) /\ Go(o, "pause") /\ Unlock(o)
    /\ UNCHANGED <<serverVars, wire, reply, route, queue, streamVars, hand, transport>>

\* wait_for_start times out, or the transport fails: cancel_goal_operation.
StartTimesOut(o) ==
    /\ at[o] = "start" /\ state[o].first = 0
    /\ Send(o, "pause", 0) /\ Go(o, "pause")
    /\ UNCHANGED <<serverVars, wire, reply, lock, route, opVars, streamVars, hand, transport>>

TurnForInterrupt(s) ==
    IF s.current # 0 THEN s.current ELSE IF s.completed # 0 THEN s.completed ELSE s.first

AfterPause(o) ==
    LET k == TurnForInterrupt(state[o]) IN
    /\ Answered(o, "pause")
    /\ IF k = 0 THEN Go(o, "finish") /\ UNCHANGED request
       ELSE Send(o, "interrupt", k) /\ Go(o, "interrupt")
    /\ UNCHANGED <<serverVars, wire, lock, route, opVars, streamVars, hand, transport>>

\* One retry with the turn the server says is active.
AfterInterrupt(o) ==
    /\ Answered(o, "interrupt")
    /\ IF reply[o].answer = "expected"
       THEN Send(o, "interrupt", reply[o].turn) /\ Go(o, "retry")
       ELSE Go(o, "finish") /\ UNCHANGED request
    /\ UNCHANGED <<serverVars, wire, lock, route, opVars, streamVars, hand, transport>>

AfterRetry(o) ==
    /\ Answered(o, "retry")
    /\ Go(o, "finish")
    /\ UNCHANGED <<serverVars, wire, request, lock, route, opVars, streamVars, hand, transport>>

\* state.finish(); closing a stream also wakes its other readers.
Finish(o) ==
    /\ at[o] \in {"finish", "close"}
    /\ state' = [state EXCEPT ![o].finished = TRUE, ![o].current = 0]
    /\ queue' = IF lock = o THEN queue ELSE [queue EXCEPT ![o] = Append(@, Closed)]
    /\ Go(o, IF at[o] = "finish" THEN "release" ELSE "release completed")
    /\ UNCHANGED <<serverVars, wire, request, reply, lock, route, streamVars, hand, transport>>

Release(o) ==
    /\ at[o] \in {"release", "release completed"}
    /\ UnregisterGoal(o) /\ Unlock(o)
    /\ Go(o, CASE at[o] = "release completed" -> "completed"
               [] at[o] = "release" /\ lock = o -> "raised"
               [] OTHER -> "left")
    /\ UNCHANGED <<serverVars, wire, request, reply, opVars, streamVars, hand, transport>>

-----------------------------------------------------------------------------
(* The stream: _GoalStreamCursor.process on the next notification.         *)

\* A failed turn stays the result; the event takes the logical id, and "turn"
\* records which physical turn it was made from.
Completion(c, n) ==
    LET final == IF c.failed = None THEN n ELSE c.failed IN Note("completed", final.turn, final.status)
Ended(c) == c.cleared \/ Terminal(c.status)

\* What process returns: the cursor after a notification, the events for the
\* caller, and where the stream's thread goes.
Stepped(c, events, place) == [cursor |-> c, events |-> events, place |-> place]

\* Faulty: the first turn that completes ends the logical turn.
ProcessFirstCompletion(c, n) ==
    CASE n.kind = "started" ->
            Stepped([c EXCEPT !.started = TRUE], IF c.started THEN <<>> ELSE <<n>>, "stream")
      [] n.kind = "completed" -> Stepped([c EXCEPT !.last = n], <<n>>, "close")
      [] n.kind = "failure" -> Stepped(c, <<>>, "finish")
      [] OTHER -> Stepped(c, <<>>, "stream")

\* Faulty: every physical turn is shown as started.
ProcessEveryStart(c, n) ==
    CASE n.kind = "started" -> Stepped(c, <<n>>, "stream")
      [] n.kind = "failure" -> Stepped(c, <<>>, "finish")
      [] OTHER -> Stepped(c, <<>>, "stream")

Process(c, n) ==
    CASE n.kind = "started" ->
            Stepped([c EXCEPT !.active = TRUE, !.started = TRUE],
                    IF c.started THEN <<>> ELSE <<n>>, "stream")
      [] n.kind = "completed" ->
            LET d == [c EXCEPT !.active = FALSE, !.last = n,
                               !.failed = IF n.status = "failed" THEN n ELSE @]
                done == Stepped(d, <<Completion(d, n)>>, "close")
            IN CASE n.status = "interrupted" \/ Ended(d) -> done
                 [] ~Ended(d) /\ n.status = "completed" /\ d.status = "none" -> Stepped(d, <<>>, "finish")
                 [] OTHER -> Stepped(d, <<>>, "stream")
      [] n.kind \in {"goal", "cleared"} ->
            LET d == IF n.kind = "cleared" THEN [c EXCEPT !.cleared = TRUE]
                     ELSE [c EXCEPT !.status = n.status, !.cleared = @ /\ n.status # "active"]
            IN IF ~d.active /\ d.last # None /\ Ended(d)
               THEN Stepped(d, <<Completion(d, d.last)>>, "close")
               ELSE Stepped(d, <<>>, "stream")
      [] n.kind = "failure" -> Stepped(c, <<>>, "finish")

Consume(o) ==
    /\ at[o] = "stream" /\ queue[o] # <<>>
    /\ LET p == Process(cursor[o], Head(queue[o])) IN
       /\ cursor' = [cursor EXCEPT ![o] = p.cursor]
       /\ out' = [out EXCEPT ![o] = @ \o p.events]
       /\ Go(o, p.place)
    /\ queue' = [queue EXCEPT ![o] = Tail(@)]
    /\ UNCHANGED <<serverVars, wire, request, reply, lock, route, state, hand, transport>>

\* close() before completion, or KeyboardInterrupt, which cancels the goal first.
LeaveStream(o) ==
    /\ o \in Leavers /\ at[o] = "stream"
    /\ \/ Go(o, "finish") /\ UNCHANGED request
       \/ Send(o, "pause", 0) /\ Go(o, "pause")
    /\ UNCHANGED <<serverVars, wire, reply, lock, route, opVars, streamVars, hand, transport>>

-----------------------------------------------------------------------------
Reader ==
    \/ ReadResponse \/ ReadNotification \/ Observe \/ PutObserved \/ ReaderReleases \/ FailGoal

Advance(o) ==
    \/ RequestFails(o) \/ AfterTurn(o) \/ AfterRead(o) \/ ReserveGoal(o) \/ AfterClear(o) \/ AfterSet(o)
    \/ Started(o) \/ Abandoned(o) \/ AfterPause(o) \/ AfterInterrupt(o) \/ AfterRetry(o)
    \/ Finish(o) \/ Release(o) \/ Consume(o)

Next ==
    \/ Server \/ Reader \/ FailAll
    \/ \E o \in Ops : \/ ServerAnswers(o) \/ BeginStart(o) \/ BeginTurn(o) \/ StartTimesOut(o)
                      \/ Advance(o) \/ LeaveStream(o)

\* The server works on its turns and goals and answers requests, the reader and
\* the operation threads run, and the 30 seconds of wait_for_start pass.
Spec == Init /\ [][Next]_vars
FairSpec ==
    /\ Spec
    /\ WF_vars(Reader) /\ WF_vars(Server)
    /\ \A o \in Ops : WF_vars(ServerAnswers(o)) /\ WF_vars(Advance(o)) /\ WF_vars(StartTimesOut(o))

-----------------------------------------------------------------------------
Places == {"out", "turn", "turned", "read", "reserve", "clear", "set", "start", "pause", "interrupt",
           "retry", "stream", "finish", "close", "release", "release completed", "raised", "left", "completed"}

\* Every variable has the type the code gives it (_GoalOperationState,
\* _GoalStreamCursor, CodexClient, MessageRouter._goal_operations).
TypeOK ==
    /\ goal \in {"none", "active", "paused", "complete"} /\ goalOf \in Ops \cup {NoOp}
    /\ turns \in Seq(Ops \cup {NoOp}) /\ turn \in 0 .. Len(turns)
    /\ \A past \in {overtaken, unpaused, unstopped} : past \subseteq Ops
    /\ lock \in Ops \cup {NoOp} /\ route \in Ops \cup {NoOp}
    /\ at \in [Ops -> Places] /\ transport \in {"up", "down", "deaf"}
    /\ \A o \in Ops : state[o].current \in 0 .. Len(turns) /\ state[o].first \in 0 .. Len(turns)
    /\ \A o \in Ops : {cursor[o].status, state[o].status} \subseteq {"none", "active", "paused", "complete"}
    /\ hand.kind \in {"none", "observe", "put", "release", "fail"}

\* The route of a thread (_goal_operations) is an operation's from its
\* reservation until the operation is over, whoever else starts, ends or is
\* released late, and is left with nobody's operation once start_goal_operation
\* or the stream has returned control.
RouteIsTheOperations ==
    \A o \in Ops :
        /\ at[o] \in {"clear", "set", "start", "stream"} /\ transport = "up" /\ ~state[o].finished
               => route = o
        /\ at[o] \in {"out", "turn", "turned", "read", "reserve", "raised", "left", "completed"}
               => route # o

\* turn_start never has a request out while a goal operation has the thread:
\* its has_goal check cannot be overtaken by reserve_goal_operation.
TurnsAndGoalsExclude ==
    \A o \in Ops : at[o] = "turn" => route = NoOp

\* The stream shows one logical turn: at most one turn/started, then at most one
\* turn/completed, and a stream that ends by itself has shown both.  A turn that started
\* between the idle check and goal/clear, of a goal stored or left to itself before, is
\* taken for the operation's.
OneLogicalTurn ==
    \A o \in Ops \ overtaken :
        /\ \/ out[o] = <<>>
           \/ out[o][1].kind = "started" /\ Len(out[o]) = 1
           \/ out[o][1].kind = "started" /\ out[o][2].kind = "completed" /\ Len(out[o]) = 2
        /\ at[o] \in {"close", "release completed", "completed"} => Len(out[o]) = 2

\* The logical completion is made from a turn of this operation's goal, and unless
\* the last turn was interrupted the server has no more turns of it to run.
CompletionIsTheGoals ==
    \A o \in Ops \ overtaken : \A i \in DOMAIN out[o] :
        out[o][i].kind = "completed" =>
            /\ turns[out[o][i].turn] = o
            /\ cursor[o].last.status # "interrupted" => ~(goal = "active" /\ goalOf = o)

\* The clean-up of a start is best effort: cancel_goal_operation goes on whatever the
\* server answers to its pause and its interrupts.  What it does promise is that the
\* goal is not left active unless the server did not carry the pause out, and no turn
\* of it is left running unless it did not carry out the pause or an interrupt.
Active(o) == goal = "active" /\ goalOf = o
Runs(o) == turn # 0 /\ turns[turn] = o
CleanedUp(o) ==
    /\ Active(o) => o \in unpaused
    /\ Runs(o) => o \in unpaused \cup unstopped

\* A start that raises has cleaned up after its goal, whichever of its requests before
\* the clean-up was refused, failed before or after taking effect, or timed out.
FailedStartLeavesNothing ==
    \A o \in Ops : at[o] = "raised" /\ transport = "up" => CleanedUp(o)

\* So has a start whose awaiting task is cancelled, once its clean-up has released the
\* thread, although both run on threads of their own after the lock is released.
AbandonedStartLeavesNothing ==
    \A o \in Ops :
        at[o] = "left" /\ state[o].abandoned /\ transport = "up" => CleanedUp(o)

\* cancel_goal_operation names a thread, not a goal, and the interrupt is retried with
\* whatever turn is active: still it stops only the operation's own goal and turns,
\* from the answer to goal/clear until the reader has seen that goal settled and given
\* the thread free.  From then on it can stop the next operation's; and an operation
\* whose goal/clear failed can pause the goal the thread had stored.
CancelReachesItsOwn ==
    [][\A o \in Ops :
         /\ request[o].kind \in {"pause", "interrupt"} /\ request'[o] = None
         /\ state[o].routing /\ ~state[o].finished
         => /\ goal' # goal => goalOf = o
            /\ turn' # turn => turns[turn] = o]_vars

\* A goal operation that begins ends: start_goal_operation raises or its stream does,
\* or completes.  The one way for it to wait for ever is a request that the end of the
\* reader leaves without an answer: the one whose answer could not be read, or one sent
\* afterwards to a process that still takes it.
OperationEnds ==
    \A o \in Ops :
        at[o] = "read" ~> \/ at[o] \in {"raised", "left", "completed"}
                          \/ transport = "deaf" /\ Blocked(o)
=============================================================================
