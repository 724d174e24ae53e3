---------------------------- MODULE MessageRouter ----------------------------
(***************************************************************************)
(* The routing tables of the Python SDK (_message_router.py) at the        *)
(* granularity of its lock.  One reader thread moves messages from the     *)
(* app-server's stdout into queues; caller threads wait on those queues.   *)
(*                                                                         *)
(* A request id stands for the thread that runs _request_raw for it.  A    *)
(* handle stands for a thread that consumes one channel: a turn (stream,   *)
(* run, wait_for_turn_completed), a login (wait_for_login_completed) or    *)
(* the global notifications (next_notification).  Events of a channel are  *)
(* numbered in the order the server sends them; event Last[ch] of a turn   *)
(* or login is its completion.                                             *)
(*                                                                         *)
(* Goal operations have a table of their own: see GoalOperation.           *)
(***************************************************************************)
EXTENDS Naturals, Sequences, FiniteSets

CONSTANTS Requests,   \* JSON-RPC request ids
          Turns,      \* turn ids
          Logins,     \* login ids
          Global,     \* the channel of notifications scoped to no turn
          Handles,    \* consumers
          ChannelOf,  \* the channel each handle consumes
          Last,       \* number of the last event of each channel
          MaxCalls,   \* bound: how often one handle is streamed or waited on
          NoQueue,    \* "no queue registered"
          Failure     \* the exception fail_all puts into every queue

Channels == Turns \cup Logins \cup {Global}

ASSUME ChannelsAreDistinct ==
    /\ Turns \cap Logins = {}
    /\ Global \notin Turns \cup Logins

ASSUME HandlesAssumption ==
    /\ ChannelOf \in [Handles -> Channels]
    /\ Last \in [Channels -> Nat]
    /\ MaxCalls \in Nat

\* A queue object is named by the register call that made it.
GlobalQueue == <<Global, 0>>
Queues == (Handles \X (1..MaxCalls)) \cup {GlobalQueue}

ASSUME SentinelsAreDistinct ==
    /\ NoQueue \notin Queues
    /\ Failure \notin Nat
    /\ Failure \notin {"result", "error"}
    /\ Global \notin Handles

Answers == {"result", "error", Failure}
Items == Nat \cup {Failure}

VARIABLES
    response_waiters,  \* ids in _response_waiters
    waiter,            \* contents of each one-shot response queue
    caller,            \* where the thread of each request is in _request_raw
    sent,              \* requests the server has received and not answered
    misread,           \* history: requests whose error response could not be read
    registered,        \* _turn_notifications and _login_notifications
    pending,           \* _pending_turn_ and _pending_login_notifications
    queue,             \* contents of every notification queue
    user,              \* where each handle is in its stream or wait loop
    held,              \* the queue object a handle's thread holds a reference to
    replay,            \* the pending events register_* has yet to put
    calls,             \* number of register calls each handle has made
    reader,            \* "reading", "raising", "failing" (in fail_all) or "exited"
    owedResponses,     \* response puts the reader still has to make
    owedItems,         \* notification puts the reader still has to make
    routed,            \* number of events of each channel read from stdout
    received,          \* history: events each handle has returned to its caller
    replayed,          \* history: events of each channel taken for replay
    dropped            \* history: events of each channel the router discarded

requestVars == <<response_waiters, waiter, caller, sent, misread, owedResponses>>
userVars == <<user, held, replay, calls>>
historyVars == <<received, replayed, dropped>>
channelVars == <<registered, pending, queue, userVars, owedItems, routed, historyVars>>
vars == <<requestVars, channelVars, reader>>

Elements(s) == {s[i] : i \in DOMAIN s}
IsCompletion(ch, k) == ch # Global /\ k = Last[ch]

Init ==
    /\ response_waiters = {}
    /\ waiter = [r \in Requests |-> <<>>]
    /\ caller = [r \in Requests |-> "idle"]
    /\ sent = {}
    /\ misread = {}
    /\ registered = [ch \in Channels |-> IF ch = Global THEN GlobalQueue ELSE NoQueue]
    /\ pending = [ch \in Channels |-> <<>>]
    /\ queue = [q \in Queues |-> <<>>]
    /\ user = [h \in Handles |-> "idle"]
    /\ held = [h \in Handles |-> NoQueue]
    /\ replay = [h \in Handles |-> <<>>]
    /\ calls = [h \in Handles |-> 0]
    /\ reader = "reading"
    /\ owedResponses = {}
    /\ owedItems = {}
    /\ routed = [ch \in Channels |-> 0]
    /\ received = [h \in Handles |-> <<>>]
    /\ replayed = [ch \in Channels |-> {}]
    /\ dropped = [ch \in Channels |-> {}]

-----------------------------------------------------------------------------
(* Requests: _request_raw with create_ and discard_response_waiter.        *)

CreateResponseWaiter(r) ==
    /\ caller[r] = "idle"
    /\ caller' = [caller EXCEPT ![r] = "writing"]
    /\ response_waiters' = response_waiters \cup {r}
    /\ UNCHANGED <<waiter, sent, misread, owedResponses, channelVars, reader>>

WriteMessage(r) ==
    /\ caller[r] = "writing"
    /\ caller' = [caller EXCEPT ![r] = "waiting"]
    /\ sent' = sent \cup {r}
    /\ UNCHANGED <<response_waiters, waiter, misread, owedResponses, channelVars, reader>>

\* The write raises: the pipe is closed, or the thread is interrupted, which
\* can also happen after the line has gone out.
WriteRaises(r) ==
    /\ caller[r] = "writing"
    /\ caller' = [caller EXCEPT ![r] = "discarding"]
    /\ sent' \in {sent, sent \cup {r}}
    /\ UNCHANGED <<response_waiters, waiter, misread, owedResponses, channelVars, reader>>

DiscardResponseWaiter(r) ==
    /\ caller[r] = "discarding"
    /\ caller' = [caller EXCEPT ![r] = "raised"]
    /\ response_waiters' = response_waiters \ {r}
    /\ UNCHANGED <<waiter, sent, misread, owedResponses, channelVars, reader>>

\* waiter.get() returns: hand the result over, or raise the error.
ReceiveResponse(r) ==
    /\ caller[r] = "waiting"
    /\ waiter[r] # <<>>
    /\ caller' = [caller EXCEPT ![r] = IF Head(waiter[r]) = "result" THEN "returned" ELSE "raised"]
    /\ waiter' = [waiter EXCEPT ![r] = Tail(@)]
    /\ UNCHANGED <<response_waiters, sent, misread, owedResponses, channelVars, reader>>

-----------------------------------------------------------------------------
(* The reader thread: route_response, route_notification, fail_all.        *)

ReaderIsFree == reader = "reading" /\ owedResponses = {} /\ owedItems = {}

\* fail_all runs on the way out of the reader loop, whatever raised in it.
ReaderLeaves == reader \in {"reading", "raising"} /\ owedResponses = {} /\ owedItems = {}

\* Faulty: the waiter is looked up and not popped.
RouteResponseByGet(r, answer) ==
    /\ ReaderIsFree
    /\ r \in sent
    /\ sent' = sent \ {r}
    /\ owedResponses' = IF r \in response_waiters THEN {<<r, answer>>} ELSE {}
    /\ UNCHANGED <<response_waiters, waiter, caller, misread, channelVars, reader>>

\* Faulty: an error response is popped and never put.
RouteResponseLosingErrors(r, answer) ==
    /\ ReaderIsFree
    /\ r \in sent
    /\ sent' = sent \ {r}
    /\ owedResponses' = IF r \in response_waiters /\ answer = "result" THEN {<<r, answer>>} ELSE {}
    /\ response_waiters' = response_waiters \ {r}
    /\ UNCHANGED <<waiter, caller, misread, channelVars, reader>>

\* route_response under the lock; the put follows the unlock.
RouteResponse(r, answer) ==
    /\ ReaderIsFree
    /\ r \in sent
    /\ sent' = sent \ {r}
    /\ owedResponses' = IF r \in response_waiters THEN {<<r, answer>>} ELSE {}
    /\ response_waiters' = response_waiters \ {r}
    /\ UNCHANGED <<waiter, caller, misread, channelVars, reader>>

\* route_response raises on an error response whose code is not a number: the
\* waiter is popped by then and gets nothing, and the reader goes to fail_all.
RouteUnreadableError(r) ==
    /\ ReaderIsFree
    /\ r \in sent \cap response_waiters
    /\ sent' = sent \ {r}
    /\ response_waiters' = response_waiters \ {r}
    /\ misread' = misread \cup {r}
    /\ reader' = "raising"
    /\ UNCHANGED <<waiter, caller, owedResponses, channelVars>>

\* The response queue has room for one item: put blocks while it is full.
PutResponse(r, answer) ==
    /\ <<r, answer>> \in owedResponses
    /\ waiter[r] = <<>>
    /\ waiter' = [waiter EXCEPT ![r] = Append(@, answer)]
    /\ owedResponses' = owedResponses \ {<<r, answer>>}
    /\ UNCHANGED <<response_waiters, caller, sent, misread, channelVars, reader>>

\* Faulty: no check that a queue is registered.
RouteNotificationUnchecked(ch) ==
    /\ ReaderIsFree
    /\ routed[ch] < Last[ch]
    /\ routed' = [routed EXCEPT ![ch] = @ + 1]
    /\ owedItems' = {<<registered[ch], routed[ch] + 1>>}
    /\ UNCHANGED <<requestVars, registered, pending, queue, userVars, historyVars, reader>>

\* Faulty: the completion of a turn is kept like its other events.
RouteNotificationKeepingAll(ch) ==
    /\ ReaderIsFree
    /\ routed[ch] < Last[ch]
    /\ routed' = [routed EXCEPT ![ch] = @ + 1]
    /\ IF registered[ch] # NoQueue
       THEN owedItems' = {<<registered[ch], routed[ch] + 1>>} /\ UNCHANGED pending
       ELSE pending' = [pending EXCEPT ![ch] = Append(@, routed[ch] + 1)] /\ UNCHANGED owedItems
    /\ UNCHANGED <<requestVars, registered, queue, userVars, historyVars, reader>>

\* route_notification under the lock.  With no queue registered the event is
\* kept for a later register call, except that the completion of a turn
\* discards what was kept, and itself.
RouteNotification(ch) ==
    LET k == routed[ch] + 1 IN
    /\ ReaderIsFree
    /\ k <= Last[ch]
    /\ routed' = [routed EXCEPT ![ch] = k]
    /\ \/ /\ registered[ch] # NoQueue
          /\ owedItems' = {<<registered[ch], k>>}
          /\ UNCHANGED <<pending, dropped>>
       \/ /\ registered[ch] = NoQueue
          /\ ch \in Turns /\ k = Last[ch]
          /\ pending' = [pending EXCEPT ![ch] = <<>>]
          /\ dropped' = [dropped EXCEPT ![ch] = @ \cup Elements(pending[ch]) \cup {k}]
          /\ UNCHANGED owedItems
       \/ /\ registered[ch] = NoQueue
          /\ ~(ch \in Turns /\ k = Last[ch])
          /\ pending' = [pending EXCEPT ![ch] = Append(@, k)]
          /\ UNCHANGED <<owedItems, dropped>>
    /\ UNCHANGED <<requestVars, registered, queue, userVars, received, replayed, reader>>

PutNotification(q, item) ==
    /\ <<q, item>> \in owedItems
    /\ queue' = [queue EXCEPT ![q] = Append(@, item)]
    /\ owedItems' = owedItems \ {<<q, item>>}
    /\ UNCHANGED <<requestVars, registered, pending, userVars, routed, historyVars, reader>>

\* Faulty: the response table is cleared before it is copied.
FailAllClearingFirst ==
    /\ ReaderLeaves
    /\ reader' = "failing"
    /\ response_waiters' = {}
    /\ UNCHANGED <<waiter, caller, sent, misread, owedResponses, channelVars>>

\* Faulty: fail_all wakes no turn stream.
FailAllForgettingTurns ==
    /\ ReaderLeaves
    /\ reader' = "failing"
    /\ owedResponses' = {<<r, Failure>> : r \in response_waiters}
    /\ response_waiters' = {}
    /\ owedItems' = {<<registered[ch], Failure>> : ch \in {c \in Channels \ Turns : registered[c] # NoQueue}}
    /\ UNCHANGED <<waiter, caller, sent, misread, registered, pending, queue, userVars, routed, historyVars>>

\* The reader loop leaves by an exception: end of stdout, a line that is not
\* JSON, a response it cannot read, an approval handler that raises.  fail_all under the lock snapshots
\* and clears every table except that of the turn queues.
FailAll ==
    /\ ReaderLeaves
    /\ reader' = "failing"
    /\ owedResponses' = {<<r, Failure>> : r \in response_waiters}
    /\ response_waiters' = {}
    /\ owedItems' = {<<registered[ch], Failure>> : ch \in {c \in Channels : registered[c] # NoQueue}}
    /\ registered' = [ch \in Channels |-> IF ch \in Logins THEN NoQueue ELSE registered[ch]]
    /\ pending' = [ch \in Channels |-> <<>>]
    /\ dropped' = [ch \in Channels |-> dropped[ch] \cup Elements(pending[ch])]
    /\ UNCHANGED <<waiter, caller, sent, misread, queue, userVars, routed, received, replayed>>

ReaderExits ==
    /\ reader = "failing"
    /\ owedResponses = {} /\ owedItems = {}
    /\ reader' = "exited"
    /\ UNCHANGED <<requestVars, channelVars>>

-----------------------------------------------------------------------------
(* Handles: register, replay, next in a loop, unregister in the finally.   *)

\* Faulty: the kept events are popped and not replayed.
RegisterWithoutReplay(h) ==
    LET ch == ChannelOf[h] IN
    /\ ch # Global
    /\ user[h] = "idle" /\ calls[h] < MaxCalls /\ registered[ch] = NoQueue
    /\ calls' = [calls EXCEPT ![h] = @ + 1]
    /\ registered' = [registered EXCEPT ![ch] = <<h, calls'[h]>>]
    /\ held' = [held EXCEPT ![h] = <<h, calls'[h]>>]
    /\ pending' = [pending EXCEPT ![ch] = <<>>]
    /\ user' = [user EXCEPT ![h] = "next"]
    /\ UNCHANGED <<requestVars, queue, replay, owedItems, routed, historyVars, reader>>

\* register_turn / register_login under the lock.
Register(h) ==
    LET ch == ChannelOf[h]
        q == <<h, calls[h] + 1>>
    IN
    /\ ch # Global
    /\ user[h] \in {"idle", "completed", "raised"}
    /\ calls[h] < MaxCalls
    /\ calls' = [calls EXCEPT ![h] = @ + 1]
    /\ \/ /\ registered[ch] # NoQueue
          /\ user' = [user EXCEPT ![h] = "next"]
          /\ UNCHANGED <<registered, pending, held, replay, replayed>>
       \/ /\ registered[ch] = NoQueue
          /\ registered' = [registered EXCEPT ![ch] = q]
          /\ pending' = [pending EXCEPT ![ch] = <<>>]
          /\ replay' = [replay EXCEPT ![h] = pending[ch]]
          /\ replayed' = [replayed EXCEPT ![ch] = @ \cup Elements(pending[ch])]
          /\ held' = [held EXCEPT ![h] = q]
          /\ user' = [user EXCEPT ![h] = "replay"]
    /\ UNCHANGED <<requestVars, queue, owedItems, routed, received, dropped, reader>>

\* Faulty: the kept events are replayed from the newest.
ReplayPendingReversed(h) ==
    /\ user[h] = "replay"
    /\ \/ /\ replay[h] # <<>>
          /\ queue' = [queue EXCEPT ![held[h]] = Append(@, replay[h][Len(replay[h])])]
          /\ replay' = [replay EXCEPT ![h] = SubSeq(@, 1, Len(@) - 1)]
          /\ UNCHANGED user
       \/ /\ replay[h] = <<>>
          /\ user' = [user EXCEPT ![h] = "next"]
          /\ UNCHANGED <<queue, replay>>
    /\ UNCHANGED <<requestVars, registered, pending, held, calls, owedItems, routed, historyVars, reader>>

\* The puts of register_*, made after the lock is released.
ReplayPending(h) ==
    /\ user[h] = "replay"
    /\ \/ /\ replay[h] # <<>>
          /\ queue' = [queue EXCEPT ![held[h]] = Append(@, Head(replay[h]))]
          /\ replay' = [replay EXCEPT ![h] = Tail(@)]
          /\ UNCHANGED user
       \/ /\ replay[h] = <<>>
          /\ user' = [user EXCEPT ![h] = "next"]
          /\ UNCHANGED <<queue, replay>>
    /\ UNCHANGED <<requestVars, registered, pending, held, calls, owedItems, routed, historyVars, reader>>

\* next_turn_notification / next_login_notification look the queue up under
\* the lock and raise RuntimeError when there is none.
NextNotification(h) ==
    LET q == registered[ChannelOf[h]] IN
    /\ user[h] = "next"
    /\ held' = [held EXCEPT ![h] = q]
    /\ user' = [user EXCEPT ![h] = IF q = NoQueue THEN "leaving raised" ELSE "get"]
    /\ UNCHANGED <<requestVars, registered, pending, queue, replay, calls, owedItems, routed, historyVars, reader>>

\* The blocking get, on the queue object looked up before.
GetNotification(h) ==
    LET ch == ChannelOf[h]
        item == Head(queue[held[h]])
    IN
    /\ user[h] = "get"
    /\ queue[held[h]] # <<>>
    /\ queue' = [queue EXCEPT ![held[h]] = Tail(@)]
    /\ \/ /\ item = Failure
          /\ user' = [user EXCEPT ![h] = IF ch = Global THEN "raised" ELSE "leaving raised"]
          /\ UNCHANGED received
       \/ /\ item # Failure
          /\ received' = [received EXCEPT ![h] = Append(@, item)]
          /\ user' = [user EXCEPT ![h] =
                CASE ch = Global -> "idle"
                  [] IsCompletion(ch, item) -> "leaving completed"
                  [] OTHER -> "next"]
    /\ UNCHANGED <<requestVars, registered, pending, held, replay, calls, owedItems, routed, replayed, dropped, reader>>

\* The generator is closed, or the thread is interrupted, before completion.
Abandon(h) ==
    /\ ChannelOf[h] # Global
    /\ user[h] \in {"next", "get"}
    /\ user' = [user EXCEPT ![h] = "leaving raised"]
    /\ UNCHANGED <<requestVars, registered, pending, queue, held, replay, calls, owedItems, routed, historyVars, reader>>

\* unregister_turn / unregister_login in the finally clause: whatever queue the
\* channel has is removed.
Unregister(h) ==
    /\ user[h] \in {"leaving completed", "leaving raised"}
    /\ user' = [user EXCEPT ![h] = IF @ = "leaving completed" THEN "completed" ELSE "raised"]
    /\ registered' = [registered EXCEPT ![ChannelOf[h]] = NoQueue]
    /\ UNCHANGED <<requestVars, pending, queue, held, replay, calls, owedItems, routed, historyVars, reader>>

\* next_global_notification: the queue is always there, so only get blocks.
NextGlobalNotification(h) ==
    /\ ChannelOf[h] = Global
    /\ user[h] \in {"idle", "raised"}
    /\ calls[h] < MaxCalls
    /\ calls' = [calls EXCEPT ![h] = @ + 1]
    /\ held' = [held EXCEPT ![h] = GlobalQueue]
    /\ user' = [user EXCEPT ![h] = "get"]
    /\ UNCHANGED <<requestVars, registered, pending, queue, replay, owedItems, routed, historyVars, reader>>

-----------------------------------------------------------------------------
RequestStep(r) ==
    \/ CreateResponseWaiter(r) \/ WriteMessage(r) \/ WriteRaises(r)
    \/ DiscardResponseWaiter(r) \/ ReceiveResponse(r)

HandleStep(h) ==
    \/ Register(h) \/ ReplayPending(h) \/ NextNotification(h) \/ GetNotification(h)
    \/ Abandon(h) \/ Unregister(h) \/ NextGlobalNotification(h)

ReaderPut ==
    \/ \E put \in owedResponses : PutResponse(put[1], put[2])
    \/ \E put \in owedItems : PutNotification(put[1], put[2])

Next ==
    \/ \E r \in Requests : RequestStep(r)
    \/ \E r \in Requests, answer \in {"result", "error"} : RouteResponse(r, answer)
    \/ \E r \in Requests : RouteUnreadableError(r)
    \/ \E ch \in Channels : RouteNotification(ch)
    \/ ReaderPut \/ FailAll \/ ReaderExits
    \/ \E h \in Handles : HandleStep(h)

Spec == Init /\ [][Next]_vars

\* Once a call is under way its thread and the reader keep running, and the
\* server goes on with the turns, logins and requests it has accepted.  Nobody
\* has to make a call, abandon one, or let the transport fail.
Fairness ==
    /\ WF_vars(ReaderPut) /\ WF_vars(ReaderExits)
    /\ WF_vars(reader = "raising" /\ FailAll)
    /\ \A r \in Requests :
        /\ WF_vars(WriteMessage(r) \/ WriteRaises(r))
        /\ WF_vars(DiscardResponseWaiter(r))
        /\ WF_vars(ReceiveResponse(r))
        /\ WF_vars(\E answer \in {"result", "error"} : RouteResponse(r, answer))
    /\ \A ch \in Channels : WF_vars(RouteNotification(ch))
    /\ \A h \in Handles :
        /\ WF_vars(ReplayPending(h)) /\ WF_vars(NextNotification(h))
        /\ WF_vars(GetNotification(h)) /\ WF_vars(Unregister(h))

FairSpec == Spec /\ Fairness

-----------------------------------------------------------------------------
(* Properties.                                                             *)

UserStates == {"idle", "replay", "next", "get", "leaving completed", "leaving raised",
               "completed", "raised"}

\* Type invariant: the tables of MessageRouter.__init__ map registered identifiers
\* to queues of events, and every thread of CodexClient is at a place of its call.
TypeOK ==
    /\ response_waiters \subseteq Requests
    /\ waiter \in [Requests -> Seq(Answers)]
    /\ caller \in [Requests -> {"idle", "writing", "waiting", "discarding", "returned", "raised"}]
    /\ sent \subseteq Requests
    /\ misread \subseteq Requests
    /\ registered \in [Channels -> Queues \cup {NoQueue}]
    /\ pending \in [Channels -> Seq(Nat)]
    /\ queue \in [Queues -> Seq(Items)]
    /\ user \in [Handles -> UserStates]
    /\ held \in [Handles -> Queues \cup {NoQueue}]
    /\ replay \in [Handles -> Seq(Nat)]
    /\ calls \in [Handles -> 0..MaxCalls]
    /\ reader \in {"reading", "raising", "failing", "exited"}
    /\ owedResponses \subseteq Requests \X Answers
    /\ owedItems \subseteq Queues \X Items
    /\ routed \in [Channels -> Nat]
    /\ received \in [Handles -> Seq(Nat)]
    /\ replayed \in [Channels -> SUBSET Nat]
    /\ dropped \in [Channels -> SUBSET Nat]

\* The reader never blocks on a caller: whatever it still has to put into a
\* response queue is the only item that queue will ever get, so the put of
\* route_response or fail_all into Queue(maxsize=1) finds it empty, also when
\* a response, a failed write and fail_all race for the same request.
ReaderNeverBlocksOnAWaiter ==
    \A put \in owedResponses :
        /\ waiter[put[1]] = <<>>
        /\ put[1] \notin response_waiters
        /\ \A other \in owedResponses : other[1] = put[1] => other = put

\* A thread that waits for a response nobody has put or is about to put still
\* has its waiter in the table, where route_response and fail_all find it, and
\* while the reader runs its answer is still to come.  The one way out of the
\* table without a put is an error response that route_response cannot read:
\* its waiter is lost, and then the reader is on its way out.
WaitingCallerIsReachable ==
    \A r \in Requests :
        caller[r] = "waiting" /\ waiter[r] = <<>> =>
            \/ r \in response_waiters /\ (reader = "reading" => r \in sent)
            \/ \E put \in owedResponses : put[1] = r
            \/ r \in misread /\ reader # "reading"

\* An event is never kept for a channel that has a queue: register_* takes
\* everything that was kept and route_notification keeps nothing more, because
\* both decide under the lock.
NothingPendingWhileRegistered ==
    \A ch \in Channels : registered[ch] # NoQueue => pending[ch] = <<>>

\* Where the events of channel ch are: kept, being replayed, in a queue, in the
\* reader's hand, returned by a handle, or discarded.
HandlesOf(ch) == {h \in Handles : ChannelOf[h] = ch}
QueuesOf(ch) == IF ch = Global THEN {GlobalQueue} ELSE HandlesOf(ch) \X (1..MaxCalls)
Slots(place, owner, s) == {<<place, owner, i, s[i]>> : i \in DOMAIN s}
Dropped(ch) == {<<"dropped", ch, 0, k>> : k \in dropped[ch]}
Owed(ch) == {<<"owed", put[1], 0, put[2]>> : put \in {p \in owedItems : p[1] \in QueuesOf(ch)}}
Queued(ch) == UNION {Slots("queue", q, queue[q]) : q \in QueuesOf(ch)}
WithHandles(ch) ==
    UNION {Slots("replay", h, replay[h]) \cup Slots("received", h, received[h]) : h \in HandlesOf(ch)}
Places(ch) == Slots("pending", ch, pending[ch]) \cup Dropped(ch) \cup Owed(ch) \cup Queued(ch) \cup WithHandles(ch)

\* Every event read from stdout is in exactly one place: routing, replay,
\* re-registration and failure neither lose nor duplicate one, whatever the
\* interleaving of the reader with the handles.
EveryEventIsInOnePlace ==
    \A ch \in Channels :
        LET places == {p \in Places(ch) : p[4] # Failure} IN
        /\ {p[4] : p \in places} = 1..routed[ch]
        /\ Cardinality(places) = routed[ch]

\* No event is kept for a turn whose completion has been routed: streams that
\* were abandoned, or never opened, leave nothing behind in the pending table.
NothingPendingAfterCompletion ==
    \A t \in Turns : routed[t] = Last[t] => pending[t] = <<>>

\* A handle receives the events of its channel in the order they were sent,
\* except that an event routed while register_* replays may overtake a
\* replayed one.
OnlyReplayIsOvertaken ==
    \A h \in Handles : \A i, j \in DOMAIN received[h] :
        i < j /\ received[h][i] > received[h][j] =>
            /\ received[h][j] \in replayed[ChannelOf[h]]
            /\ received[h][i] \notin replayed[ChannelOf[h]]

Sole(h) == HandlesOf(ChannelOf[h]) = {h}
InCall(h) == user[h] \in {"replay", "next", "get"}
CallEnded(h) == user[h] \in {"completed", "raised"}

\* A stream or wait that has its queue registered while the reader runs and
\* before the completion is routed ends: it gets the completion, or the failure.
RegisteredCallEnds ==
    \A h \in Handles :
        (/\ Sole(h) /\ InCall(h) /\ reader = "reading"
         /\ ChannelOf[h] # Global
         /\ registered[ChannelOf[h]] # NoQueue
         /\ routed[ChannelOf[h]] < Last[ChannelOf[h]]) ~> CallEnded(h)

\* A request whose waiter is in the table while the reader runs gets its
\* response or the transport failure, unless its own response is an error that
\* route_response cannot read.  A request that creates its waiter when the
\* reader has left is outside it (NoRequestBlocksForever below).
RegisteredRequestEnds ==
    \A r \in Requests :
        (caller[r] = "waiting" /\ r \in response_waiters /\ reader = "reading")
            ~> (caller[r] \in {"returned", "raised"} \/ r \in misread)

\* The first stream or wait of a turn ends unless the transport fails, however
\* late the handle registers.  The code does not keep this (README, section 5).
FirstCallEnds ==
    \A h \in Handles :
        (Sole(h) /\ InCall(h) /\ calls[h] = 1 /\ ChannelOf[h] \in Turns)
            ~> (CallEnded(h) \/ reader # "reading")

\* No request blocks for a response that cannot arrive any more.  The code does
\* not keep this (README, section 5).
NoRequestBlocksForever ==
    \A r \in Requests :
        caller[r] = "waiting" ~> caller[r] \in {"returned", "raised"}
=============================================================================
