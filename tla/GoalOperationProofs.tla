-------------------------- MODULE GoalOperationProofs --------------------------
(***************************************************************************)
(* What GoalOperation promises for any number of operations, leavers and   *)
(* physical turns, stored goals and a transport that may fail: the types;  *)
(* that the route of a thread follows the operations that take it; and     *)
(* what cancelling one stops, and that it stops nothing else.              *)
(***************************************************************************)
EXTENDS GoalOperation, TLAPS

USE DEF historyVars

-----------------------------------------------------------------------------
(* Types: what travels between the server, the reader and the threads when *)
(* the server has started k physical turns.                                *)

Statuses == {"none", "active", "paused", "complete"}
Notes(k) == [kind : {"started", "completed"}, turn : 0..k,
             status : {"none", "completed", "failed", "interrupted"}]
              \cup [kind : {"goal", "cleared"}, turn : 0..k, status : Statuses]
Responses(k) == [kind : {"response"}, op : Ops, answer : {"ok", "invalid", "error", "expected"},
                 turn : 0..k]
Requests(k) == [kind : {"read", "clear", "set", "pause", "interrupt", "turn"}, turn : 0..k] \cup {None}
States(k) == [first : 0..k, current : 0..k, completed : 0..k, status : Statuses, cleared : BOOLEAN,
              routing : BOOLEAN, failed : BOOLEAN, finished : BOOLEAN, abandoned : BOOLEAN]
Cursors(k) == [started : BOOLEAN, active : BOOLEAN, last : Notes(k) \cup {None},
               failed : Notes(k) \cup {None}, status : Statuses, cleared : BOOLEAN]
Hands(k) == {None} \cup [kind : {"observe", "put", "release"}, op : Ops, note : Notes(k)]
              \cup [kind : {"fail"}, op : Ops]

Messages(k) == Notes(k) \cup Responses(k)
Items(k) == Notes(k) \cup {Failure, Closed}
Values(k) == /\ wire \in Seq(Messages(k))
             /\ request \in [Ops -> Requests(k)]
             /\ reply \in [Ops -> Responses(k) \cup {None}]
             /\ state \in [Ops -> States(k)]
             /\ queue \in [Ops -> Seq(Items(k))]
             /\ cursor \in [Ops -> Cursors(k)]
             /\ hand \in Hands(k)
Shared == /\ goal \in Statuses /\ goalOf \in Ops \cup {NoOp}
          /\ turns \in Seq(Ops \cup {NoOp}) /\ turn \in 0..Len(turns)
          /\ overtaken \subseteq Ops /\ unpaused \subseteq Ops /\ unstopped \subseteq Ops
          /\ lock \in Ops \cup {NoOp} /\ route \in Ops \cup {NoOp}
          /\ at \in [Ops -> Places] /\ transport \in {"up", "down", "deaf"}
Types == Shared /\ Values(Len(turns))

\* The thread-start lock is held by the caller between its checks and their use.
Locking == \A o \in Ops :
    at[o] \in {"turn", "read", "reserve", "clear", "set", "start"} => lock = o
\* A stream that is read has not been closed: what it takes is a notification or the
\* failure.
Open == Places \ {"release", "release completed", "raised", "left", "completed"}
Unclosed == \A o \in Ops : at[o] \in Open => \A i \in DOMAIN queue[o] : queue[o][i] # Closed
IInv == Types /\ Unclosed /\ Locking /\ TurnsAndGoalsExclude /\ RouteIsTheOperations

-----------------------------------------------------------------------------
\* What is a value when k turns have been started is one when more have.
LEMMA Wider ==
  ASSUME NEW k \in Nat, NEW m \in Nat, k <= m, Values(k)
  PROVE  Values(m)
  <1>1. 0..k \subseteq 0..m
    OBVIOUS
  <1>2. Notes(k) \subseteq Notes(m) /\ Responses(k) \subseteq Responses(m) /\ Requests(k) \subseteq Requests(m)
    BY <1>1 DEF Notes, Responses, Requests
  <1>3. /\ States(k) \subseteq States(m) /\ Cursors(k) \subseteq Cursors(m) /\ Hands(k) \subseteq Hands(m)
        /\ Messages(k) \subseteq Messages(m) /\ Items(k) \subseteq Items(m)
    BY <1>1, <1>2 DEF States, Cursors, Hands, Messages, Items
  <1>4. Seq(Messages(k)) \subseteq Seq(Messages(m)) /\ Seq(Items(k)) \subseteq Seq(Items(m))
    BY <1>3
  <1> QED BY <1>2, <1>3, <1>4 DEF Values

\* What is sent is appended, one message or two.
LEMMA Sending ==
  ASSUME NEW S, NEW s \in Seq(S), NEW a \in S, NEW b \in S
  PROVE  Append(s, a) \in Seq(S) /\ s \o <<a, b>> \in Seq(S)
  <1>1. <<a, b>> \in Seq(S)
    OBVIOUS
  <1> QED BY <1>1

-----------------------------------------------------------------------------
(* Each action keeps the types: first the server.                          *)

\* The server starts no turn without a message about it: the values stay those of the
\* turns there are.
LEMMA ServerTypes ==
  ASSUME Types, Server
  PROVE  Types'
  <1>0. PICK k \in Nat : k = Len(turns) /\ Values(k) /\ turn \in 0..k
    BY DEF Types, Shared
  <1>1. CASE ServerStartsTurn
    <2>1. turns' \in Seq(Ops \cup {NoOp}) /\ Len(turns') = k + 1 /\ turn' = k + 1
      BY <1>0, <1>1 DEF ServerStartsTurn, Types, Shared
    <2>2. Values(k + 1)
      BY <1>0, Wider
    <2>3. Note("started", turn', "none") \in Messages(k + 1)
      BY <2>1, <1>0 DEF Note, Messages, Notes
    <2>4. wire' \in Seq(Messages(k + 1))
      BY <1>1, <2>2, <2>3 DEF ServerStartsTurn, Values
    <2>5. Values(k + 1)'
      BY <1>0, <2>2, <2>4, Server DEF Server, Values, opVars, streamVars
    <2> QED BY <1>0, <1>1, <2>1, <2>5, Server DEF Server, ServerStartsTurn, Types, Shared
  <1>2. CASE ServerEndsTurn
    <2>1. wire' \in Seq(Messages(k))
      BY <1>0, <1>2 DEF ServerEndsTurn, Types, Shared, Values, Note, Messages, Notes
    <2> QED BY <1>0, <1>2, <2>1 DEF Server, ServerEndsTurn, Types, Shared, Values, opVars, streamVars
  <1>3. CASE ServerSettlesGoal
    <2>1. wire' \in Seq(Messages(k))
      BY <1>0, <1>3 DEF ServerSettlesGoal, Types, Shared, Values, Goal, Note, Messages, Notes, Statuses
    <2> QED BY <1>0, <1>3, <2>1
        DEF Server, ServerSettlesGoal, Types, Shared, Values, opVars, streamVars, Statuses
  <1> QED BY <1>1, <1>2, <1>3 DEF Server

\* The server keeps the types: it adds at most one turn and two messages.
LEMMA AnswerTypes ==
  ASSUME Types, NEW o \in Ops, ServerAnswers(o)
  PROVE  Types'
  <1>0. PICK k \in Nat : k = Len(turns) /\ Values(k) /\ turn \in 0..k
    BY DEF Types, Shared
  <1>1. request' \in [Ops -> Requests(k)]
    BY <1>0 DEF ServerAnswers, Values, Requests
  <1>2. \A answer \in {"ok", "invalid", "error", "expected"}, j \in 0..k :
           Response(o, answer, j) \in Messages(k)
    BY DEF Response, Messages, Responses
  <1>3. \A status \in {"active", "paused", "complete"} : Goal(status) \in Messages(k)
    BY <1>0 DEF Goal, Note, Messages, Notes, Statuses
  <1>4. Cleared \in Messages(k)
    BY <1>0 DEF Cleared, Note, Messages, Notes, Statuses
  <1>5. wire \in Seq(Messages(k))
    BY <1>0 DEF Values
  <1>6. overtaken' \subseteq Ops /\ unpaused' \subseteq Ops /\ unstopped' \subseteq Ops
    BY DEF ServerAnswers, ServerAcceptsTurn, ServerReads, ServerClears, ServerSets, ServerPauses,
           ServerInterrupts, serverVars, Types, Shared
  <1>7. ASSUME UNCHANGED turns, wire' \in Seq(Messages(k)), turn' \in 0..k, goal' \in Statuses,
               goalOf' \in Ops \cup {NoOp}
        PROVE  Types'
    BY <1>0, <1>1, <1>7, <1>6 DEF ServerAnswers, Types, Shared, Values, opVars, streamVars
  <1>8. CASE ServerAcceptsTurn(o)
    <2>1. CASE /\ turn = 0 /\ turns' = Append(turns, NoOp) /\ turn' = Len(turns) + 1
               /\ wire' = wire \o <<Response(o, "ok", turn'), Note("started", turn', "none")>>
      <3>1. turns' \in Seq(Ops \cup {NoOp}) /\ Len(turns') = k + 1 /\ turn' = k + 1
        <4>1. turns \in Seq(Ops \cup {NoOp}) /\ turns' = Append(turns, NoOp) /\ turn' = Len(turns) + 1
          BY <2>1 DEF Types, Shared
        <4> QED BY <1>0, <4>1
      <3>2. Values(k + 1)
        BY <1>0, Wider
      <3>3. /\ Note("started", turn', "none") \in Messages(k + 1)
            /\ Response(o, "ok", turn') \in Messages(k + 1)
        BY <3>1, <1>0 DEF Note, Response, Messages, Notes, Responses
      <3>4. wire \in Seq(Messages(k + 1))
        BY <3>2 DEF Values
      <3>5. wire' = wire \o <<Response(o, "ok", turn'), Note("started", turn', "none")>>
        BY <2>1
      <3>6. wire' \in Seq(Messages(k + 1))
        BY <3>3, <3>4, <3>5, Sending
      <3>7. request' \in [Ops -> Requests(k + 1)]
        BY <3>2 DEF ServerAnswers, Values, Requests
      <3>8. Values(k + 1)'
        BY <3>2, <3>6, <3>7 DEF ServerAnswers, Values, opVars, streamVars
      <3> QED BY <1>0, <1>8, <2>1, <3>1, <3>8 DEF ServerAnswers, ServerAcceptsTurn, Types, Shared
    <2>2. CASE wire' = Append(wire, Response(o, "error", 0)) /\ UNCHANGED <<turn, turns>>
      <3>1. wire' \in Seq(Messages(k))
        BY <1>0, <1>2, <1>5, <2>2
      <3> QED BY <1>0, <1>7, <1>8, <2>2, <3>1 DEF ServerAcceptsTurn, Types, Shared
    <2> QED BY <1>8, <2>1, <2>2 DEF ServerAcceptsTurn
  <1>9. CASE ServerReads(o)
    <2>1. wire' \in Seq(Messages(k))
      BY <1>0, <1>2, <1>5, <1>9 DEF ServerReads
    <2> QED BY <1>0, <1>7, <1>9, <2>1 DEF ServerReads, serverVars, Types, Shared
  <1>10. CASE ServerClears(o)
    <2>1. PICK answer \in {"ok", "invalid", "error"} :
             wire' \in {Append(wire, Response(o, answer, 0)), wire \o <<Response(o, answer, 0), Cleared>>,
                        wire \o <<Cleared, Response(o, answer, 0)>>}
      BY <1>10 DEF ServerClears
    <2>2. Response(o, answer, 0) \in Messages(k)
      BY <1>0, <1>2
    <2>3. wire' \in Seq(Messages(k))
      BY <1>4, <1>5, <2>1, <2>2, Sending
    <2> QED BY <1>0, <1>7, <1>10, <2>3 DEF ServerClears, Types, Shared, Statuses
  <1>11. CASE ServerSets(o)
    <2>1. Goal("active") \in Messages(k)
      BY <1>3
    <2>2. \E answer \in {"ok", "invalid", "error", "expected"} :
             wire' \in {Append(wire, Response(o, answer, 0)), wire \o <<Response(o, answer, 0), Goal("active")>>,
                        wire \o <<Goal("active"), Response(o, answer, 0)>>}
      BY <1>11 DEF ServerSets
    <2>3. wire' \in Seq(Messages(k))
      <3>1. PICK answer \in {"ok", "invalid", "error", "expected"} :
             wire' \in {Append(wire, Response(o, answer, 0)), wire \o <<Response(o, answer, 0), Goal("active")>>,
                        wire \o <<Goal("active"), Response(o, answer, 0)>>}
        BY <2>2
      <3>2. Response(o, answer, 0) \in Messages(k)
        BY <1>0, <1>2
      <3> QED BY <1>5, <2>1, <3>1, <3>2, Sending
    <2>4. goal' \in Statuses /\ goalOf' \in Ops \cup {NoOp}
      BY <1>11 DEF ServerSets, Types, Shared, Statuses
    <2> QED BY <1>0, <1>7, <1>11, <2>3, <2>4 DEF ServerSets
  <1>12. CASE ServerPauses(o)
    <2>1. Goal("paused") \in Messages(k)
      BY <1>3
    <2>2. wire' \in Seq(Messages(k))
      <3>1. Response(o, "ok", 0) \in Messages(k) /\ Response(o, "error", 0) \in Messages(k)
        BY <1>0, <1>2
      <3>2. wire' = wire \o <<Goal("paused"), Response(o, "ok", 0)>> \/ wire' = Append(wire, Response(o, "error", 0))
        BY <1>12 DEF ServerPauses
      <3> QED BY <1>5, <2>1, <3>1, <3>2, Sending
    <2> QED BY <1>0, <1>7, <1>12, <2>2 DEF ServerPauses, Types, Shared, Statuses
  <1>13. CASE ServerInterrupts(o)
    <2>1. Note("completed", turn, "interrupted") \in Messages(k)
      BY <1>0 DEF Note, Messages, Notes
    <2>2. wire' \in Seq(Messages(k))
      <3>1. /\ Response(o, "ok", 0) \in Messages(k) /\ Response(o, "error", 0) \in Messages(k)
            /\ Response(o, "expected", turn) \in Messages(k)
        BY <1>0, <1>2
      <3>2. \/ wire' = wire \o <<Response(o, "ok", 0), Note("completed", turn, "interrupted")>>
            \/ wire' = Append(wire, Response(o, "error", 0))
            \/ wire' = Append(wire, Response(o, "expected", turn))
        BY <1>13 DEF ServerInterrupts
      <3> QED BY <1>5, <2>1, <3>1, <3>2, Sending
    <2> QED BY <1>0, <1>7, <1>13, <2>2 DEF ServerInterrupts, Types, Shared
  <1> QED BY <1>8, <1>9, <1>10, <1>11, <1>12, <1>13 DEF ServerAnswers

-----------------------------------------------------------------------------
(* The reader.                                                             *)

\* What a notification of k turns makes of an operation's state.
LEMMA ObservedIsAState ==
  ASSUME NEW k \in Nat, NEW s \in States(k), NEW n \in Notes(k)
  PROVE  Observed(s, n) \in States(k) /\ Observed(s, n).finished = s.finished
  <1>1. CASE n.kind = "started"
    BY <1>1 DEF Observed, States, Notes
  <1>2. CASE n.kind = "completed"
    <2>1. Observed(s, n) = [s EXCEPT !.completed = n.turn, !.current = IF @ = n.turn THEN 0 ELSE @]
      BY <1>2 DEF Observed
    <2>2. n.turn \in 0..k
      BY DEF Notes
    <2>3. PICK j \in 0..k : j = IF s.current = n.turn THEN 0 ELSE s.current
      BY <2>2 DEF States
    <2>4. Observed(s, n) = [s EXCEPT !.completed = n.turn, !.current = j]
      BY <2>1, <2>3
    <2> QED BY <2>2, <2>4 DEF States
  <1>3. CASE n.kind = "goal"
    BY <1>3 DEF Observed, States, Notes
  <1>4. CASE n.kind = "cleared"
    BY <1>4 DEF Observed, States, Notes
  <1> QED BY <1>1, <1>2, <1>3, <1>4 DEF Notes

\* So does the reader, which moves what is on the wire and wakes operations.
LEMMA ReaderTypes ==
  ASSUME Types, Reader \/ FailAll
  PROVE  Types'
  <1>0. PICK k \in Nat : k = Len(turns) /\ Values(k)
    BY DEF Types, Shared
  <1>1. ASSUME wire # <<>>
        PROVE  Head(wire) \in Messages(k) /\ Tail(wire) \in Seq(Messages(k))
    BY <1>0, <1>1 DEF Values
  <1>2. CASE ReadResponse
    <2>1. Head(wire) \in Responses(k)
      BY <1>1, <1>2 DEF ReadResponse, Messages, Notes, Responses
    <2>2. reply' \in [Ops -> Responses(k) \cup {None}] /\ wire' \in Seq(Messages(k))
      BY <1>0, <1>1, <1>2, <2>1 DEF ReadResponse, Values, Responses
    <2> QED BY <1>0, <1>2, <2>2 DEF ReadResponse, Types, Shared, Values, serverVars, opVars, streamVars
  <1>3. CASE ReadNotification
    <2>1. Head(wire) \in Notes(k)
      BY <1>1, <1>3 DEF ReadNotification, Messages, Notes, Responses
    <2>2. hand' \in Hands(k) /\ wire' \in Seq(Messages(k))
      BY <1>0, <1>1, <1>3, <2>1 DEF ReadNotification, Types, Shared, Hands
    <2> QED BY <1>0, <1>3, <2>2 DEF ReadNotification, Types, Shared, Values, serverVars, opVars, streamVars
  <1>4. CASE Observe
    <2>1. hand.op \in Ops /\ hand.note \in Notes(k) /\ hand = [kind |-> "observe", op |-> hand.op, note |-> hand.note]
      BY <1>0, <1>4 DEF Observe, Values, Hands, None
    <2>2. Observed(state[hand.op], hand.note) \in States(k)
      BY <1>0, <2>1, ObservedIsAState DEF Values
    <2>3. state' \in [Ops -> States(k)]
      <3> DEFINE seen == Observed(state[hand.op], hand.note)
      <3>1. \A b \in BOOLEAN : [seen EXCEPT !.finished = b] \in States(k)
        BY <2>2 DEF States
      <3>2. seen.finished \in BOOLEAN
        BY <2>2 DEF States
      <3>3. \/ state' = state
            \/ state' = [state EXCEPT ![hand.op] = [seen EXCEPT !.finished = @ \/ IsOver(seen)]]
        BY <1>4 DEF Observe
      <3>4. [seen EXCEPT !.finished = @ \/ IsOver(seen)] = [seen EXCEPT !.finished = (seen.finished \/ IsOver(seen))]
        OBVIOUS
      <3>5. (seen.finished \/ IsOver(seen)) \in BOOLEAN
        OBVIOUS
      <3>6. [seen EXCEPT !.finished = @ \/ IsOver(seen)] \in States(k)
        BY <3>1, <3>4, <3>5
      <3> QED BY <1>0, <2>1, <3>3, <3>6 DEF Values
    <2>4. hand' \in Hands(k)
      BY <1>4, <2>1 DEF Observe, Hands
    <2> QED BY <1>0, <1>4, <2>3, <2>4 DEF Observe, Types, Shared, Values, serverVars, streamVars
  <1>5. CASE PutObserved
    <2>1. hand.op \in Ops /\ hand.note \in Notes(k) /\ hand = [kind |-> "put", op |-> hand.op, note |-> hand.note]
      BY <1>0, <1>5 DEF PutObserved, Values, Hands, None
    <2>2. hand' \in Hands(k)
      BY <1>5, <2>1 DEF PutObserved, Hands
    <2>3. Append(queue[hand.op], hand.note) \in Seq(Items(k))
      BY <1>0, <2>1 DEF Values, Items
    <2>4. queue' \in [Ops -> Seq(Items(k))]
      BY <1>0, <1>5, <2>1, <2>3 DEF PutObserved, Values
    <2> QED BY <1>0, <1>5, <2>2, <2>4 DEF PutObserved, Types, Shared, Values, serverVars, streamVars
  <1>6. CASE ReaderReleases
    <2>1. route' \in Ops \cup {NoOp} /\ hand' \in Hands(k)
      BY <1>6 DEF ReaderReleases, UnregisterGoal, Types, Shared, Hands
    <2> QED BY <1>0, <1>6, <2>1 DEF ReaderReleases, Types, Shared, Values, serverVars, opVars, streamVars
  <1>7. CASE FailAll
    <2>1. hand' \in Hands(k) /\ wire' \in Seq(Messages(k))
      BY <1>7 DEF FailAll, Types, Shared, Hands
    <2>2. \A o \in Ops : Response(o, "error", 0) \in Responses(k)
      BY <1>0 DEF Response, Responses
    <2>3. request' \in [Ops -> Requests(k)] /\ reply' \in [Ops -> Responses(k) \cup {None}]
      BY <1>0, <1>7, <2>2 DEF FailAll, Values, Requests
    <2>4. transport' \in {"up", "down", "deaf"}
      BY <1>7 DEF FailAll
    <2> QED BY <1>0, <1>7, <2>1, <2>3, <2>4 DEF FailAll, Types, Shared, Values, serverVars, opVars, streamVars
  <1>8. CASE FailGoal
    <2>1. hand.op \in Ops
      BY <1>0, <1>8 DEF FailGoal, Values, Hands, None
    <2>2. state' \in [Ops -> States(k)]
      <3>1. state[hand.op] \in States(k)
        BY <1>0, <2>1 DEF Values
      <3>2. [state[hand.op] EXCEPT !.failed = TRUE] \in States(k)
        BY <3>1 DEF States
      <3>3. state' = [state EXCEPT ![hand.op] = [state[hand.op] EXCEPT !.failed = TRUE]]
        BY <1>8 DEF FailGoal
      <3> QED BY <1>0, <3>2, <3>3 DEF Values
    <2>3. Append(queue[hand.op], Failure) \in Seq(Items(k))
      BY <1>0, <2>1 DEF Values, Items
    <2>4. queue' \in [Ops -> Seq(Items(k))] /\ hand' \in Hands(k)
      BY <1>0, <1>8, <2>1, <2>3 DEF FailGoal, Values, Hands
    <2> QED BY <1>0, <1>8, <2>2, <2>4 DEF FailGoal, Types, Shared, Values, serverVars, streamVars
  <1> QED BY <1>2, <1>3, <1>4, <1>5, <1>6, <1>7, <1>8 DEF Reader

-----------------------------------------------------------------------------
(* The threads of the operations.                                          *)

\* The steps of a thread that change neither state, queue nor stream.
LEMMA CallTypes ==
  ASSUME Types, NEW o \in Ops,
         \/ BeginStart(o) \/ BeginTurn(o) \/ StartTimesOut(o) \/ LeaveStream(o) \/ RequestFails(o)
         \/ AfterTurn(o) \/ AfterRead(o) \/ ReserveGoal(o) \/ AfterSet(o) \/ Started(o)
         \/ AfterPause(o) \/ AfterInterrupt(o) \/ AfterRetry(o) \/ Release(o)
  PROVE  Types'
  <1>0. PICK k \in Nat : k = Len(turns) /\ Values(k) /\ 0 \in 0..k
    BY DEF Types, Shared
  <1>1. ASSUME at' \in [Ops -> Places], request' \in [Ops -> Requests(k)],
               reply' \in [Ops -> Responses(k) \cup {None}], lock' \in Ops \cup {NoOp},
               route' \in Ops \cup {NoOp},
               UNCHANGED <<serverVars, wire, opVars, streamVars, hand, transport>>
        PROVE  Types'
    BY <1>0, <1>1 DEF Types, Shared, Values, serverVars, opVars, streamVars
  <1>2. /\ at \in [Ops -> Places] /\ request \in [Ops -> Requests(k)]
        /\ reply \in [Ops -> Responses(k) \cup {None}] /\ lock \in Ops \cup {NoOp}
        /\ route \in Ops \cup {NoOp} /\ state[o] \in States(k)
    BY <1>0 DEF Types, Shared, Values
  <1>3. \A place \in Places : Go(o, place) => at' \in [Ops -> Places]
    BY <1>2 DEF Go
  <1>4. \A kind \in {"read", "clear", "set", "pause", "interrupt", "turn"}, j \in 0..k :
           Send(o, kind, j) => request' \in [Ops -> Requests(k)]
    BY <1>2 DEF Send, Request, Requests
  <1>5. Unlock(o) => lock' \in Ops \cup {NoOp}
    BY <1>2 DEF Unlock
  <1>6. \A place : Answered(o, place) => reply' \in [Ops -> Responses(k) \cup {None}]
    BY <1>2 DEF Answered
  <1>7. CASE BeginStart(o)
    BY <1>0, <1>1, <1>2, <1>3, <1>4, <1>7 DEF BeginStart, Places
  <1>8. CASE BeginTurn(o)
    BY <1>0, <1>1, <1>2, <1>3, <1>4, <1>8 DEF BeginTurn, Places
  <1>9. CASE StartTimesOut(o)
    BY <1>0, <1>1, <1>2, <1>3, <1>4, <1>9 DEF StartTimesOut, Places
  <1>10. CASE LeaveStream(o)
    BY <1>0, <1>1, <1>2, <1>3, <1>4, <1>10 DEF LeaveStream, Places
  <1>11. CASE RequestFails(o)
    <2>1. Response(o, "error", 0) \in Responses(k) /\ None \in Requests(k)
      BY DEF Response, Responses, Requests
    <2> QED BY <1>1, <1>2, <1>11, <2>1 DEF RequestFails
  <1>12. CASE AfterTurn(o)
    BY <1>1, <1>2, <1>3, <1>5, <1>6, <1>12 DEF AfterTurn, Places
  <1>13. CASE AfterRead(o)
    BY <1>1, <1>2, <1>3, <1>5, <1>6, <1>13 DEF AfterRead, Places
  <1>14. CASE ReserveGoal(o)
    BY <1>1, <1>2, <1>3, <1>4, <1>5, <1>0, <1>14 DEF ReserveGoal, Places
  <1>15. CASE AfterSet(o)
    BY <1>1, <1>2, <1>3, <1>4, <1>6, <1>0, <1>15 DEF AfterSet, StartRaises, Places
  <1>16. CASE Started(o)
    BY <1>1, <1>2, <1>3, <1>5, <1>16 DEF Started, Places
  <1>17. CASE AfterPause(o)
    <2>1. TurnForInterrupt(state[o]) \in 0..k
      BY <1>2 DEF TurnForInterrupt, States
    <2> QED BY <1>1, <1>2, <1>3, <1>4, <1>6, <1>17, <2>1 DEF AfterPause, Places
  <1>18. CASE AfterInterrupt(o)
    <2>1. reply[o].turn \in 0..k
      BY <1>2, <1>18 DEF AfterInterrupt, Answered, Responses
    <2> QED BY <1>1, <1>2, <1>3, <1>4, <1>6, <1>18, <2>1 DEF AfterInterrupt, Places
  <1>19. CASE AfterRetry(o)
    BY <1>1, <1>2, <1>3, <1>6, <1>19 DEF AfterRetry, Places
  <1>20. CASE Release(o)
    <2>1. PICK place \in Places : Go(o, place)
      BY <1>20 DEF Release, Places
    <2> QED BY <1>1, <1>2, <1>3, <1>5, <1>20, <2>1 DEF Release, UnregisterGoal
  <1> QED BY <1>7, <1>8, <1>9, <1>10, <1>11, <1>12, <1>13, <1>14, <1>15, <1>16, <1>17, <1>18, <1>19, <1>20

\* A thread that begins to route, is abandoned, or finishes its operation.
LEMMA StateTypes ==
  ASSUME Types, NEW o \in Ops, AfterClear(o) \/ Abandoned(o) \/ Finish(o)
  PROVE  Types'
  <1>0. PICK k \in Nat : k = Len(turns) /\ Values(k) /\ 0 \in 0..k
    BY DEF Types, Shared
  <1>1. /\ at \in [Ops -> Places] /\ request \in [Ops -> Requests(k)]
        /\ reply \in [Ops -> Responses(k) \cup {None}] /\ lock \in Ops \cup {NoOp}
        /\ state \in [Ops -> States(k)] /\ queue \in [Ops -> Seq(Items(k))]
    BY <1>0 DEF Types, Shared, Values
  <1>2. \A place \in Places : Go(o, place) => at' \in [Ops -> Places]
    BY <1>1 DEF Go
  <1>3. \A kind \in {"set", "pause"} : Send(o, kind, 0) => request' \in [Ops -> Requests(k)]
    BY <1>1 DEF Send, Request, Requests
  <1>4. /\ [state[o] EXCEPT !.routing = TRUE] \in States(k)
        /\ [state[o] EXCEPT !.abandoned = TRUE] \in States(k)
        /\ [state[o] EXCEPT !.finished = TRUE, !.current = 0] \in States(k)
    <2>1. state[o] \in States(k)
      BY <1>1
    <2> DEFINE ended == [state[o] EXCEPT !.finished = TRUE]
    <2>2. ended \in States(k)
      BY <2>1 DEF States
    <2>3. [ended EXCEPT !.current = 0] \in States(k)
      BY <1>0, <2>2 DEF States
    <2>4. [state[o] EXCEPT !.finished = TRUE, !.current = 0] = [ended EXCEPT !.current = 0]
      OBVIOUS
    <2>5. /\ [state[o] EXCEPT !.routing = TRUE] \in States(k)
          /\ [state[o] EXCEPT !.abandoned = TRUE] \in States(k)
      BY <2>1 DEF States
    <2> HIDE DEF ended
    <2> QED BY <2>3, <2>4, <2>5
  <1>5. ASSUME at' \in [Ops -> Places], request' \in [Ops -> Requests(k)],
               reply' \in [Ops -> Responses(k) \cup {None}], lock' \in Ops \cup {NoOp},
               state' \in [Ops -> States(k)], queue' \in [Ops -> Seq(Items(k))],
               UNCHANGED <<serverVars, wire, route, streamVars, hand, transport>>
        PROVE  Types'
    BY <1>0, <1>5 DEF Types, Shared, Values, serverVars, streamVars
  <1>6. CASE AfterClear(o)
    <2>1. reply' \in [Ops -> Responses(k) \cup {None}]
      BY <1>1, <1>6 DEF AfterClear, Answered
    <2>2. at' \in [Ops -> Places] /\ request' \in [Ops -> Requests(k)]
      BY <1>1, <1>2, <1>3, <1>6 DEF AfterClear, StartRaises, Places
    <2>3. state' = state \/ state' = [state EXCEPT ![o] = [state[o] EXCEPT !.routing = TRUE]]
      BY <1>6 DEF AfterClear
    <2>4. state' \in [Ops -> States(k)]
      BY <1>1, <1>4, <2>3
    <2> QED BY <1>1, <1>5, <1>6, <2>1, <2>2, <2>4 DEF AfterClear
  <1>7. CASE Abandoned(o)
    <2>1. at' \in [Ops -> Places] /\ request' \in [Ops -> Requests(k)] /\ lock' \in Ops \cup {NoOp}
      BY <1>1, <1>2, <1>3, <1>7 DEF Abandoned, Unlock, Places
    <2>2. state' = [state EXCEPT ![o] = [state[o] EXCEPT !.abandoned = TRUE]]
      BY <1>7 DEF Abandoned
    <2>3. state' \in [Ops -> States(k)]
      BY <1>1, <1>4, <2>2
    <2> QED BY <1>1, <1>5, <1>7, <2>1, <2>3 DEF Abandoned
  <1>8. CASE Finish(o)
    <2>1. at' \in [Ops -> Places]
      BY <1>1, <1>2, <1>8 DEF Finish, Places
    <2>2. state' = [state EXCEPT ![o] = [state[o] EXCEPT !.finished = TRUE, !.current = 0]]
      BY <1>8 DEF Finish
    <2>3. state' \in [Ops -> States(k)]
      BY <1>1, <1>4, <2>2
    <2>4. Append(queue[o], Closed) \in Seq(Items(k))
      BY <1>1 DEF Items
    <2>5. queue' \in [Ops -> Seq(Items(k))]
      BY <1>1, <1>8, <2>4 DEF Finish
    <2> QED BY <1>1, <1>5, <1>8, <2>1, <2>3, <2>5 DEF Finish
  <1> QED BY <1>6, <1>7, <1>8

-----------------------------------------------------------------------------
(* The streams.                                                            *)

\* Whatever is taken from a queue leaves the cursor of a stream.
LEMMA ProcessedIsACursor ==
  ASSUME NEW k \in Nat, NEW c \in Cursors(k), NEW n \in Notes(k) \cup {Failure}
  PROVE  Process(c, n).cursor \in Cursors(k) /\ Process(c, n).place \in {"stream", "close", "finish"}
  <1>1. CASE n.kind = "started"
    <2>1. [c EXCEPT !.active = TRUE, !.started = TRUE] \in Cursors(k)
      BY DEF Cursors
    <2> QED BY <1>1, <2>1 DEF Process, Stepped
  <1>2. CASE n.kind = "completed"
    <2> DEFINE d == [c EXCEPT !.active = FALSE, !.last = n, !.failed = IF n.status = "failed" THEN n ELSE @]
    <2>1. n \in Notes(k)
      BY <1>2 DEF Failure, Note
    <2>2. PICK f \in Notes(k) \cup {None} : f = IF n.status = "failed" THEN n ELSE c.failed
      BY <2>1 DEF Cursors
    <2>3. d = [c EXCEPT !.active = FALSE, !.last = n, !.failed = f]
      BY <2>2
    <2>4. d \in Cursors(k)
      BY <2>1, <2>3 DEF Cursors
    <2> QED BY <1>2, <2>4 DEF Process, Stepped
  <1>3. CASE n.kind = "cleared"
    <2>1. [c EXCEPT !.cleared = TRUE] \in Cursors(k)
      BY DEF Cursors
    <2> QED BY <1>3, <2>1 DEF Process, Stepped
  <1>4. CASE n.kind = "goal"
    <2> DEFINE d == [c EXCEPT !.status = n.status, !.cleared = @ /\ n.status # "active"]
    <2>1. n.status \in Statuses
      BY <1>4 DEF Notes, Failure, Note
    <2>2. PICK b \in BOOLEAN : b = (c.cleared /\ n.status # "active")
      BY DEF Cursors
    <2>3. d = [c EXCEPT !.status = n.status, !.cleared = b]
      BY <2>2
    <2>4. d \in Cursors(k)
      BY <2>1, <2>3 DEF Cursors
    <2> QED BY <1>4, <2>4 DEF Process, Stepped
  <1>5. CASE n.kind = "failure"
    BY <1>5 DEF Process, Stepped
  <1> QED BY <1>1, <1>2, <1>3, <1>4, <1>5 DEF Notes, Failure, Note

\* Taking from a queue keeps the types, and the operation streams or ends its stream.
LEMMA ConsumeTypes ==
  ASSUME Types, Unclosed, NEW o \in Ops, Consume(o)
  PROVE  Types' /\ at'[o] \in {"stream", "close", "finish"}
  <1>0. PICK k \in Nat : k = Len(turns) /\ Values(k)
    BY DEF Types, Shared
  <1>1. queue[o] \in Seq(Items(k)) /\ queue[o] # <<>> /\ at[o] = "stream" /\ at \in [Ops -> Places]
    BY <1>0 DEF Consume, Types, Shared, Values
  <1>2. Head(queue[o]) \in Items(k) /\ Tail(queue[o]) \in Seq(Items(k)) /\ Head(queue[o]) = queue[o][1]
        /\ 1 \in DOMAIN queue[o]
    BY <1>1
  <1>3. Head(queue[o]) \in Notes(k) \cup {Failure}
    BY <1>1, <1>2 DEF Unclosed, Open, Places, Items
  <1> DEFINE p == Process(cursor[o], Head(queue[o]))
  <1>4. cursor[o] \in Cursors(k)
    BY <1>0 DEF Values
  <1>5. p.cursor \in Cursors(k) /\ p.place \in {"stream", "close", "finish"}
    BY <1>3, <1>4, ProcessedIsACursor
  <1>6. cursor' = [cursor EXCEPT ![o] = p.cursor] /\ at' = [at EXCEPT ![o] = p.place]
        /\ queue' = [queue EXCEPT ![o] = Tail(@)]
    BY DEF Consume, Go
  <1> HIDE DEF p
  <1>7. cursor' \in [Ops -> Cursors(k)] /\ at' \in [Ops -> Places] /\ at'[o] \in {"stream", "close", "finish"}
    BY <1>0, <1>1, <1>5, <1>6 DEF Values, Places
  <1>8. queue' \in [Ops -> Seq(Items(k))]
    BY <1>0, <1>2, <1>6 DEF Values
  <1> QED BY <1>0, <1>7, <1>8 DEF Consume, Types, Shared, Values, serverVars

-----------------------------------------------------------------------------
(* The control: who has the lock and the route.                            *)

Control == Locking /\ TurnsAndGoalsExclude /\ RouteIsTheOperations

\* The server and the reader leave lock and places alone; the reader takes the route
\* only from an operation that is finished, or from all when the transport fails.
LEMMA ReaderControl ==
  ASSUME IInv, Server \/ Reader \/ FailAll \/ (\E o \in Ops : ServerAnswers(o) \/ RequestFails(o))
  PROVE  Control'
  <1>0. PICK k \in Nat : k = Len(turns) /\ Values(k)
    BY DEF IInv, Types, Shared
  <1>1. ASSUME UNCHANGED <<route, at, lock, transport>>,
               \A p \in Ops : state[p].finished => state'[p].finished
        PROVE  Control'
    BY <1>1 DEF Control, IInv, Locking, TurnsAndGoalsExclude, RouteIsTheOperations
  <1>2. CASE Observe
    <2>1. hand.op \in Ops /\ hand.note \in Notes(k)
      BY <1>0, <1>2 DEF Observe, Values, Hands, None
    <2>2. /\ Observed(state[hand.op], hand.note) \in States(k)
          /\ Observed(state[hand.op], hand.note).finished = state[hand.op].finished
      BY <1>0, <2>1, ObservedIsAState DEF Values
    <2> DEFINE seen == Observed(state[hand.op], hand.note)
    <2>3. [seen EXCEPT !.finished = @ \/ IsOver(seen)].finished = (seen.finished \/ IsOver(seen))
      BY <2>2 DEF States
    <2>4. \/ state' = state
          \/ state' = [state EXCEPT ![hand.op] = [seen EXCEPT !.finished = @ \/ IsOver(seen)]]
      BY <1>2 DEF Observe
    <2> HIDE DEF seen
    <2>5. seen.finished = state[hand.op].finished
      BY <2>2 DEF seen
    <2>6. \A p \in Ops : state[p].finished => state'[p].finished
      BY <1>0, <2>1, <2>3, <2>4, <2>5 DEF Values
    <2> QED BY <1>1, <1>2, <2>6 DEF Observe
  <1>3. CASE FailGoal
    <2>1. hand.op \in Ops
      BY <1>0, <1>3 DEF FailGoal, Values, Hands, None
    <2>2. state' = [state EXCEPT ![hand.op] = [state[hand.op] EXCEPT !.failed = TRUE]]
      BY <1>3 DEF FailGoal
    <2>3. [state[hand.op] EXCEPT !.failed = TRUE].finished = state[hand.op].finished
      BY <1>0, <2>1 DEF Values, States
    <2>4. \A p \in Ops : state[p].finished => state'[p].finished
      BY <1>0, <2>1, <2>2, <2>3 DEF Values
    <2> QED BY <1>1, <1>3, <2>4 DEF FailGoal
  <1>4. CASE ReaderReleases
    <2>1. /\ UNCHANGED <<at, lock, transport, state>>
          /\ route' = IF state[hand.op].finished /\ route = hand.op THEN NoOp ELSE route
      BY <1>4 DEF ReaderReleases, UnregisterGoal, opVars
    <2> QED BY <2>1, OpsAssumption DEF Control, IInv, Locking, TurnsAndGoalsExclude, RouteIsTheOperations
  <1>5. CASE FailAll
    <2>1. UNCHANGED <<at, lock, state>> /\ route' = NoOp /\ transport' # "up"
      BY <1>5 DEF FailAll, opVars
    <2> QED BY <2>1, OpsAssumption DEF Control, IInv, Locking, TurnsAndGoalsExclude, RouteIsTheOperations
  <1>6. CASE Server \/ ReadResponse \/ ReadNotification \/ PutObserved
             \/ (\E o \in Ops : ServerAnswers(o) \/ RequestFails(o))
    <2>1. UNCHANGED <<route, at, lock, transport, state>>
      BY <1>6 DEF Server, ReadResponse, ReadNotification, PutObserved, ServerAnswers, RequestFails, opVars
    <2> QED BY <1>1, <2>1
  <1> QED BY <1>2, <1>3, <1>4, <1>5, <1>6 DEF Reader

\* A thread takes the lock when it is free, reserves the route when it is free and the
\* lock its own, and gives back only its own.
LEMMA ThreadControl ==
  ASSUME IInv, NEW o \in Ops,
         \/ BeginStart(o) \/ BeginTurn(o) \/ StartTimesOut(o) \/ LeaveStream(o)
         \/ AfterTurn(o) \/ AfterRead(o) \/ ReserveGoal(o) \/ AfterClear(o) \/ AfterSet(o)
         \/ Started(o) \/ Abandoned(o) \/ AfterPause(o) \/ AfterInterrupt(o) \/ AfterRetry(o)
         \/ Finish(o) \/ Release(o) \/ Consume(o)
  PROVE  Control'
  <1>0. PICK k \in Nat : k = Len(turns) /\ Values(k)
    BY DEF IInv, Types, Shared
  <1>1. /\ at \in [Ops -> Places] /\ lock \in Ops \cup {NoOp} /\ route \in Ops \cup {NoOp}
        /\ state \in [Ops -> States(k)]
    BY <1>0 DEF IInv, Types, Shared, Values
  <1> USE DEF Control, IInv, Locking, TurnsAndGoalsExclude, RouteIsTheOperations
  \* A step to a place where neither lock nor route are needed.
  <1>2. ASSUME NEW place \in {"pause", "interrupt", "retry", "finish", "close", "release", "release completed"},
               Go(o, place), UNCHANGED <<route, transport>>,
               lock' = lock \/ Unlock(o),
               \A p \in Ops : state[p].finished => state'[p].finished
        PROVE  Control'
    BY <1>1, <1>2, OpsAssumption DEF Go, Unlock
  <1>3. CASE BeginStart(o)
    BY <1>1, <1>3, OpsAssumption DEF BeginStart, Go, opVars
  <1>4. CASE BeginTurn(o)
    BY <1>1, <1>4, OpsAssumption DEF BeginTurn, Go, opVars
  <1>5. CASE StartTimesOut(o) \/ LeaveStream(o)
    BY <1>2, <1>5 DEF StartTimesOut, LeaveStream, opVars
  <1>6. CASE AfterTurn(o)
    BY <1>1, <1>6, OpsAssumption DEF AfterTurn, Answered, Go, Unlock, opVars
  <1>7. CASE AfterRead(o)
    BY <1>1, <1>7, OpsAssumption DEF AfterRead, Answered, Go, Unlock, opVars
  <1>8. CASE ReserveGoal(o)
    BY <1>1, <1>8, OpsAssumption DEF ReserveGoal, Go, Unlock, opVars
  <1>9. CASE AfterClear(o)
    <2>1. at[o] = "clear" /\ lock = o
      BY <1>9 DEF AfterClear, Answered
    <2>2. \A p \in Ops : state[p].finished = state'[p].finished
      <3>1. [state[o] EXCEPT !.routing = TRUE].finished = state[o].finished
        BY <1>1 DEF States
      <3>2. state' = state \/ state' = [state EXCEPT ![o] = [state[o] EXCEPT !.routing = TRUE]]
        BY <1>9 DEF AfterClear
      <3> QED BY <1>1, <3>1, <3>2
    <2>3. CASE Go(o, "set")
      BY <1>1, <1>9, <2>1, <2>2, <2>3 DEF AfterClear, Go
    <2>4. CASE Go(o, "finish") \/ Go(o, "pause")
      BY <1>2, <1>9, <2>2, <2>4 DEF AfterClear
    <2> QED BY <1>9, <2>3, <2>4 DEF AfterClear, StartRaises
  <1>10. CASE AfterSet(o)
    <2>1. at[o] = "set" /\ lock = o /\ state' = state
      BY <1>10 DEF AfterSet, Answered, opVars
    <2>2. CASE Go(o, "start")
      BY <1>1, <1>10, <2>1, <2>2 DEF AfterSet, Go
    <2>3. CASE Go(o, "finish") \/ Go(o, "pause")
      BY <1>2, <1>10, <2>1, <2>3 DEF AfterSet
    <2> QED BY <1>10, <2>2, <2>3 DEF AfterSet, StartRaises
  <1>11. CASE Started(o)
    BY <1>1, <1>11, OpsAssumption DEF Started, Go, Unlock, opVars
  <1>12. CASE Abandoned(o)
    <2>1. [state[o] EXCEPT !.abandoned = TRUE].finished = state[o].finished
      BY <1>1 DEF States
    <2>2. state' = [state EXCEPT ![o] = [state[o] EXCEPT !.abandoned = TRUE]]
      BY <1>12 DEF Abandoned
    <2>3. \A p \in Ops : state[p].finished => state'[p].finished
      BY <1>1, <2>1, <2>2
    <2> QED BY <1>2, <1>12, <2>3 DEF Abandoned
  <1>13. CASE AfterPause(o) \/ AfterInterrupt(o) \/ AfterRetry(o)
    BY <1>2, <1>13 DEF AfterPause, AfterInterrupt, AfterRetry, opVars
  <1>14. CASE Finish(o)
    <2>1. [state[o] EXCEPT !.finished = TRUE, !.current = 0].finished = TRUE
      BY <1>1 DEF States
    <2>2. state' = [state EXCEPT ![o] = [state[o] EXCEPT !.finished = TRUE, !.current = 0]]
      BY <1>14 DEF Finish
    <2>3. \A p \in Ops : state[p].finished => state'[p].finished
      BY <1>1, <2>1, <2>2
    <2> QED BY <1>2, <1>14, <2>3 DEF Finish
  <1>15. CASE Release(o)
    BY <1>1, <1>15, OpsAssumption DEF Release, UnregisterGoal, Go, Unlock, opVars
  <1>16. CASE Consume(o)
    <2>1. at'[o] \in {"stream", "close", "finish"} /\ at[o] = "stream"
      BY <1>16, ConsumeTypes DEF Consume
    <2>2. \A p \in Ops \ {o} : at'[p] = at[p]
      BY <1>1, <1>16 DEF Consume, Go
    <2>3. UNCHANGED <<lock, route, state, transport>>
      BY <1>16 DEF Consume
    <2> QED BY <2>1, <2>2, <2>3
  <1> QED BY <1>3, <1>4, <1>5, <1>6, <1>7, <1>8, <1>9, <1>10, <1>11, <1>12, <1>13, <1>14, <1>15, <1>16

\* Only Finish appends the closing item, and the thread never reads after it.
LEMMA UnclosedStep ==
  ASSUME IInv, [Next]_vars
  PROVE  Unclosed'
  <1>0. PICK k \in Nat : k = Len(turns) /\ Values(k)
    BY DEF IInv, Types, Shared
  <1>1. at \in [Ops -> Places] /\ queue \in [Ops -> Seq(Items(k))] /\ Unclosed
    BY <1>0 DEF IInv, Types, Shared, Values
  <1>2. ASSUME UNCHANGED queue, \A p \in Ops : at'[p] \in Open => at[p] \in Open
        PROVE  Unclosed'
    BY <1>1, <1>2 DEF Unclosed
  <1>3. ASSUME UNCHANGED at, NEW o \in Ops, NEW item \in Items(k), item # Closed,
               queue' = [queue EXCEPT ![o] = Append(@, item)]
        PROVE  Unclosed'
    <2>1. \A p \in Ops : queue'[p] = IF p = o THEN Append(queue[o], item) ELSE queue[p]
      BY <1>1, <1>3
    <2>2. queue[o] \in Seq(Items(k))
      BY <1>1
    <2>3. \A i \in DOMAIN Append(queue[o], item) :
             Append(queue[o], item)[i] = item \/ (i \in DOMAIN queue[o] /\ Append(queue[o], item)[i] = queue[o][i])
      BY <1>3, <2>2
    <2> QED BY <1>1, <1>3, <2>1, <2>3 DEF Unclosed
  <1>4. CASE PutObserved
    <2>1. hand.op \in Ops /\ hand.note \in Notes(k)
      BY <1>0, <1>4 DEF PutObserved, Values, Hands, None
    <2>2. hand.note \in Items(k) /\ hand.note # Closed
      BY <2>1 DEF Items, Notes, Closed, Note
    <2> QED BY <1>3, <1>4, <2>1, <2>2 DEF PutObserved
  <1>5. CASE FailGoal
    <2>1. hand.op \in Ops
      BY <1>0, <1>5 DEF FailGoal, Values, Hands, None
    <2>2. Failure \in Items(k) /\ Failure # Closed
      BY DEF Items, Failure, Closed, Note
    <2> QED BY <1>3, <1>5, <2>1, <2>2 DEF FailGoal
  <1>6. CASE Server \/ ReadResponse \/ ReadNotification \/ Observe \/ ReaderReleases \/ FailAll
             \/ (\E o \in Ops : ServerAnswers(o) \/ RequestFails(o))
    <2>1. UNCHANGED <<queue, at>>
      BY <1>6 DEF Server, ReadResponse, ReadNotification, Observe, ReaderReleases, FailAll, ServerAnswers,
                  RequestFails, opVars
    <2> QED BY <1>2, <2>1
  <1>7. ASSUME NEW o \in Ops,
               \/ BeginStart(o) \/ BeginTurn(o) \/ StartTimesOut(o) \/ LeaveStream(o)
               \/ AfterTurn(o) \/ AfterRead(o) \/ ReserveGoal(o) \/ AfterClear(o) \/ AfterSet(o)
               \/ Started(o) \/ Abandoned(o) \/ AfterPause(o) \/ AfterInterrupt(o) \/ AfterRetry(o)
               \/ Release(o)
        PROVE  Unclosed'
    <2>1. UNCHANGED queue
      BY <1>7 DEF BeginStart, BeginTurn, StartTimesOut, LeaveStream, AfterTurn, AfterRead, ReserveGoal,
                  AfterClear, AfterSet, Started, Abandoned, AfterPause, AfterInterrupt, AfterRetry, Release, opVars
    <2>2. \A p \in Ops \ {o} : at'[p] = at[p]
      BY <1>1, <1>7 DEF BeginStart, BeginTurn, StartTimesOut, LeaveStream, AfterTurn, AfterRead, ReserveGoal,
                  AfterClear, AfterSet, StartRaises, Started, Abandoned, AfterPause, AfterInterrupt, AfterRetry,
                  Release, Go
    <2>3. at[o] \in Open \/ (Release(o) /\ at'[o] \in {"completed", "raised", "left"})
      BY <1>1, <1>7 DEF BeginStart, BeginTurn, StartTimesOut, LeaveStream, AfterTurn, AfterRead, ReserveGoal,
                  AfterClear, AfterSet, Started, Abandoned, AfterPause, AfterInterrupt, AfterRetry,
                  Release, Answered, Go, Open, Places
    <2> QED BY <1>2, <2>1, <2>2, <2>3 DEF Open
  <1>8. ASSUME NEW o \in Ops, Finish(o) PROVE Unclosed'
    <2>1. at'[o] \in {"release", "release completed"} /\ \A p \in Ops \ {o} : at'[p] = at[p]
      BY <1>1, <1>8 DEF Finish, Go
    <2>2. \A p \in Ops \ {o} : queue'[p] = queue[p]
      BY <1>1, <1>8 DEF Finish
    <2> QED BY <1>1, <2>1, <2>2 DEF Unclosed, Open
  <1>9. ASSUME NEW o \in Ops, Consume(o) PROVE Unclosed'
    <2>1. at[o] = "stream" /\ queue[o] # <<>> /\ queue[o] \in Seq(Items(k))
      BY <1>1, <1>9 DEF Consume
    <2>2. \A i \in DOMAIN Tail(queue[o]) : i + 1 \in DOMAIN queue[o] /\ Tail(queue[o])[i] = queue[o][i + 1]
      BY <2>1
    <2>3. \A i \in DOMAIN queue[o] : queue[o][i] # Closed
      BY <1>1, <2>1 DEF Unclosed, Open, Places
    <2>4. \A p \in Ops \ {o} : at'[p] = at[p] /\ queue'[p] = queue[p]
      BY <1>1, <1>9 DEF Consume, Go
    <2>5. queue'[o] = Tail(queue[o])
      BY <1>1, <1>9 DEF Consume
    <2>6. \A i \in DOMAIN queue'[o] : queue'[o][i] # Closed
      BY <2>2, <2>3, <2>5
    <2> QED BY <1>1, <2>4, <2>6 DEF Unclosed
  <1>10. CASE UNCHANGED vars
    BY <1>2, <1>10 DEF vars, opVars
  <1> QED BY <1>4, <1>5, <1>6, <1>7, <1>8, <1>9, <1>10 DEF Next, Reader, Advance

-----------------------------------------------------------------------------
(* The theorems.                                                           *)

\* The invariant holds at the start.
LEMMA InitIInv == Init => IInv
  <1> SUFFICES ASSUME Init PROVE IInv
    OBVIOUS
  <1>1. Len(turns) = 0
    BY DEF Init
  <1>2. Values(0)
    <2>1. /\ wire \in Seq(Messages(0)) /\ queue \in [Ops -> Seq(Items(0))]
          /\ request \in [Ops -> Requests(0)] /\ reply \in [Ops -> Responses(0) \cup {None}]
      BY DEF Init, Requests
    <2>2. state \in [Ops -> States(0)]
      BY DEF Init, States, Statuses
    <2>3. cursor \in [Ops -> Cursors(0)] /\ hand \in Hands(0)
      BY DEF Init, Cursors, Statuses, Hands
    <2> QED BY <2>1, <2>2, <2>3 DEF Values
  <1>3. Shared
    BY <1>1, OpsAssumption DEF Init, Shared, Statuses, Places
  <1>4. Unclosed
    BY DEF Init, Unclosed
  <1>5. Locking /\ TurnsAndGoalsExclude /\ RouteIsTheOperations
    BY OpsAssumption DEF Init, Locking, TurnsAndGoalsExclude, RouteIsTheOperations
  <1> QED BY <1>1, <1>2, <1>3, <1>4, <1>5 DEF IInv, Types

\* The invariant holds in every reachable state.
THEOREM GoalInvariant == Spec => []IInv
  <1>1. IInv /\ [Next]_vars => IInv'
    <2> SUFFICES ASSUME IInv, [Next]_vars PROVE IInv'
      OBVIOUS
    <2>1. Types'
      <3>1. CASE UNCHANGED vars
        BY <3>1 DEF vars, IInv, Types, Shared, Values, serverVars, opVars, streamVars
      <3> QED BY <3>1, ServerTypes, AnswerTypes, ReaderTypes, CallTypes, StateTypes, ConsumeTypes
          DEF IInv, Next, Advance
    <2>2. Control'
      <3>1. CASE UNCHANGED vars
        BY <3>1 DEF vars, IInv, Control, Locking, TurnsAndGoalsExclude, RouteIsTheOperations, opVars
      <3> QED BY <3>1, ReaderControl, ThreadControl DEF Next, Advance
    <2> QED BY <2>1, <2>2, UnclosedStep DEF IInv, Control
  <1> QED BY InitIInv, <1>1, PTL DEF Spec

\* Every variable keeps its type, whatever the server sends and however late.
THEOREM GoalTypes == Spec => []TypeOK
  <1>1. IInv => TypeOK
    <2> SUFFICES ASSUME IInv PROVE TypeOK
      OBVIOUS
    <2>1. PICK k \in Nat : k = Len(turns) /\ Values(k)
      BY DEF IInv, Types, Shared
    <2>2. \A o \in Ops : /\ state[o].current \in 0..k /\ state[o].first \in 0..k
                         /\ state[o].status \in Statuses /\ cursor[o].status \in Statuses
      BY <2>1 DEF Values, States, Cursors
    <2>3. hand.kind \in {"none", "observe", "put", "release", "fail"}
      BY <2>1 DEF Values, Hands, None
    <2> QED BY <2>1, <2>2, <2>3 DEF IInv, Types, Shared, TypeOK, Statuses
  <1> QED BY GoalInvariant, <1>1, PTL

\* A thread's route is its operation's from the reservation to the end of the
\* operation, for any number of callers.
THEOREM RouteFollowsOperation == Spec => []RouteIsTheOperations
  <1>1. IInv => RouteIsTheOperations
    BY DEF IInv
  <1> QED BY GoalInvariant, <1>1, PTL

\* No turn is requested on a thread whose route a goal operation has.
THEOREM TurnsExcludeGoals == Spec => []TurnsAndGoalsExclude
  <1>1. IInv => TurnsAndGoalsExclude
    BY DEF IInv
  <1> QED BY GoalInvariant, <1>1, PTL

-----------------------------------------------------------------------------
(* The operations at work.  What a start that failed or was given up       *)
(* leaves, and what cancel_goal_operation can reach, follows from what is  *)
(* under way: a request and its answer, the route and who may take it, the *)
(* turns the notifications name, and what the reader and the server still  *)
(* have in hand of an operation.                                           *)

\* Places of a thread: before it has the route, giving it back and done.  A retried
\* interrupt asks what the first asks.
Early == {"out", "turn", "turned", "read", "reserve"}
Releasing == {"release", "release completed"}
Over == {"raised", "left", "completed"}
Asked(place) == IF place = "retry" THEN "interrupt" ELSE place
Answers(o, n) == n.kind = "response" /\ n.op = o
OnWire(o) == \E i \in DOMAIN wire : Answers(o, wire[i])

\* A thread has one request under way: with the server, answered on the wire, or
\* answered in the response queue.
OneCall(o) ==
    /\ request[o] # None => reply[o] = None /\ ~OnWire(o) /\ request[o].kind = Asked(at[o])
    /\ reply[o] # None => ~OnWire(o)
    /\ request[o] # None \/ reply[o] # None \/ OnWire(o) => at[o] \in Calling
    /\ \A i, j \in DOMAIN wire : Answers(o, wire[i]) /\ Answers(o, wire[j]) => i = j
Calls == /\ \A o \in Ops : OneCall(o)
         /\ transport # "up" => wire = <<>> /\ hand.kind \in {"none", "fail"}

\* The operation has the thread's route until it is finished, and observation finishes
\* it only after a turn of it has completed.
InHand(o) == hand.kind \in {"observe", "put"} /\ hand.op = o
HoldsRoute(o) ==
    /\ at[o] \in {"clear", "set", "start"} => route \in {o, NoOp}
    /\ at[o] \in {"pause", "interrupt", "retry", "finish", "close"} /\ transport = "up" /\ ~state[o].finished
           => route = o
    /\ at[o] \in {"stream", "close", "release completed"} => lock # o
    /\ state[o].finished /\ at[o] \notin Releasing \cup Over => state[o].completed # 0
    /\ state[o].abandoned => /\ at[o] \in {"pause", "interrupt", "retry", "finish", "release", "left"}
                             /\ state[o].first # 0 /\ lock # o
    /\ InHand(o) => at[o] \notin Early
Holds == \A o \in Ops : HoldsRoute(o)

\* Notifications, interrupts and the answers that name another turn name turns that
\* were started.
TurnNote(n) == n.kind \in {"started", "completed"}
Numbered ==
    /\ \A i \in DOMAIN wire : TurnNote(wire[i]) => wire[i].turn \in DOMAIN turns
    /\ hand.kind \in {"observe", "put"} /\ TurnNote(hand.note) => hand.note.turn \in DOMAIN turns
    /\ \A o \in Ops : request[o].kind = "interrupt" => request[o].turn # 0
    /\ \A o \in Ops : reply[o] # None /\ reply[o].answer = "expected" => reply[o].turn # 0
    /\ \A i \in DOMAIN wire : wire[i].kind = "response" /\ wire[i].answer = "expected" => wire[i].turn # 0

\* What a stream returns are the events of turns.
Events == [kind : {"started", "completed"}, turn : Nat,
           status : Statuses \cup {"completed", "failed", "interrupted"}]
Outs == out \in [Ops -> Seq(Events)]

\* The operation has no goal or turn of its own, has seen none, and its stream has
\* shown none.
Unset(o) == goalOf # o /\ \A k \in DOMAIN turns : turns[k] # o
Unseen(o) == state[o].first = 0 /\ state[o].current = 0 /\ state[o].completed = 0
Untouched(o) ==
    /\ ~cursor[o].started /\ cursor[o].last = None /\ cursor[o].failed = None
    /\ ~Ended(cursor[o]) /\ out[o] = <<>>

\* Turns are routed to the operation from the answer to goal/clear on; only then is its
\* goal set, once, and before that nothing of a turn is queued for it.
SetsOnce(o) ==
    /\ at[o] \in Early \cup {"clear"} => ~state[o].routing
    /\ at[o] \in {"set", "start", "stream", "close", "release completed", "completed"} => state[o].routing
    /\ at[o] \in Early \cup {"clear", "set", "start"} => Untouched(o)
    /\ at[o] = "set" /\ request[o] # None => Unset(o)
    /\ at[o] = "set" /\ reply[o] # None /\ reply[o].answer = "invalid" => Unset(o)
    /\ at[o] = "set" => \A i \in DOMAIN wire : Answers(o, wire[i]) /\ wire[i].answer = "invalid" => Unset(o)
    /\ ~state[o].routing =>
          /\ Unset(o) /\ Unseen(o)
          /\ state[o].finished => at[o] \in Releasing \cup Over
          /\ \A i \in DOMAIN queue[o] : ~TurnNote(queue[o][i])
          /\ hand.kind = "put" /\ hand.op = o => ~TurnNote(hand.note)
Setting == \A o \in Ops : SetsOnce(o)

\* Once the server has carried out the operation's goal/clear the thread is clean: while
\* the operation has the route, an active goal is its own, and a turn that is not its
\* own has overtaken it.  Due to it are the messages behind that answer.
Granted(o) ==
    /\ request[o] = None /\ (reply[o] # None => reply[o].answer = "ok")
    /\ \A i \in DOMAIN wire : Answers(o, wire[i]) => wire[i].answer = "ok"
Clean(o) == transport = "up" /\ route = o /\ (state[o].routing \/ (at[o] = "clear" /\ Granted(o)))
Due(o, j) == at[o] = "clear" => \A i \in DOMAIN wire : Answers(o, wire[i]) => i < j
HandDue(o) == InHand(o) /\ (at[o] = "clear" => ~OnWire(o))
Foreign(o) == turn # 0 /\ turns[turn] # o
Owned(o) ==
    Clean(o) =>
        /\ goal = "active" => goalOf = o
        /\ Foreign(o) => /\ o \in overtaken /\ Unseen(o)
                         /\ \A j \in DOMAIN wire : Due(o, j) => ~TurnNote(wire[j])
                         /\ HandDue(o) => ~TurnNote(hand.note)
Own == \A o \in Ops : Owned(o)

Mine(o, n) == n.turn \in DOMAIN turns /\ turns[n.turn] = o
StartOf(o, n) == n.kind = "started" /\ Mine(o, n)

\* The first turn of an operation is running only while its start is on its way to the
\* operation, or has been seen.
RunShown(o) ==
    Runs(o) /\ at[o] \in {"set", "start", "stream", "pause"} =>
      \/ ~Unseen(o)
      \/ \E i \in DOMAIN wire : wire[i].kind = "started" /\ wire[i].turn = turn
      \/ hand.kind = "observe" /\ hand.op = o /\ hand.note.kind = "started" /\ hand.note.turn = turn

\* After a pause that the server carries out, or has nothing to pause for, the goal is not
\* active, and no start of a turn of it is behind the answer: what the thread then reads
\* of the operation's turns is all there is.
Behind(o, j) == \A i \in DOMAIN wire : Answers(o, wire[i]) => i < j
PausedGoal(o) ==
    at[o] = "pause" /\ request[o] = None /\ o \notin unpaused =>
      /\ ~Active(o)
      /\ \A j \in DOMAIN wire : Behind(o, j) => ~StartOf(o, wire[j])
      /\ ~OnWire(o) /\ hand.kind = "observe" /\ hand.op = o => ~StartOf(o, hand.note)

\* A turn of it that outlives the first interrupt is then the one the answer names, and
\* the one the retry asks for, or the server did not carry the interrupt out.
Names(o, r) == r.answer = "expected" /\ turn = r.turn
Interrupting(o) ==
    /\ at[o] \in {"interrupt", "retry"} => ~Unseen(o) /\ (Active(o) => o \in unpaused)
    /\ at[o] = "interrupt" /\ Runs(o) /\ o \notin unpaused \cup unstopped =>
          /\ \A i \in DOMAIN wire : Answers(o, wire[i]) => Names(o, wire[i])
          /\ reply[o] # None => Names(o, reply[o])
    /\ at[o] = "retry" /\ Runs(o) /\ o \notin unpaused \cup unstopped =>
          request[o] # None /\ turn = request[o].turn

\* So a cancelled start has cleaned up when it finishes, and after.
Stopped(o) ==
    /\ at[o] \in {"finish", "release"} /\ (lock = o \/ state[o].abandoned) => CleanedUp(o)
    /\ at[o] = "raised" \/ (at[o] = "left" /\ state[o].abandoned) => CleanedUp(o)
Cancelled(o) == RunShown(o) /\ PausedGoal(o) /\ Interrupting(o) /\ Stopped(o)
Cancel == transport = "up" => \A o \in Ops : Cancelled(o)

Working == Outs /\ Calls /\ Holds /\ Numbered /\ Setting /\ Own /\ Cancel

-----------------------------------------------------------------------------
(* The steps: what a thread, the server and the reader change.             *)

\* The steps of one operation's thread, of the server, and of the reader and its failure.
ThreadAction(o) ==
    \/ BeginStart(o) \/ BeginTurn(o) \/ StartTimesOut(o) \/ LeaveStream(o) \/ RequestFails(o)
    \/ AfterTurn(o) \/ AfterRead(o) \/ ReserveGoal(o) \/ AfterClear(o) \/ AfterSet(o)
    \/ Started(o) \/ Abandoned(o) \/ AfterPause(o) \/ AfterInterrupt(o) \/ AfterRetry(o)
    \/ Finish(o) \/ Release(o) \/ Consume(o)
ServerAction == Server \/ \E o \in Ops : ServerAnswers(o)
ReaderAction == Reader \/ FailAll

\* A step is the server's, the reader's, or that of one thread.
LEMMA Steps ==
  ASSUME [Next]_vars
  PROVE  ServerAction \/ ReaderAction \/ (\E o \in Ops : ThreadAction(o)) \/ UNCHANGED vars
  BY DEF Next, Advance, ServerAction, ReaderAction, ThreadAction

\* The variables are functions and sequences over what the types say.
LEMMA Functions ==
  ASSUME Types
  PROVE  /\ at \in [Ops -> Places] /\ wire \in Seq(Messages(Len(turns))) /\ hand \in Hands(Len(turns))
         /\ request \in [Ops -> Requests(Len(turns))]
         /\ reply \in [Ops -> Responses(Len(turns)) \cup {None}]
         /\ state \in [Ops -> States(Len(turns))] /\ queue \in [Ops -> Seq(Items(Len(turns)))]
         /\ cursor \in [Ops -> Cursors(Len(turns))]
         /\ lock \in Ops \cup {NoOp} /\ route \in Ops \cup {NoOp}
         /\ turns \in Seq(Ops \cup {NoOp}) /\ Len(turns) \in Nat /\ turn \in 0..Len(turns)
  BY DEF Types, Shared, Values

\* A thread changes only what is its own, the lock and the route.
Apart(o) ==
    /\ UNCHANGED <<serverVars, wire, hand, transport>>
    /\ \A p \in Ops \ {o} :
          /\ at'[p] = at[p] /\ request'[p] = request[p] /\ reply'[p] = reply[p] /\ state'[p] = state[p]
          /\ queue'[p] = queue[p] /\ cursor'[p] = cursor[p] /\ out'[p] = out[p]

\* So it is for each of the thread's actions.
LEMMA ThreadApart ==
  ASSUME Types, Outs, NEW o \in Ops, ThreadAction(o)
  PROVE  Apart(o)
  <1> USE Functions DEF Apart, Outs
  <1>1. CASE BeginStart(o) \/ BeginTurn(o) \/ StartTimesOut(o) \/ LeaveStream(o) \/ RequestFails(o)
    BY <1>1 DEF BeginStart, BeginTurn, StartTimesOut, LeaveStream, RequestFails, Go, Send, opVars, streamVars
  <1>2. CASE AfterTurn(o) \/ AfterRead(o) \/ ReserveGoal(o)
    BY <1>2 DEF AfterTurn, AfterRead, ReserveGoal, Answered, Go, Send, opVars, streamVars
  <1>3. CASE AfterClear(o) \/ AfterSet(o)
    BY <1>3 DEF AfterClear, AfterSet, StartRaises, Answered, Go, Send, opVars, streamVars
  <1>4. CASE Started(o) \/ Abandoned(o)
    BY <1>4 DEF Started, Abandoned, Go, Send, opVars, streamVars
  <1>5. CASE AfterPause(o) \/ AfterInterrupt(o) \/ AfterRetry(o)
    BY <1>5 DEF AfterPause, AfterInterrupt, AfterRetry, Answered, Go, Send, opVars, streamVars
  <1>6. CASE Finish(o) \/ Release(o)
    BY <1>6 DEF Finish, Release, Go, opVars, streamVars
  <1>7. CASE Consume(o)
    BY <1>7 DEF Consume, Go, opVars, streamVars
  <1> QED BY <1>1, <1>2, <1>3, <1>4, <1>5, <1>6, <1>7 DEF ThreadAction

\* What the server sends is behind everything it has sent.
Sent(S) ==
    /\ Len(wire) \in Nat /\ Len(wire') \in Nat /\ Len(wire) < Len(wire')
    /\ DOMAIN wire = 1..Len(wire) /\ DOMAIN wire' = 1..Len(wire')
    /\ \A i \in DOMAIN wire : wire'[i] = wire[i]
    /\ \A i \in DOMAIN wire' : i <= Len(wire) \/ wire'[i] \in S
    /\ \A x \in S : \E i \in DOMAIN wire' : i > Len(wire) /\ wire'[i] = x
    /\ \A i, j \in DOMAIN wire' : i > Len(wire) /\ j > Len(wire) /\ wire'[i] = wire'[j] => i = j

\* One message, or two that differ, are sent by appending them.
LEMMA SentOne ==
  ASSUME Types, NEW a, wire' = Append(wire, a)
  PROVE  Sent({a})
  <1>1. wire \in Seq(Messages(Len(turns)))
    BY Functions
  <1> QED BY <1>1 DEF Sent

\* Two different messages appended are two messages sent.
LEMMA SentTwo ==
  ASSUME Types, NEW a, NEW b, wire' = wire \o <<a, b>>, a # b
  PROVE  Sent({a, b})
  <1>1. wire \in Seq(Messages(Len(turns)))
    BY Functions
  <1>2. Len(wire') = Len(wire) + 2 /\ wire'[Len(wire) + 1] = a /\ wire'[Len(wire) + 2] = b
        /\ DOMAIN wire' = 1..Len(wire') /\ \A i \in DOMAIN wire : wire'[i] = wire[i]
    BY <1>1
  <1>3. Len(wire) \in Nat /\ DOMAIN wire = 1..Len(wire)
    BY <1>1
  <1>4. \A i \in DOMAIN wire' : i <= Len(wire) \/ i = Len(wire) + 1 \/ i = Len(wire) + 2
    BY <1>2, <1>3
  <1>5. Len(wire) + 1 \in DOMAIN wire' /\ Len(wire) + 2 \in DOMAIN wire'
    BY <1>2, <1>3
  <1>6. \A i \in DOMAIN wire' : i <= Len(wire) \/ wire'[i] \in {a, b}
    BY <1>2, <1>4
  <1>7. \A i, j \in DOMAIN wire' : i > Len(wire) /\ j > Len(wire) /\ wire'[i] = wire'[j] => i = j
    BY <1>2, <1>3, <1>4
  <1>8. \A x \in {a, b} : \E i \in DOMAIN wire' : i > Len(wire) /\ wire'[i] = x
    <2>1. Len(wire) + 1 > Len(wire) /\ Len(wire) + 2 > Len(wire)
      BY <1>3
    <2>2. wire'[Len(wire) + 1] = a /\ wire'[Len(wire) + 2] = b
      BY <1>2
    <2> QED BY <1>5, <2>1, <2>2, ZenonT(20)
  <1>9. Len(wire') \in Nat /\ Len(wire) < Len(wire')
    BY <1>2, <1>3
  <1> QED BY <1>2, <1>3, <1>6, <1>7, <1>8, <1>9 DEF Sent

\* What each answer sends.
Served(p) ==
    \/ request[p].kind = "turn" /\ turn = 0 /\ turns' = Append(turns, NoOp) /\ turn' = Len(turns) + 1
       /\ UNCHANGED <<goal, goalOf, historyVars>>
       /\ Sent({Response(p, "ok", turn'), Note("started", turn', "none")})
    \/ request[p].kind = "turn" /\ UNCHANGED serverVars
       /\ Sent({Response(p, "error", 0)})
    \/ request[p].kind = "read" /\ UNCHANGED serverVars
       /\ \E answer \in {"ok", "invalid"} : Sent({Response(p, answer, 0)})
    \/ request[p].kind = "clear" /\ UNCHANGED <<goalOf, turn, turns, unpaused, unstopped>> /\ goal' = "none"
       /\ overtaken' = (IF turn = 0 THEN overtaken ELSE overtaken \cup {p})
       /\ \E answer \in {"ok", "error"} :
             Sent({Response(p, answer, 0)}) \/ Sent({Response(p, answer, 0), Cleared})
    \/ request[p].kind = "clear" /\ UNCHANGED serverVars
       /\ \E answer \in {"invalid", "error"} : Sent({Response(p, answer, 0)})
    \/ request[p].kind = "set" /\ UNCHANGED <<turn, turns, historyVars>> /\ goal' = "active" /\ goalOf' = p
       /\ \E answer \in {"ok", "error"} : Sent({Response(p, answer, 0), Goal("active")})
    \/ request[p].kind = "set" /\ UNCHANGED serverVars
       /\ \E answer \in {"invalid", "error"} : Sent({Response(p, answer, 0)})
    \/ request[p].kind = "pause" /\ goal = "active" /\ goal' = "paused"
       /\ UNCHANGED <<goalOf, turn, turns, historyVars>>
       /\ Sent({Response(p, "ok", 0), Goal("paused")})
    \/ request[p].kind = "pause" /\ UNCHANGED <<goal, goalOf, turn, turns, overtaken, unstopped>>
       /\ unpaused' = (IF goal = "active" THEN unpaused \cup {p} ELSE unpaused)
       /\ Sent({Response(p, "error", 0)})
    \/ request[p].kind = "interrupt" /\ turn = request[p].turn /\ turn' = 0
       /\ UNCHANGED <<goal, goalOf, turns, historyVars>>
       /\ Sent({Response(p, "ok", 0), Note("completed", turn, "interrupted")})
    \/ request[p].kind = "interrupt" /\ turn \notin {0, request[p].turn} /\ UNCHANGED serverVars
       /\ Sent({Response(p, "expected", turn)})
    \/ request[p].kind = "interrupt" /\ UNCHANGED <<goal, goalOf, turn, turns, overtaken, unpaused>>
       /\ unstopped' = (IF turn # 0 THEN unstopped \cup {p} ELSE unstopped)
       /\ Sent({Response(p, "error", 0)})

\* ServerAnswers is one of these.
LEMMA AnswerServes ==
  ASSUME Types, NEW p \in Ops, ServerAnswers(p)
  PROVE  Served(p)
  <1>0. \A answer, k, j, status, kind :
            kind \in {"started", "completed", "goal", "cleared"}
            => Response(p, answer, k) # Note(kind, j, status)
    BY DEF Response, Note
  <1>1. \A a, b : {a, b} = {b, a}
    OBVIOUS
  <1>2. CASE ServerAcceptsTurn(p)
    <2>1. CASE /\ turn = 0 /\ turns' = Append(turns, NoOp) /\ turn' = Len(turns) + 1
               /\ wire' = wire \o <<Response(p, "ok", turn'), Note("started", turn', "none")>>
      <3>1. Sent({Response(p, "ok", turn'), Note("started", turn', "none")})
        BY <1>0, <2>1, SentTwo
      <3> QED BY <1>2, <2>1, <3>1 DEF ServerAcceptsTurn, Served
    <2>2. CASE wire' = Append(wire, Response(p, "error", 0)) /\ UNCHANGED <<turn, turns>>
      <3>1. Sent({Response(p, "error", 0)})
        BY <2>2, SentOne
      <3> QED BY <1>2, <2>2, <3>1 DEF ServerAcceptsTurn, Served, serverVars
    <2> QED BY <1>2, <2>1, <2>2 DEF ServerAcceptsTurn
  <1>3. CASE ServerReads(p)
    BY <1>3, SentOne DEF ServerReads, Served
  <1>4. CASE ServerClears(p)
    <2>1. \A answer : Response(p, answer, 0) # Cleared
      BY <1>0 DEF Cleared
    <2>2. ASSUME NEW answer \in {"ok", "error"}, goal' = "none",
                 overtaken' = (IF turn = 0 THEN overtaken ELSE overtaken \cup {p}),
                 wire' \in {Append(wire, Response(p, answer, 0)), wire \o <<Response(p, answer, 0), Cleared>>,
                            wire \o <<Cleared, Response(p, answer, 0)>>}
          PROVE  Served(p)
      <3>1. Sent({Response(p, answer, 0)}) \/ Sent({Response(p, answer, 0), Cleared})
        BY <1>1, <2>1, <2>2, SentOne, SentTwo
      <3> QED BY <1>4, <2>2, <3>1 DEF ServerClears, Served
    <2>3. ASSUME NEW answer \in {"invalid", "error"}, UNCHANGED <<goal, overtaken>>,
                 wire' = Append(wire, Response(p, answer, 0))
          PROVE  Served(p)
      BY <1>4, <2>3, SentOne DEF ServerClears, Served, serverVars
    <2>4. \/ \E answer \in {"ok", "error"} :
                /\ goal' = "none" /\ overtaken' = (IF turn = 0 THEN overtaken ELSE overtaken \cup {p})
                /\ wire' \in {Append(wire, Response(p, answer, 0)), wire \o <<Response(p, answer, 0), Cleared>>,
                              wire \o <<Cleared, Response(p, answer, 0)>>}
          \/ \E answer \in {"invalid", "error"} :
                UNCHANGED <<goal, overtaken>> /\ wire' = Append(wire, Response(p, answer, 0))
      BY <1>4 DEF ServerClears
    <2> QED BY <2>2, <2>3, <2>4
  <1>5. CASE ServerSets(p)
    <2>1. \A answer : Response(p, answer, 0) # Goal("active")
      BY <1>0 DEF Goal
    <2>2. ASSUME NEW answer \in {"ok", "error"}, goal' = "active" /\ goalOf' = p,
                 wire' \in {wire \o <<Response(p, answer, 0), Goal("active")>>,
                            wire \o <<Goal("active"), Response(p, answer, 0)>>}
          PROVE  Served(p)
      <3>1. Sent({Response(p, answer, 0), Goal("active")})
        BY <1>1, <2>1, <2>2, SentTwo
      <3> QED BY <1>5, <2>2, <3>1 DEF ServerSets, Served
    <2>4. \/ \E answer \in {"invalid", "error"} :
                UNCHANGED <<goal, goalOf>> /\ wire' = Append(wire, Response(p, answer, 0))
          \/ \E answer \in {"ok", "error"} :
                /\ goal' = "active" /\ goalOf' = p
                /\ wire' \in {wire \o <<Response(p, answer, 0), Goal("active")>>,
                              wire \o <<Goal("active"), Response(p, answer, 0)>>}
      BY <1>5 DEF ServerSets
    <2>5. ASSUME NEW answer \in {"invalid", "error"}, UNCHANGED <<goal, goalOf>>,
                 wire' = Append(wire, Response(p, answer, 0))
          PROVE  Served(p)
      BY <1>5, <2>5, SentOne DEF ServerSets, Served, serverVars
    <2> QED BY <2>2, <2>4, <2>5
  <1>6. CASE ServerPauses(p)
    <2>1. Response(p, "ok", 0) # Goal("paused")
      BY <1>0 DEF Goal
    <2> QED BY <1>1, <1>6, <2>1, SentOne, SentTwo DEF ServerPauses, Served, serverVars
  <1>7. CASE ServerInterrupts(p)
    BY <1>0, <1>7, SentOne, SentTwo DEF ServerInterrupts, Served, serverVars
  <1> QED BY <1>2, <1>3, <1>4, <1>5, <1>6, <1>7 DEF ServerAnswers

\* What the server sends of its own accord.
Worked ==
    \/ /\ goal = "active" /\ turn = 0 /\ turns' = Append(turns, goalOf) /\ turn' = Len(turns) + 1
       /\ UNCHANGED <<goal, goalOf, historyVars>> /\ Sent({Note("started", turn', "none")})
    \/ /\ turn # 0 /\ turn' = 0 /\ UNCHANGED <<goal, goalOf, turns, historyVars>>
       /\ \E status \in {"completed", "failed"} : Sent({Note("completed", turn, status)})
    \/ /\ goal = "active" /\ goal' = "complete" /\ UNCHANGED <<goalOf, turn, turns, historyVars>>
       /\ Sent({Goal("complete")})

\* Server is one of these.
LEMMA ServerWorks ==
  ASSUME Types, Server
  PROVE  Worked
  <1>1. CASE ServerStartsTurn
    BY <1>1, SentOne DEF ServerStartsTurn, Worked
  <1>2. CASE ServerEndsTurn
    BY <1>2, SentOne DEF ServerEndsTurn, Worked
  <1>3. CASE ServerSettlesGoal
    BY <1>3, SentOne DEF ServerSettlesGoal, Worked
  <1> QED BY <1>1, <1>2, <1>3 DEF Server

\* An answer is one response, to the thread that asked.
LEMMA ServedOnce ==
  ASSUME Types, NEW p \in Ops, Served(p)
  PROVE  \E S, a : /\ Sent(S) /\ a \in S /\ Answers(p, a) /\ \A r \in Ops \ {p} : ~Answers(r, a)
                   /\ \A x \in S : x # a => x.kind # "response"
  <1>1. \A answer, k : Answers(p, Response(p, answer, k)) /\ \A r \in Ops \ {p} : ~Answers(r, Response(p, answer, k))
    BY DEF Answers, Response
  <1>2. \A k, status : /\ Note("started", k, status).kind # "response"
                       /\ Note("completed", k, status).kind # "response"
                       /\ Goal(status).kind # "response" /\ Cleared.kind # "response"
    BY DEF Note, Goal, Cleared
  <1>3. PICK answer, k : LET a == Response(p, answer, k) IN \E x :
             x.kind # "response" /\ (Sent({a}) \/ Sent({a, x}))
    BY <1>2 DEF Served
  <1> DEFINE a == Response(p, answer, k)
  <1>4. PICK x : x.kind # "response" /\ (Sent({a}) \/ Sent({a, x}))
    BY <1>3
  <1> HIDE DEF a
  <1>5. Answers(p, a) /\ \A r \in Ops \ {p} : ~Answers(r, a)
    BY <1>1 DEF a
  <1> QED BY <1>4, <1>5

\* Of its own accord the server answers nobody.
LEMMA WorkedAlone ==
  ASSUME Types, Worked
  PROVE  \E S : Sent(S) /\ \A x \in S : x.kind # "response"
  BY DEF Worked, Note, Goal

\* The answers on the wire are those of before, without one that was sent to another.
LEMMA SentKeeps ==
  ASSUME NEW S, Sent(S), NEW o, \A x \in S : ~Answers(o, x)
  PROVE  /\ OnWire(o)' <=> OnWire(o)
         /\ \A i \in DOMAIN wire' : Answers(o, wire'[i]) => i \in DOMAIN wire /\ Answers(o, wire[i])
         /\ \A i \in DOMAIN wire : i \in DOMAIN wire' /\ wire'[i] = wire[i]
         /\ \A i \in DOMAIN wire : \A j \in DOMAIN wire' : j \notin DOMAIN wire => i < j
  <1>1. /\ \A i \in DOMAIN wire' : i \notin DOMAIN wire => wire'[i] \in S /\ \A j \in DOMAIN wire : j < i
        /\ \A i \in DOMAIN wire : i \in DOMAIN wire' /\ wire'[i] = wire[i]
    BY DEF Sent
  <1> QED BY <1>1 DEF OnWire, Answers

\* What is sent is all that is new on the wire, and is behind what was there.
LEMMA SentNew ==
  ASSUME NEW S, Sent(S)
  PROVE  /\ \A i \in DOMAIN wire' : i \notin DOMAIN wire => wire'[i] \in S /\ \A j \in DOMAIN wire : j < i
         /\ \A i \in DOMAIN wire : i \in DOMAIN wire' /\ wire'[i] = wire[i]
         /\ \A x \in S : \E i \in DOMAIN wire' : i \notin DOMAIN wire /\ wire'[i] = x
         /\ \A i, j \in DOMAIN wire' : i \notin DOMAIN wire /\ j \notin DOMAIN wire /\ wire'[i] = wire'[j] => i = j
         /\ DOMAIN wire \subseteq Nat /\ DOMAIN wire' \subseteq Nat
  BY DEF Sent

\* Reading a message takes the first and moves the others up.
LEMMA WireRead ==
  ASSUME Types, wire # <<>>, wire' = Tail(wire)
  PROVE  /\ 1 \in DOMAIN wire /\ Head(wire) = wire[1] /\ wire[1] \in Messages(Len(turns))
         /\ \A i \in DOMAIN wire' : i \in Nat /\ i + 1 \in DOMAIN wire /\ wire'[i] = wire[i + 1] /\ i + 1 # 1
         /\ \A i \in DOMAIN wire : i \in Nat /\ (i = 1 \/ (i - 1 \in DOMAIN wire' /\ wire'[i - 1] = wire[i] /\ i > 1))
  <1>1. wire \in Seq(Messages(Len(turns)))
    BY Functions
  <1> QED BY <1>1

\* The end of the reader leaves no request with the server and no answer on the wire, and
\* answers the requests under way but one at most.
LEMMA AllFail ==
  ASSUME Types, FailAll
  PROVE  /\ transport' # "up" /\ wire' = <<>> /\ route' = NoOp /\ hand'.kind \in {"none", "fail"}
         /\ UNCHANGED <<serverVars, lock, at, state, queue, cursor, out>>
         /\ \A p \in Ops : /\ request'[p] = None
                           /\ \/ reply'[p] = reply[p]
                              \/ /\ at[p] \in Calling /\ reply'[p] = Response(p, "error", 0)
                                 /\ reply'[p].answer = "error"
  <1>1. \A p : Response(p, "error", 0).answer = "error"
    BY DEF Response
  <1> QED BY <1>1 DEF FailAll, Blocked, None, opVars, streamVars

\* No step leaves a thread with two requests under way.
LEMMA CallsStep ==
  ASSUME IInv, Outs, Calls, [Next]_vars
  PROVE  Calls'
  <1> USE DEF Calls
  <1>0. Types
    BY DEF IInv
  <1>1. CASE \E q \in Ops : ServerAnswers(q)
    <2>1. PICK q \in Ops : ServerAnswers(q)
      BY <1>1
    <2>2. PICK S, a : /\ Sent(S) /\ a \in S /\ Answers(q, a) /\ \A r \in Ops \ {q} : ~Answers(r, a)
                      /\ \A x \in S : x # a => x.kind # "response"
      BY <1>0, <2>1, AnswerServes, ServedOnce
    <2>3. /\ request' = [request EXCEPT ![q] = None] /\ UNCHANGED <<reply, at, hand, transport>> /\ transport = "up"
          /\ request[q] # None
      BY <2>1 DEF ServerAnswers, ServerAcceptsTurn, ServerReads, ServerClears, ServerSets, ServerPauses,
                  ServerInterrupts, None
    <2>4. OneCall(q)'
      <3>1. \A i \in DOMAIN wire : ~Answers(q, wire[i])
        BY <2>3 DEF OneCall, OnWire
      <3>2. request'[q] = None /\ reply'[q] = None /\ at'[q] \in Calling
        BY <1>0, <2>3, Functions DEF OneCall
      <3>3. \A i \in DOMAIN wire' : Answers(q, wire'[i]) => i \notin DOMAIN wire /\ wire'[i] = a
        BY <2>2, <3>1, SentNew DEF Answers
      <3>4. \A i, j \in DOMAIN wire' : Answers(q, wire'[i]) /\ Answers(q, wire'[j]) => i = j
        BY <2>2, <3>3, SentNew
      <3> QED BY <3>2, <3>4 DEF OneCall
    <2>5. ASSUME NEW p \in Ops \ {q} PROVE OneCall(p)'
      <3>1. \A x \in S : ~Answers(p, x)
        BY <2>2 DEF Answers
      <3>2. request'[p] = request[p] /\ reply'[p] = reply[p] /\ at'[p] = at[p] /\ OneCall(p)
        BY <1>0, <2>3, Functions
      <3>3. /\ OnWire(p)' <=> OnWire(p)
            /\ \A i \in DOMAIN wire' : Answers(p, wire'[i]) => i \in DOMAIN wire /\ Answers(p, wire[i])
        BY <2>2, <3>1, SentKeeps
      <3> QED BY <3>2, <3>3 DEF OneCall
    <2> QED BY <2>3, <2>4, <2>5
  <1>2. CASE Server
    <2>1. UNCHANGED <<request, reply, at, hand, transport>> /\ transport = "up"
      BY <1>2 DEF Server, ServerStartsTurn, ServerEndsTurn, ServerSettlesGoal
    <2>2. PICK S : Sent(S) /\ \A x \in S : x.kind # "response"
      BY <1>0, <1>2, ServerWorks, WorkedAlone
    <2>3. ASSUME NEW p \in Ops PROVE OneCall(p)'
      <3>1. \A x \in S : ~Answers(p, x)
        BY <2>2 DEF Answers
      <3>2. /\ OnWire(p)' <=> OnWire(p)
            /\ \A i \in DOMAIN wire' : Answers(p, wire'[i]) => i \in DOMAIN wire /\ Answers(p, wire[i])
        BY <2>2, <3>1, SentKeeps
      <3> QED BY <2>1, <3>2 DEF OneCall
    <2> QED BY <2>1, <2>3
  <1>3. CASE ReadResponse
    <2>1. /\ wire # <<>> /\ wire' = Tail(wire) /\ UNCHANGED <<request, at, hand, transport>> /\ transport = "up"
          /\ Head(wire).kind = "response" /\ reply' = [reply EXCEPT ![Head(wire).op] = Head(wire)]
      BY <1>3 DEF ReadResponse
    <2>2. ASSUME NEW p \in Ops PROVE OneCall(p)'
      <3>1. \A i \in DOMAIN wire' : Answers(p, wire'[i]) => i + 1 \in DOMAIN wire /\ Answers(p, wire[i + 1])
              /\ i + 1 # 1 /\ i \in Nat
        BY <1>0, <2>1, WireRead
      <3>2. \A i, j \in DOMAIN wire' : Answers(p, wire'[i]) /\ Answers(p, wire'[j]) => i = j
        BY <3>1 DEF OneCall
      <3>3. CASE Answers(p, wire[1])
        <4>1. OnWire(p) /\ reply'[p] = wire[1] /\ 1 \in DOMAIN wire
          BY <1>0, <2>1, <3>3, WireRead, Functions DEF OnWire, Answers
        <4>2. ~OnWire(p)'
          BY <3>1, <3>3, <4>1 DEF OneCall, OnWire
        <4> QED BY <2>1, <3>2, <4>1, <4>2 DEF OneCall
      <3>4. CASE ~Answers(p, wire[1])
        <4>1. reply'[p] = reply[p]
          BY <1>0, <2>1, <3>4, WireRead, Functions DEF Answers
        <4>2. OnWire(p)' => OnWire(p)
          BY <3>1 DEF OnWire
        <4>3. OnWire(p) => OnWire(p)'
          BY <1>0, <2>1, <3>4, WireRead DEF OnWire
        <4> QED BY <2>1, <3>2, <4>1, <4>2, <4>3 DEF OneCall
      <3> QED BY <3>3, <3>4
    <2> QED BY <2>1, <2>2
  <1>4. CASE ReadNotification
    <2>1. /\ wire # <<>> /\ wire' = Tail(wire) /\ UNCHANGED <<request, reply, at, transport>> /\ transport = "up"
          /\ Head(wire).kind # "response"
      BY <1>4 DEF ReadNotification
    <2>2. ASSUME NEW p \in Ops PROVE OneCall(p)'
      <3>1. \A i \in DOMAIN wire' : Answers(p, wire'[i]) => i + 1 \in DOMAIN wire /\ Answers(p, wire[i + 1])
              /\ i \in Nat
        BY <1>0, <2>1, WireRead
      <3>2. \A i, j \in DOMAIN wire' : Answers(p, wire'[i]) /\ Answers(p, wire'[j]) => i = j
        BY <3>1 DEF OneCall
      <3>3. OnWire(p)' => OnWire(p)
        BY <3>1 DEF OnWire
      <3> QED BY <2>1, <3>2, <3>3 DEF OneCall
    <2> QED BY <2>1, <2>2
  <1>5. CASE Observe \/ PutObserved \/ ReaderReleases \/ FailGoal
    <2>1. UNCHANGED <<request, reply, at, wire, transport>>
      BY <1>5 DEF Observe, PutObserved, ReaderReleases, FailGoal
    <2>2. transport # "up" => hand'.kind \in {"none", "fail"}
      BY <1>5 DEF Observe, PutObserved, ReaderReleases, FailGoal, None
    <2> QED BY <2>1, <2>2 DEF OneCall, OnWire
  <1>6. CASE FailAll
    <2>1. at' = at /\ wire' = <<>> /\ hand'.kind \in {"none", "fail"}
      BY <1>0, <1>6, AllFail
    <2>2. ASSUME NEW p \in Ops PROVE OneCall(p)'
      <3>1. request'[p] = None /\ (reply'[p] = reply[p] \/ at[p] \in Calling)
        BY <1>0, <1>6, AllFail
      <3> QED BY <2>1, <3>1 DEF OneCall, OnWire
    <2> QED BY <2>1, <2>2
  <1>7. ASSUME NEW q \in Ops, ThreadAction(q) PROVE Calls'
    <2>1. Apart(q)
      BY <1>0, <1>7, ThreadApart
    <2>2. ASSUME NEW p \in Ops \ {q} PROVE OneCall(p)'
      BY <2>1 DEF Apart, OneCall, OnWire
    <2>3. OneCall(q)'
      <3>0. /\ OneCall(q) /\ (OnWire(q)' <=> OnWire(q)) /\ at \in [Ops -> Places]
            /\ request \in [Ops -> Requests(Len(turns))] /\ reply \in [Ops -> Responses(Len(turns)) \cup {None}]
            /\ \A i, j \in DOMAIN wire' : Answers(q, wire'[i]) /\ Answers(q, wire'[j]) => i = j
        BY <1>0, <2>1, Functions DEF Apart, OnWire, OneCall
      <3>1. CASE BeginStart(q) \/ BeginTurn(q)
        BY <3>0, <3>1 DEF OneCall, BeginStart, BeginTurn, Send, Go, Request, Asked, Calling, None
      <3>2. CASE StartTimesOut(q) \/ LeaveStream(q) \/ ReserveGoal(q) \/ Abandoned(q)
        BY <3>0, <3>2 DEF OneCall, StartTimesOut, LeaveStream, ReserveGoal, Abandoned, Send, Go, Request, Asked,
           Calling, None
      <3>3. CASE AfterTurn(q) \/ AfterRead(q) \/ AfterRetry(q)
        BY <3>0, <3>3 DEF OneCall, AfterTurn, AfterRead, AfterRetry, Answered, Go
      <3>4. CASE AfterClear(q) \/ AfterSet(q)
        BY <3>0, <3>4 DEF OneCall, AfterClear, AfterSet, StartRaises, Answered, Send, Go, Request, Asked, Calling,
           None
      <3>5. CASE AfterPause(q) \/ AfterInterrupt(q)
        BY <3>0, <3>5 DEF OneCall, AfterPause, AfterInterrupt, Answered, Send, Go, Request, Asked, Calling, None
      <3>6. CASE Started(q) \/ Finish(q) \/ Release(q)
        BY <3>0, <3>6 DEF OneCall, Started, Finish, Release, Go, Calling
      <3>7. CASE Consume(q)
        BY <3>0, <3>7 DEF OneCall, Consume, Calling
      <3>8. CASE RequestFails(q)
        <4>1. ~OnWire(q) /\ at[q] \in Calling
          BY <3>8 DEF RequestFails, Blocked, OnWire
        <4> QED BY <3>0, <3>8, <4>1 DEF OneCall, RequestFails, Response, None
      <3> QED BY <1>7, <3>1, <3>2, <3>3, <3>4, <3>5, <3>6, <3>7, <3>8 DEF ThreadAction
    <2> QED BY <2>1, <2>2, <2>3 DEF Apart
  <1>8. CASE UNCHANGED vars
    BY <1>8 DEF vars, OneCall, OnWire
  <1> QED BY <1>1, <1>2, <1>3, <1>4, <1>5, <1>6, <1>7, <1>8, Steps DEF ServerAction, ReaderAction, Reader

\* What the reader has in hand is a notification and whose it is, or the failure.
LEMMA HandIs ==
  ASSUME Types
  PROVE  /\ hand.kind \in {"observe", "put", "release"} =>
              /\ hand.op \in Ops /\ hand.note \in Notes(Len(turns))
              /\ hand = [kind |-> hand.kind, op |-> hand.op, note |-> hand.note]
         /\ hand.kind = "fail" => hand.op \in Ops
         /\ hand = None \/ hand.kind \in {"observe", "put", "release", "fail"}
  BY Functions DEF Hands, None

\* The fields of an operation's state as its thread changes them.
LEMMA StateFields ==
  ASSUME Types, NEW o \in Ops, ThreadAction(o)
  PROVE  /\ state'[o].first = state[o].first /\ state'[o].completed = state[o].completed
         /\ \/ ~Finish(o) /\ state'[o].finished = state[o].finished /\ state'[o].current = state[o].current
            \/ Finish(o) /\ state'[o].finished /\ state'[o].current = 0
         /\ state'[o].routing = state[o].routing \/ (AfterClear(o) /\ at'[o] = "set" /\ state'[o].routing)
         /\ state'[o].abandoned = state[o].abandoned \/ (Abandoned(o) /\ state'[o].abandoned)
  <1>1. state \in [Ops -> States(Len(turns))] /\ state[o] \in States(Len(turns)) /\ at \in [Ops -> Places]
    BY Functions
  <1>2. CASE Finish(o)
    <2>1. state'[o] = [state[o] EXCEPT !.finished = TRUE, !.current = 0]
      BY <1>1, <1>2 DEF Finish
    <2> QED BY <1>1, <1>2, <2>1 DEF States
  <1>3. CASE Abandoned(o)
    <2>1. state'[o] = [state[o] EXCEPT !.abandoned = TRUE] /\ at[o] = "start"
      BY <1>1, <1>3 DEF Abandoned
    <2>2. ~Finish(o)
      BY <2>1 DEF Finish
    <2> QED BY <1>1, <1>3, <2>1, <2>2 DEF States
  <1>4. CASE AfterClear(o)
    <2>1. ~Finish(o) /\ (state'[o] = state[o] \/ (state'[o] = [state[o] EXCEPT !.routing = TRUE] /\ at'[o] = "set"))
      BY <1>1, <1>4 DEF AfterClear, Answered, Finish, Go
    <2> QED BY <1>1, <1>4, <2>1 DEF States
  <1>5. CASE ~Finish(o) /\ ~Abandoned(o) /\ ~AfterClear(o)
    <2>1. state' = state
      BY <1>5 DEF ThreadAction, BeginStart, BeginTurn, StartTimesOut, LeaveStream, RequestFails, AfterTurn, AfterRead,
                  ReserveGoal, AfterSet, Started, AfterPause, AfterInterrupt, AfterRetry, Release, Consume, opVars
    <2> QED BY <1>5, <2>1
  <1> QED BY <1>2, <1>3, <1>4, <1>5

\* The fields of an operation's state as the reader observes a notification.
Saw(o, n) ==
    /\ \A p \in Ops \ {o} : state'[p] = state[p]
    /\ state'[o].routing = state[o].routing /\ state'[o].abandoned = state[o].abandoned
    /\ n.kind = "started" =>
         /\ state'[o].first = (IF state[o].first = 0 THEN n.turn ELSE state[o].first)
         /\ state'[o].current = n.turn /\ state'[o].completed = state[o].completed
    /\ n.kind = "completed" => state'[o].completed = n.turn /\ state'[o].first = state[o].first
    /\ n.kind \notin {"started", "completed"} =>
         /\ state'[o].first = state[o].first /\ state'[o].current = state[o].current
         /\ state'[o].completed = state[o].completed
    /\ state[o].finished => state'[o].finished
    /\ state'[o].finished /\ ~state[o].finished => state'[o].completed # 0

\* Observe drops a turn that is not routed yet, or does this and goes on to put it.
LEMMA ObservedFields ==
  ASSUME Types, Observe
  PROVE  LET o == hand.op  n == hand.note IN
         /\ o \in Ops /\ n \in Notes(Len(turns)) /\ hand.kind = "observe"
         /\ \/ state' = state /\ hand' = None /\ ~state[o].routing /\ TurnNote(n)
            \/ /\ Saw(o, n) /\ (state[o].routing \/ ~TurnNote(n))
               /\ hand'.kind = "put" /\ hand'.op = o /\ hand'.note = n
  <1> DEFINE o == hand.op
             n == hand.note
             s == Observed(state[o], n)
  <1>1. /\ o \in Ops /\ n \in Notes(Len(turns)) /\ hand.kind = "observe"
        /\ hand = [kind |-> "observe", op |-> o, note |-> n]
    BY HandIs DEF Observe
  <1>2. state \in [Ops -> States(Len(turns))] /\ state[o] \in States(Len(turns))
    BY <1>1, Functions
  <1>3. s \in States(Len(turns)) /\ s.finished = state[o].finished
    BY <1>1, <1>2, Functions, ObservedIsAState
  <1>4. CASE ~state[o].routing /\ n.kind \in {"started", "completed"}
    BY <1>1, <1>4 DEF Observe, TurnNote
  <1>5. CASE ~(~state[o].routing /\ n.kind \in {"started", "completed"})
    <2>1. /\ state' = [state EXCEPT ![o] = [s EXCEPT !.finished = @ \/ IsOver(s)]]
          /\ hand' = [hand EXCEPT !.kind = "put"]
      BY <1>5 DEF Observe
    <2>2. hand'.kind = "put" /\ hand'.op = o /\ hand'.note = n
      BY <1>1, <2>1
    <2>3. /\ s.routing = state[o].routing /\ s.abandoned = state[o].abandoned
          /\ n.kind = "started" =>
               /\ s.first = (IF state[o].first = 0 THEN n.turn ELSE state[o].first)
               /\ s.current = n.turn /\ s.completed = state[o].completed
          /\ n.kind = "completed" => s.completed = n.turn /\ s.first = state[o].first
          /\ n.kind \notin {"started", "completed"} =>
               s.first = state[o].first /\ s.current = state[o].current /\ s.completed = state[o].completed
      <3>1. CASE n.kind = "started"
        BY <1>2, <3>1 DEF Observed, States
      <3>2. CASE n.kind = "completed"
        <4>1. s = [state[o] EXCEPT !.completed = n.turn, !.current = IF @ = n.turn THEN 0 ELSE @]
          BY <3>2 DEF Observed
        <4> QED BY <1>2, <3>2, <4>1 DEF States
      <3>3. CASE n.kind = "goal"
        BY <1>2, <3>3 DEF Observed, States
      <3>4. CASE n.kind = "cleared"
        BY <1>2, <3>4 DEF Observed, States
      <3> QED BY <1>1, <3>1, <3>2, <3>3, <3>4 DEF Notes
    <2>4. IsOver(s) => s.completed # 0
      BY DEF IsOver
    <2> HIDE DEF s
    <2>5. state'[o] = [s EXCEPT !.finished = (s.finished \/ IsOver(s))]
      BY <1>1, <1>2, <2>1
    <2>6. /\ state'[o].first = s.first /\ state'[o].current = s.current /\ state'[o].completed = s.completed
          /\ state'[o].routing = s.routing /\ state'[o].abandoned = s.abandoned
          /\ state'[o].finished = (s.finished \/ IsOver(s))
      BY <1>3, <2>5 DEF States
    <2>7. \A p \in Ops \ {o} : state'[p] = state[p]
      BY <1>1, <1>2, <2>1
    <2> HIDE DEF o, n
    <2>8. Saw(o, n)
      BY <1>3, <2>3, <2>4, <2>6, <2>7 DEF Saw
    <2> QED BY <1>1, <1>5, <2>2, <2>8 DEF TurnNote, o, n
  <1> QED BY <1>4, <1>5

\* Turns are only added, and keep the goal they work for.
LEMMA TurnsGrow ==
  ASSUME Types, [Next]_vars
  PROVE  /\ DOMAIN turns \subseteq DOMAIN turns' /\ \A k \in DOMAIN turns : turns'[k] = turns[k]
         /\ DOMAIN turns = 1..Len(turns)
  <1>1. turns \in Seq(Ops \cup {NoOp})
    BY Functions
  <1>2. \A x : /\ DOMAIN turns \subseteq DOMAIN Append(turns, x) /\ DOMAIN turns = 1..Len(turns)
               /\ \A k \in DOMAIN turns : Append(turns, x)[k] = turns[k]
    BY <1>1
  <1>3. turns' = turns \/ \E x : turns' = Append(turns, x)
    <2>1. CASE ServerAction
      BY <2>1, ServerWorks, AnswerServes DEF ServerAction, Worked, Served, serverVars
    <2>2. CASE ReaderAction
      BY <2>2 DEF ReaderAction, Reader, ReadResponse, ReadNotification, Observe, PutObserved, ReaderReleases,
                  FailGoal, FailAll, serverVars
    <2>3. CASE \E o \in Ops : ThreadAction(o)
      <3> PICK o \in Ops : ThreadAction(o)
        BY <2>3
      <3> QED BY DEF ThreadAction, BeginStart, BeginTurn, StartTimesOut, LeaveStream, RequestFails, AfterTurn,
                 AfterRead, ReserveGoal, AfterClear, AfterSet, Started, Abandoned, AfterPause, AfterInterrupt,
                 AfterRetry, Finish, Release, Consume, serverVars
    <2>4. CASE UNCHANGED vars
      BY <2>4 DEF vars, serverVars
    <2> QED BY <2>1, <2>2, <2>3, <2>4, Steps
  <1> QED BY <1>1, <1>2, <1>3

\* A message that names a turn names one of the first k.
Named(n, k) == /\ TurnNote(n) => n.turn \in 1..k
               /\ n.kind = "response" /\ n.answer = "expected" => n.turn # 0

\* What the server sends names turns it has started.
LEMMA SentNamed ==
  ASSUME Types, Types', Numbered, Worked \/ \E p \in Ops : Served(p)
  PROVE  \E S : Sent(S) /\ \A x \in S : Named(x, Len(turns'))
  <1>0. /\ turn \in 0..Len(turns) /\ Len(turns) \in Nat /\ Len(turns') \in Nat
        /\ \A x : turns' = Append(turns, x) => Len(turns') = Len(turns) + 1
    <2>1. turns \in Seq(Ops \cup {NoOp})
      BY Functions
    <2> QED BY <2>1, Functions DEF Types, Shared
  <1>1. \A p, answer, k : answer # "expected" \/ k # 0 => Named(Response(p, answer, k), Len(turns'))
    BY DEF Named, Response, TurnNote
  <1>2. \A status, k : k \in 1..Len(turns') =>
           Named(Note("started", k, status), Len(turns')) /\ Named(Note("completed", k, status), Len(turns'))
    BY DEF Named, Note, TurnNote
  <1>3. \A status : Named(Goal(status), Len(turns')) /\ Named(Cleared, Len(turns'))
    BY DEF Named, Goal, Cleared, Note, TurnNote
  <1>4. CASE Worked
    <2>1. CASE turns' = Append(turns, goalOf) /\ turn' = Len(turns) + 1 /\ Sent({Note("started", turn', "none")})
      BY <1>0, <1>2, <2>1
    <2>2. CASE turn # 0 /\ turns' = turns
                 /\ \E status \in {"completed", "failed"} : Sent({Note("completed", turn, status)})
      BY <1>0, <1>2, <2>2
    <2>3. CASE Sent({Goal("complete")})
      BY <1>3, <2>3
    <2> QED BY <1>4, <2>1, <2>2, <2>3 DEF Worked
  <1>5. ASSUME NEW p \in Ops, Served(p) PROVE \E S : Sent(S) /\ \A x \in S : Named(x, Len(turns'))
    <2>1. CASE turns' = Append(turns, NoOp) /\ turn' = Len(turns) + 1
               /\ Sent({Response(p, "ok", turn'), Note("started", turn', "none")})
      BY <1>0, <1>1, <1>2, <2>1
    <2>2. CASE \E answer \in {"ok", "invalid", "error"} : Sent({Response(p, answer, 0)})
      BY <1>1, <2>2
    <2>3. CASE \E answer \in {"ok", "error"} : Sent({Response(p, answer, 0), Cleared})
      BY <1>1, <1>3, <2>3
    <2>4. CASE \E answer \in {"ok", "error"} : Sent({Response(p, answer, 0), Goal("active")})
      BY <1>1, <1>3, <2>4
    <2>5. CASE Sent({Response(p, "ok", 0), Goal("paused")})
      BY <1>1, <1>3, <2>5
    <2>6. CASE request[p].kind = "interrupt" /\ turn = request[p].turn /\ turns' = turns
               /\ Sent({Response(p, "ok", 0), Note("completed", turn, "interrupted")})
      BY <1>0, <1>1, <1>2, <2>6 DEF Numbered
    <2>7. CASE turn # 0 /\ Sent({Response(p, "expected", turn)})
      BY <1>1, <2>7
    <2> QED BY <1>5, <2>1, <2>2, <2>3, <2>4, <2>5, <2>6, <2>7 DEF Served
  <1> QED BY <1>4, <1>5

\* No step names a turn that was not started.
LEMMA NumberedStep ==
  ASSUME IInv, Types', Outs, Numbered, [Next]_vars
  PROVE  Numbered'
  <1>0. /\ Types /\ DOMAIN turns = 1..Len(turns) /\ DOMAIN turns' = 1..Len(turns')
        /\ DOMAIN turns \subseteq DOMAIN turns'
    <2>1. turns' \in Seq(Ops \cup {NoOp})
      BY DEF Types, Shared
    <2> QED BY <2>1, TurnsGrow DEF IInv
  <1>1. CASE ServerAction
    <2>1. UNCHANGED <<hand, reply>> /\ \A p \in Ops : request'[p] = request[p] \/ request'[p] = None
      BY <1>0, <1>1, Functions DEF ServerAction, Server, ServerAnswers
    <2>2. PICK S : Sent(S) /\ \A x \in S : Named(x, Len(turns'))
      BY <1>0, <1>1, SentNamed, ServerWorks, AnswerServes DEF ServerAction
    <2>3. \A i \in DOMAIN wire' : (i \in DOMAIN wire /\ wire'[i] = wire[i]) \/ wire'[i] \in S
      BY <2>2, SentNew
    <2> QED BY <1>0, <2>1, <2>2, <2>3 DEF Numbered, Named, None
  <1>2. CASE ReadResponse
    <2>1. /\ wire # <<>> /\ wire' = Tail(wire) /\ UNCHANGED <<turns, hand, request>>
          /\ Head(wire).kind = "response" /\ reply' = [reply EXCEPT ![Head(wire).op] = Head(wire)]
      BY <1>2 DEF ReadResponse, serverVars
    <2>2. \A p \in Ops : reply'[p] = reply[p] \/ (reply'[p] = wire[1] /\ wire[1].kind = "response" /\ 1 \in DOMAIN wire)
      BY <1>0, <2>1, WireRead, Functions
    <2>3. \A i \in DOMAIN wire' : i + 1 \in DOMAIN wire /\ wire'[i] = wire[i + 1]
      BY <1>0, <2>1, WireRead
    <2> QED BY <2>1, <2>2, <2>3 DEF Numbered
  <1>3. CASE ReadNotification
    <2>1. /\ wire # <<>> /\ wire' = Tail(wire) /\ UNCHANGED <<turns, reply, request>>
          /\ hand' = IF route = NoOp THEN None ELSE [kind |-> "observe", op |-> route, note |-> Head(wire)]
      BY <1>3 DEF ReadNotification, serverVars
    <2>2. \A i \in DOMAIN wire' : i + 1 \in DOMAIN wire /\ wire'[i] = wire[i + 1]
      BY <1>0, <2>1, WireRead
    <2>3. hand'.kind \in {"observe", "put"} => hand'.note = wire[1] /\ 1 \in DOMAIN wire
      BY <1>0, <2>1, WireRead DEF None
    <2> QED BY <2>1, <2>2, <2>3 DEF Numbered
  <1>4. CASE Observe
    <2>1. UNCHANGED <<turns, wire, reply, request>>
      BY <1>4 DEF Observe, serverVars
    <2>2. hand'.kind \in {"observe", "put"} => hand.kind \in {"observe", "put"} /\ hand'.note = hand.note
      BY <1>0, <1>4, ObservedFields DEF None
    <2> QED BY <2>1, <2>2 DEF Numbered
  <1>5. CASE PutObserved \/ ReaderReleases \/ FailGoal
    <2>1. UNCHANGED <<turns, reply, request, wire>>
      BY <1>5 DEF PutObserved, ReaderReleases, FailGoal, serverVars
    <2>2. hand'.kind \notin {"observe", "put"}
      BY <1>0, <1>5, HandIs DEF PutObserved, ReaderReleases, FailGoal, None
    <2> QED BY <2>1, <2>2 DEF Numbered
  <1>8. CASE FailAll
    <2>1. turns' = turns /\ wire' = <<>> /\ hand'.kind \notin {"observe", "put"}
      BY <1>0, <1>8, AllFail DEF serverVars
    <2>2. \A p \in Ops : request'[p] = None /\ (reply'[p] = reply[p] \/ reply'[p].answer = "error")
      BY <1>0, <1>8, AllFail
    <2> QED BY <2>1, <2>2 DEF Numbered, None
  <1>6. ASSUME NEW q \in Ops, ThreadAction(q) PROVE Numbered'
    <2>1. /\ UNCHANGED <<turns, wire, hand>>
          /\ \A p \in Ops \ {q} : request'[p] = request[p] /\ reply'[p] = reply[p]
      BY <1>0, <1>6, ThreadApart DEF Apart, serverVars
    <2>2. /\ at \in [Ops -> Places] /\ request \in [Ops -> Requests(Len(turns))]
          /\ reply \in [Ops -> Responses(Len(turns)) \cup {None}]
      BY <1>0, Functions
    <2>3. reply'[q] = reply[q] \/ reply'[q] = None \/ reply'[q].answer = "error"
      <3>1. CASE RequestFails(q)
        BY <2>2, <3>1 DEF RequestFails, Response
      <3> QED BY <1>6, <2>2, <3>1 DEF ThreadAction, BeginStart, BeginTurn, StartTimesOut, LeaveStream, AfterTurn,
                 AfterRead, ReserveGoal, AfterClear, AfterSet, Started, Abandoned, AfterPause, AfterInterrupt,
                 AfterRetry, Finish, Release, Consume, Answered
    <2>4. request'[q] = request[q] \/ request'[q].kind # "interrupt" \/ AfterPause(q) \/ AfterInterrupt(q)
      <3>1. \A kind \in {"read", "turn", "clear", "set", "pause"} : Send(q, kind, 0) => request'[q].kind = kind
        BY <2>2 DEF Send, Request
      <3>2. CASE BeginStart(q) \/ BeginTurn(q) \/ StartTimesOut(q) \/ LeaveStream(q) \/ ReserveGoal(q) \/ Abandoned(q)
        BY <3>1, <3>2 DEF BeginStart, BeginTurn, StartTimesOut, LeaveStream, ReserveGoal, Abandoned
      <3>3. CASE AfterClear(q) \/ AfterSet(q)
        BY <3>1, <3>3 DEF AfterClear, AfterSet, StartRaises
      <3>4. CASE RequestFails(q)
        BY <2>2, <3>4 DEF RequestFails, None
      <3> QED BY <1>6, <3>2, <3>3, <3>4 DEF ThreadAction, AfterTurn, AfterRead, Started, AfterRetry, Finish,
                 Release, Consume
    <2>5. CASE AfterPause(q)
      BY <2>1, <2>2, <2>3, <2>5 DEF AfterPause, Send, Request, Numbered, None
    <2>6. CASE AfterInterrupt(q)
      BY <2>1, <2>2, <2>3, <2>6 DEF AfterInterrupt, Answered, Send, Request, Numbered, None
    <2>7. CASE request'[q] = request[q] \/ request'[q].kind # "interrupt"
      BY <2>1, <2>3, <2>7 DEF Numbered
    <2> QED BY <2>4, <2>5, <2>6, <2>7
  <1>7. CASE UNCHANGED vars
    BY <1>7 DEF vars, serverVars, Numbered
  <1> QED BY <1>1, <1>2, <1>3, <1>4, <1>5, <1>6, <1>7, <1>8, Steps DEF ReaderAction, Reader

\* Where a thread goes, and what it does to the route and the lock.
Moves(o) ==
    \/ at'[o] = at[o]
    \/ at[o] = "out" /\ at'[o] \in {"read", "turn", "raised"}
    \/ at[o] = "turn" /\ at'[o] = "turned"
    \/ at[o] = "read" /\ at'[o] \in {"reserve", "raised"}
    \/ at[o] = "reserve" /\ (at'[o] = "raised" \/ (at'[o] = "clear" /\ route = NoOp /\ route' = o))
    \/ at[o] = "clear" /\ at'[o] \in {"set", "finish", "pause"}
    \/ at[o] = "set" /\ at'[o] \in {"start", "finish", "pause"}
    \/ at[o] = "start" /\ at'[o] \in {"stream", "pause"}
    \/ at[o] = "pause" /\ at'[o] \in {"interrupt", "finish"}
    \/ at[o] = "interrupt" /\ at'[o] \in {"retry", "finish"}
    \/ at[o] = "retry" /\ at'[o] = "finish"
    \/ at[o] = "stream" /\ at'[o] \in {"close", "finish", "pause"}
    \/ at[o] = "finish" /\ at'[o] = "release"
    \/ at[o] = "close" /\ at'[o] = "release completed"
    \/ at[o] = "release" /\ at'[o] = (IF lock = o THEN "raised" ELSE "left")
    \/ at[o] = "release completed" /\ at'[o] = "completed"

\* So it is for each of the thread's actions.
LEMMA ThreadMoves ==
  ASSUME Types, Unclosed, NEW o \in Ops, ThreadAction(o)
  PROVE  Moves(o)
  <1>1. at \in [Ops -> Places]
    BY Functions
  <1>2. CASE BeginStart(o) \/ BeginTurn(o) \/ StartTimesOut(o) \/ LeaveStream(o) \/ RequestFails(o) \/ AfterTurn(o)
             \/ AfterRead(o) \/ ReserveGoal(o)
    BY <1>1, <1>2 DEF BeginStart, BeginTurn, StartTimesOut, LeaveStream, RequestFails, AfterTurn, AfterRead,
       ReserveGoal, Answered, Go, Moves
  <1>3. CASE AfterClear(o) \/ AfterSet(o) \/ Started(o) \/ Abandoned(o) \/ AfterPause(o) \/ AfterInterrupt(o)
             \/ AfterRetry(o)
    BY <1>1, <1>3 DEF AfterClear, AfterSet, StartRaises, Started, Abandoned, AfterPause, AfterInterrupt, AfterRetry,
                      Answered, Go, Moves
  <1>4. CASE Finish(o) \/ Release(o)
    BY <1>1, <1>4 DEF Finish, Release, Go, Moves
  <1>5. CASE Consume(o)
    BY <1>1, <1>5, ConsumeTypes DEF Consume, Moves
  <1> QED BY <1>2, <1>3, <1>4, <1>5 DEF ThreadAction

\* A thread takes the route and the lock when they are free, and gives up only its own.
RouteAndLock(o) ==
    /\ \/ route' = route
       \/ route = NoOp /\ route' = o /\ at[o] = "reserve" /\ at'[o] = "clear" /\ request'[o] # None
       \/ route = o /\ route' = NoOp /\ at[o] \in Releasing
    /\ \/ lock' = lock
       \/ lock = NoOp /\ lock' = o /\ at[o] = "out"
       \/ lock = o /\ lock' = NoOp

\* So it is for each of the thread's actions.
LEMMA ThreadRoute ==
  ASSUME Types, NEW o \in Ops, ThreadAction(o)
  PROVE  RouteAndLock(o)
  <1>1. at \in [Ops -> Places] /\ request \in [Ops -> Requests(Len(turns))]
    BY Functions
  <1>2. CASE BeginStart(o) \/ BeginTurn(o) \/ StartTimesOut(o) \/ LeaveStream(o) \/ RequestFails(o) \/ AfterTurn(o)
             \/ AfterRead(o) \/ ReserveGoal(o)
    BY <1>1, <1>2 DEF BeginStart, BeginTurn, StartTimesOut, LeaveStream, RequestFails, AfterTurn, AfterRead,
       ReserveGoal, Unlock, Go, Send, Request, None, RouteAndLock
  <1>3. CASE AfterClear(o) \/ AfterSet(o) \/ Started(o) \/ Abandoned(o) \/ AfterPause(o) \/ AfterInterrupt(o)
             \/ AfterRetry(o) \/ Consume(o)
    BY <1>1, <1>3 DEF AfterClear, AfterSet, Started, Abandoned, AfterPause, AfterInterrupt, AfterRetry, Consume,
                      Unlock, RouteAndLock
  <1>4. CASE Finish(o) \/ Release(o)
    BY <1>1, <1>4 DEF Finish, Release, UnregisterGoal, Unlock, RouteAndLock, Releasing
  <1> QED BY <1>2, <1>3, <1>4 DEF ThreadAction

\* A failed transport only marks the operation as failed.
LEMMA FailFields ==
  ASSUME Types, FailGoal
  PROVE  /\ hand.op \in Ops /\ \A p \in Ops \ {hand.op} : state'[p] = state[p]
         /\ LET o == hand.op IN
            /\ state'[o].first = state[o].first /\ state'[o].current = state[o].current
            /\ state'[o].completed = state[o].completed /\ state'[o].routing = state[o].routing
            /\ state'[o].finished = state[o].finished /\ state'[o].abandoned = state[o].abandoned
  <1>1. hand.op \in Ops
    BY HandIs DEF FailGoal
  <1>2. state'[hand.op] = [state[hand.op] EXCEPT !.failed = TRUE] /\ state[hand.op] \in States(Len(turns))
        /\ \A p \in Ops \ {hand.op} : state'[p] = state[p]
    BY <1>1, Functions DEF FailGoal
  <1> QED BY <1>1, <1>2 DEF States

\* No step takes the route from an operation that has not finished.
LEMMA HoldsStep ==
  ASSUME IInv, IInv', Outs, Numbered, Holds, [Next]_vars
  PROVE  Holds'
  <1>0. Types /\ Unclosed /\ NoOp \notin Ops /\ DOMAIN turns = 1..Len(turns)
    BY OpsAssumption, TurnsGrow DEF IInv
  <1> SUFFICES ASSUME NEW p \in Ops PROVE HoldsRoute(p)'
    BY DEF Holds
  <1>h. HoldsRoute(p)
    BY DEF Holds
  <1>1. CASE ServerAction \/ ReadResponse
    <2>1. UNCHANGED <<at, lock, route, state, hand, transport>>
      BY <1>1 DEF ServerAction, Server, ServerAnswers, ReadResponse, opVars
    <2> QED BY <1>h, <2>1 DEF HoldsRoute, InHand
  <1>2. CASE ReadNotification
    <2>1. UNCHANGED <<at, lock, route, state, transport>>
          /\ hand' = IF route = NoOp THEN None ELSE [kind |-> "observe", op |-> route, note |-> Head(wire)]
      BY <1>2 DEF ReadNotification, opVars
    <2>2. InHand(p)' => route = p
      BY <2>1 DEF InHand, None
    <2> QED BY <1>h, <2>1, <2>2 DEF HoldsRoute, IInv, RouteIsTheOperations, Early
  <1>3. CASE Observe
    <2>1. UNCHANGED <<at, lock, route, transport>>
      BY <1>3 DEF Observe
    <2>2. /\ state[p].finished => state'[p].finished
          /\ state'[p].finished => state'[p].completed # 0 \/ (state[p].finished /\ state'[p].completed = state[p].completed)
          /\ state'[p].abandoned = state[p].abandoned /\ (state[p].first # 0 => state'[p].first # 0)
          /\ InHand(p)' => InHand(p)
      <3>1. hand.kind = "observe" /\ hand.op \in Ops /\ hand.note \in Notes(Len(turns))
        BY <1>0, <1>3, ObservedFields
      <3>2. TurnNote(hand.note) => hand.note.turn # 0
        BY <1>0, <3>1 DEF Numbered
      <3>3. CASE state' = state /\ hand' = None
        BY <3>3 DEF InHand, None
      <3>4. CASE Saw(hand.op, hand.note) /\ hand'.kind = "put" /\ hand'.op = hand.op
        <4>1. CASE p # hand.op
          BY <3>4, <4>1 DEF Saw, InHand
        <4>2. CASE p = hand.op
          BY <3>1, <3>2, <3>4, <4>2 DEF Saw, InHand, TurnNote
        <4> QED BY <4>1, <4>2
      <3> QED BY <1>0, <1>3, <3>3, <3>4, ObservedFields
    <2> QED BY <1>h, <2>1, <2>2 DEF HoldsRoute
  <1>4. CASE PutObserved \/ ReaderReleases \/ FailAll
    <2>1. UNCHANGED <<at, lock, state>> /\ ~InHand(p)' /\ (transport' = "up" => transport = "up")
          /\ (route' = route \/ (route' = NoOp /\ (transport' # "up" \/ state[route].finished)))
      <3>1. CASE PutObserved
        BY <1>0, <3>1, HandIs DEF PutObserved, InHand
      <3>2. CASE ReaderReleases
        BY <1>0, <3>2, HandIs DEF ReaderReleases, UnregisterGoal, InHand, None, opVars
      <3>3. CASE FailAll
        BY <1>0, <3>3, AllFail DEF InHand
      <3> QED BY <1>4, <3>1, <3>2, <3>3
    <2> QED BY <1>0, <1>h, <2>1 DEF HoldsRoute
  <1>5. CASE FailGoal
    <2>1. UNCHANGED <<at, lock, route, transport>> /\ ~InHand(p)'
      BY <1>5 DEF FailGoal, InHand, None
    <2> QED BY <1>0, <1>5, <1>h, <2>1, FailFields DEF HoldsRoute
  <1>6. ASSUME NEW q \in Ops, ThreadAction(q) PROVE HoldsRoute(p)'
    <2>1. Apart(q) /\ RouteAndLock(q) /\ Moves(q)
      BY <1>0, <1>6, ThreadApart, ThreadRoute, ThreadMoves
    <2>2. InHand(p)' <=> InHand(p)
      BY <2>1 DEF Apart, InHand
    <2>3. CASE p # q
      <3>1. at'[p] = at[p] /\ state'[p] = state[p] /\ transport' = transport
        BY <2>1, <2>3 DEF Apart
      <3>2. at[p] \in {"clear", "set", "start"} => lock = p
        BY DEF IInv, Locking
      <3>3. at[q] = "reserve" => lock = q
        BY DEF IInv, Locking
      <3>4. at[p] \in {"clear", "set", "start"} => route' \in {p, NoOp}
        BY <1>0, <1>h, <2>1, <2>3, <3>2, <3>3 DEF HoldsRoute, RouteAndLock
      <3>5. (route = p => route' = p) /\ (lock # p => lock' # p)
        BY <1>0, <2>1, <2>3 DEF RouteAndLock
      <3> QED BY <1>h, <2>2, <3>1, <3>4, <3>5 DEF HoldsRoute
    <2>4. CASE p = q
      <3>1. /\ state'[p].first = state[p].first /\ state'[p].completed = state[p].completed
            /\ (Finish(p) /\ state'[p].finished) \/ state'[p].finished = state[p].finished
            /\ state'[p].abandoned = state[p].abandoned \/ (Abandoned(p) /\ state'[p].abandoned)
            /\ transport' = transport
        BY <1>0, <1>6, <2>1, <2>4, StateFields DEF Apart
      <3>2. Finish(p) => at'[p] \in Releasing
        BY <1>0, Functions DEF Finish, Go, Releasing
      <3>3. at[p] \in {"turn", "read", "reserve", "clear", "set", "start"} => lock = p
        BY DEF IInv, Locking
      <3>4. Started(p) \/ Abandoned(p) => lock' = NoOp
        BY <3>3 DEF Started, Abandoned, Unlock
      <3>5. at[p] = "start" /\ at'[p] = "stream" => Started(p)
        BY <1>0, <1>6, <2>4, Functions, ConsumeTypes DEF ThreadAction, BeginStart, BeginTurn, StartTimesOut,
           LeaveStream, RequestFails, AfterTurn, AfterRead, ReserveGoal, AfterClear, AfterSet, StartRaises, Started,
           Abandoned, AfterPause, AfterInterrupt, AfterRetry, Finish, Release, Consume, Answered, Go
      <3>6. Abandoned(p) => at'[p] = "pause" /\ state[p].first # 0
        BY <1>0, Functions DEF Abandoned, Go
      <3>7. /\ at'[p] \in {"clear", "set", "start"} => route' \in {p, NoOp}
            /\ at'[p] \in {"stream", "close", "release completed"} => lock' # p
        <4>1. at'[p] \in {"clear", "set", "start"} => route' \in {p, NoOp}
          BY <1>0, <1>h, <2>1, <2>4 DEF HoldsRoute, Moves, RouteAndLock
        <4>2. at[p] \in {"stream", "close", "release completed"}
                /\ at'[p] \in {"stream", "close", "release completed"}
                => lock' # p
          BY <1>0, <1>h, <2>1, <2>4 DEF HoldsRoute, RouteAndLock
        <4>3. at'[p] \in {"stream", "close", "release completed"}
                => at[p] \in {"stream", "close", "release completed"} \/ (at[p] = "start" /\ at'[p] = "stream")
          BY <2>1, <2>4 DEF Moves
        <4> QED BY <1>0, <3>4, <3>5, <4>1, <4>2, <4>3
      <3>8. at'[p] \in {"pause", "interrupt", "retry", "finish", "close"} /\ transport' = "up" /\ ~state'[p].finished
              => route' = p
        <4>1. at[p] \in {"clear", "set", "start", "stream"} /\ transport = "up" /\ ~state[p].finished => route = p
          BY DEF IInv, RouteIsTheOperations
        <4> QED BY <1>0, <1>h, <2>1, <2>4, <3>1, <3>2, <4>1 DEF HoldsRoute, Moves, RouteAndLock, Releasing
      <3>9. state'[p].finished /\ at'[p] \notin Releasing \cup Over => state'[p].completed # 0
        BY <1>h, <2>1, <2>4, <3>1, <3>2 DEF HoldsRoute, Moves, Releasing, Over
      <3>10. state'[p].abandoned => /\ at'[p] \in {"pause", "interrupt", "retry", "finish", "release", "left"}
                                    /\ state'[p].first # 0 /\ lock' # p
        BY <1>0, <1>h, <2>1, <2>4, <3>1, <3>4, <3>6 DEF HoldsRoute, Moves, RouteAndLock
      <3>11. InHand(p)' => at'[p] \notin Early
        BY <1>h, <2>1, <2>2, <2>4 DEF HoldsRoute, Moves, Early
      <3> QED BY <3>7, <3>8, <3>9, <3>10, <3>11 DEF HoldsRoute
    <2> QED BY <2>3, <2>4
  <1>7. CASE UNCHANGED vars
    BY <1>h, <1>7 DEF vars, opVars, HoldsRoute, InHand
  <1> QED BY <1>1, <1>2, <1>3, <1>4, <1>5, <1>6, <1>7, Steps DEF ReaderAction, Reader

-----------------------------------------------------------------------------
(* The stream takes a notification.                                        *)

\* A notification that ends a goal.
EndNote(n) == n.kind = "cleared" \/ (n.kind = "goal" /\ n.status # "active")

\* What a stream makes of a notification: the cursor, the event and where it goes.
Took(o, n) ==
    LET c == cursor[o]  d == cursor'[o] IN
    \/ /\ n.kind = "started" /\ d.started /\ d.last = c.last /\ d.failed = c.failed
       /\ (Ended(d) <=> Ended(c)) /\ at'[o] = "stream"
       /\ IF c.started THEN out'[o] = out[o] ELSE out'[o] = Append(out[o], n)
    \/ /\ n.kind = "completed" /\ d.started = c.started /\ d.last = n /\ d.failed \in {n, c.failed}
       /\ (Ended(d) <=> Ended(c))
       /\ \/ at'[o] = "close" /\ out'[o] = Append(out[o], Completion(d, n))
             /\ (n.status = "interrupted" \/ Ended(d))
          \/ at'[o] \in {"stream", "finish"} /\ out'[o] = out[o]
    \/ /\ n.kind \in {"goal", "cleared"} /\ d.started = c.started /\ d.last = c.last /\ d.failed = c.failed
       /\ ~EndNote(n) => ~Ended(d)
       /\ \/ at'[o] = "close" /\ d.last # None /\ Ended(d) /\ out'[o] = Append(out[o], Completion(d, d.last))
          \/ at'[o] = "stream" /\ out'[o] = out[o]
    \/ n.kind = "failure" /\ d = c /\ at'[o] = "finish" /\ out'[o] = out[o]

\* The events process returns are events of turns.
LEMMA EventsAre ==
  ASSUME NEW k \in Nat, NEW c \in Cursors(k), NEW n \in Notes(k)
  PROVE  /\ Completion(c, n) \in Events
         /\ n.kind = "started" => n \in Events
  BY DEF Completion, Note, Events, Cursors, Notes, Statuses

\* Consume takes the first item of the queue, as Took says.
LEMMA Consumed ==
  ASSUME Types, Unclosed, Outs, NEW o \in Ops, Consume(o)
  PROVE  /\ at[o] = "stream" /\ 1 \in DOMAIN queue[o] /\ queue[o][1] \in Notes(Len(turns)) \cup {Failure}
         /\ \A i \in DOMAIN queue'[o] : i \in Nat /\ i + 1 \in DOMAIN queue[o] /\ queue'[o][i] = queue[o][i + 1]
              /\ i + 1 # 1
         /\ \A i \in DOMAIN queue[o] : i \in Nat
              /\ (i = 1 \/ (i - 1 \in DOMAIN queue'[o] /\ queue'[o][i - 1] = queue[o][i] /\ i > 1))
         /\ Took(o, queue[o][1])
         /\ out' \in [Ops -> Seq(Events)]
         /\ UNCHANGED <<lock, route, request, reply, state>>
  <1>1. /\ at[o] = "stream" /\ queue[o] # <<>> /\ queue[o] \in Seq(Items(Len(turns))) /\ Len(turns) \in Nat
        /\ at \in [Ops -> Places] /\ cursor[o] \in Cursors(Len(turns)) /\ out[o] \in Seq(Events)
    BY Functions DEF Consume, Outs
  <1>2. 1 \in DOMAIN queue[o] /\ Head(queue[o]) = queue[o][1] /\ queue[o][1] \in Items(Len(turns))
    BY <1>1
  <1>3. queue[o][1] \in Notes(Len(turns)) \cup {Failure}
    BY <1>1, <1>2 DEF Unclosed, Open, Places, Items
  <1>4. queue'[o] = Tail(queue[o])
    BY Functions DEF Consume
  <1> DEFINE n == queue[o][1]
             c == cursor[o]
             p == Process(c, n)
  <1>5. /\ cursor'[o] = p.cursor /\ at'[o] = p.place /\ out'[o] = out[o] \o p.events
        /\ \A q \in Ops \ {o} : out'[q] = out[q]
        /\ out' = [out EXCEPT ![o] = out[o] \o p.events]
    BY <1>1, <1>2, Functions DEF Consume, Go, Outs
  <1>6. \A e : out[o] \o <<e>> = Append(out[o], e)
    BY <1>1
  <1>7. out[o] \o <<>> = out[o]
    BY <1>1
  <1>8. Took(o, n) /\ out'[o] \in Seq(Events)
    <2>1. CASE n.kind = "started"
      <3>1. n \in Notes(Len(turns)) /\ n \in Events
        BY <1>1, <1>3, <2>1, EventsAre DEF Failure, Note
      <3>2. /\ p.cursor = [c EXCEPT !.active = TRUE, !.started = TRUE] /\ p.place = "stream"
            /\ p.events = IF c.started THEN <<>> ELSE <<n>>
        BY <2>1 DEF Process, Stepped
      <3>3. cursor'[o].started /\ cursor'[o].last = c.last /\ cursor'[o].failed = c.failed
            /\ cursor'[o].status = c.status /\ cursor'[o].cleared = c.cleared
        BY <1>1, <1>5, <3>2 DEF Cursors
      <3> HIDE DEF n, c, p
      <3>4. out'[o] = (IF c.started THEN out[o] ELSE Append(out[o], n))
        BY <1>5, <1>6, <1>7, <3>2
      <3>5. out'[o] \in Seq(Events)
        BY <1>1, <3>1, <3>4
      <3>6. Took(o, n)
        BY <1>5, <2>1, <3>2, <3>3, <3>4 DEF Took, Ended, c
      <3> QED BY <3>5, <3>6
    <2>2. CASE n.kind = "completed"
      <3> DEFINE f == IF n.status = "failed" THEN n ELSE c.failed
                 d == [c EXCEPT !.active = FALSE, !.last = n, !.failed = f]
      <3>0. p = LET done == Stepped(d, <<Completion(d, n)>>, "close")
                IN CASE n.status = "interrupted" \/ Ended(d) -> done
                     [] ~Ended(d) /\ n.status = "completed" /\ d.status = "none" -> Stepped(d, <<>>, "finish")
                     [] OTHER -> Stepped(d, <<>>, "stream")
        BY <2>2 DEF Process
      <3>1. n \in Notes(Len(turns))
        BY <1>3, <2>2 DEF Failure, Note
      <3>2. d \in Cursors(Len(turns)) /\ d.started = c.started /\ d.last = n /\ d.failed = f /\ d.status = c.status
            /\ d.cleared = c.cleared
        BY <1>1, <3>1 DEF Cursors
      <3> HIDE DEF d, c, n, p
      <3>3. /\ p.cursor = d
            /\ \/ p.place = "close" /\ p.events = <<Completion(d, n)>> /\ (n.status = "interrupted" \/ Ended(d))
               \/ p.place \in {"stream", "finish"} /\ p.events = <<>>
        BY <3>0 DEF Stepped
      <3>4. Completion(d, n) \in Events
        BY <1>1, <3>1, <3>2, EventsAre
      <3>9. \/ p.place = "close" /\ out'[o] = Append(out[o], Completion(d, n))
                 /\ (n.status = "interrupted" \/ Ended(d))
            \/ p.place \in {"stream", "finish"} /\ out'[o] = out[o]
        <4>1. p.events = <<Completion(d, n)>> => out'[o] = Append(out[o], Completion(d, n))
          BY <1>5, <1>6
        <4>2. p.events = <<>> => out'[o] = out[o]
          BY <1>5, <1>7
        <4> QED BY <3>3, <4>1, <4>2
      <3>5. out'[o] \in Seq(Events)
        <4>1. Append(out[o], Completion(d, n)) \in Seq(Events)
          BY <1>1, <3>4, Sending
        <4> QED BY <1>1, <3>9, <4>1
      <3>7. cursor'[o] = d /\ at'[o] = p.place
        BY <1>5, <3>3
      <3>8. (Ended(d) <=> Ended(c)) /\ d.failed \in {n, c.failed}
        BY <3>2 DEF Ended
      <3>6. Took(o, n)
        BY <2>2, <3>2, <3>7, <3>8, <3>9 DEF Took, c
      <3> QED BY <3>5, <3>6
    <2>3. CASE n.kind \in {"goal", "cleared"}
      <3> DEFINE d == IF n.kind = "cleared" THEN [c EXCEPT !.cleared = TRUE]
                      ELSE [c EXCEPT !.status = n.status, !.cleared = @ /\ n.status # "active"]
      <3>0. p = IF ~d.active /\ d.last # None /\ Ended(d)
                THEN Stepped(d, <<Completion(d, d.last)>>, "close")
                ELSE Stepped(d, <<>>, "stream")
        BY <2>3 DEF Process
      <3>1. n \in Notes(Len(turns))
        BY <1>3, <2>3 DEF Failure, Note
      <3>2. d.started = c.started /\ d.last = c.last /\ d.failed = c.failed
        BY <1>1 DEF Cursors
      <3>3. ~EndNote(n) => ~Ended(d)
        BY <1>1, <2>3 DEF EndNote, Ended, Terminal, Cursors
      <3>4. p.cursor = d
        BY <3>0 DEF Stepped
      <3>5. d \in Cursors(Len(turns))
        BY <1>1, <1>3, <3>4, ProcessedIsACursor
      <3> HIDE DEF d, c, n, p
      <3>6. \/ p.place = "close" /\ p.events = <<Completion(d, d.last)>> /\ d.last # None /\ Ended(d)
            \/ p.place = "stream" /\ p.events = <<>>
        BY <3>0 DEF Stepped
      <3>7. d.last # None => d.last \in Notes(Len(turns))
        BY <3>5 DEF Cursors
      <3>8. d.last # None => Completion(d, d.last) \in Events
        BY <1>1, <3>5, <3>7, EventsAre
      <3>11. \/ p.place = "close" /\ out'[o] = Append(out[o], Completion(d, d.last)) /\ d.last # None /\ Ended(d)
             \/ p.place = "stream" /\ out'[o] = out[o]
        <4>1. p.events = <<Completion(d, d.last)>> => out'[o] = Append(out[o], Completion(d, d.last))
          BY <1>5, <1>6
        <4>2. p.events = <<>> => out'[o] = out[o]
          BY <1>5, <1>7
        <4> QED BY <3>6, <4>1, <4>2
      <3>9. out'[o] \in Seq(Events)
        <4>1. d.last # None => Append(out[o], Completion(d, d.last)) \in Seq(Events)
          BY <1>1, <3>8, Sending
        <4> QED BY <1>1, <3>11, <4>1
      <3>12. cursor'[o] = d /\ at'[o] = p.place
        BY <1>5, <3>4
      <3>10. Took(o, n)
        BY <2>3, <3>2, <3>3, <3>11, <3>12 DEF Took, c
      <3> QED BY <3>9, <3>10
    <2>4. CASE n.kind = "failure"
      <3>1. p.cursor = c /\ p.events = <<>> /\ p.place = "finish"
        BY <2>4 DEF Process, Stepped
      <3> QED BY <1>1, <1>5, <1>7, <2>4, <3>1 DEF Took
    <2> QED BY <1>3, <2>1, <2>2, <2>3, <2>4 DEF Notes, Failure, Note
  <1>9. out' \in [Ops -> Seq(Events)]
    BY <1>5, <1>8 DEF Outs
  <1>10. /\ \A i \in DOMAIN queue'[o] : i \in Nat /\ i + 1 \in DOMAIN queue[o] /\ queue'[o][i] = queue[o][i + 1]
              /\ i + 1 # 1
         /\ \A i \in DOMAIN queue[o] : i \in Nat
              /\ (i = 1 \/ (i - 1 \in DOMAIN queue'[o] /\ queue'[o][i - 1] = queue[o][i] /\ i > 1))
    BY <1>1, <1>4
  <1> QED BY <1>1, <1>2, <1>3, <1>8, <1>9, <1>10 DEF Consume

\* A stream returns only events.
LEMMA OutsStep ==
  ASSUME Types, Unclosed, Outs, [Next]_vars
  PROVE  Outs'
  <1>1. CASE UNCHANGED out
    BY <1>1 DEF Outs
  <1>2. CASE \E o \in Ops : Consume(o)
    BY <1>2, Consumed DEF Outs
  <1> QED BY <1>1, <1>2 DEF Next, Advance, Server, Reader, ReadResponse, ReadNotification, Observe, PutObserved,
             ReaderReleases, FailGoal, FailAll, ServerAnswers, BeginStart, BeginTurn, StartTimesOut, LeaveStream,
             RequestFails, AfterTurn, AfterRead, ReserveGoal, AfterClear, AfterSet, Started, Abandoned, AfterPause,
             AfterInterrupt, AfterRetry, Finish, Release, vars, streamVars

-----------------------------------------------------------------------------
(* The goal is set once, and the thread is the operation's own.            *)

\* What a thread does to its queue and its stream.
LEMMA ThreadStream ==
  ASSUME Types, Outs, NEW o \in Ops, ThreadAction(o)
  PROVE  \/ queue'[o] = queue[o] /\ cursor'[o] = cursor[o] /\ out'[o] = out[o]
         \/ /\ Finish(o) /\ cursor'[o] = cursor[o] /\ out'[o] = out[o]
            /\ queue'[o] = Append(queue[o], Closed)
         \/ Consume(o)
  <1>1. queue \in [Ops -> Seq(Items(Len(turns)))]
    BY Functions
  <1>2. CASE Finish(o)
    BY <1>1, <1>2 DEF Finish, streamVars
  <1>3. CASE ~Finish(o) /\ ~Consume(o)
    BY <1>3 DEF ThreadAction, BeginStart, BeginTurn, StartTimesOut, LeaveStream, RequestFails, AfterTurn, AfterRead,
       ReserveGoal, AfterClear, AfterSet, Started, Abandoned, AfterPause, AfterInterrupt, AfterRetry, Release,
       opVars, streamVars
  <1> QED BY <1>2, <1>3

\* What an item put into a queue leaves there.
LEMMA Enqueued ==
  ASSUME Types, NEW o \in Ops, NEW e, queue'[o] = Append(queue[o], e)
  PROVE  /\ \A i \in DOMAIN queue'[o] : (i \in DOMAIN queue[o] /\ queue'[o][i] = queue[o][i])
                                        \/ (i \notin DOMAIN queue[o] /\ queue'[o][i] = e)
         /\ \A i \in DOMAIN queue[o] : i \in DOMAIN queue'[o] /\ queue'[o][i] = queue[o][i]
         /\ \E i \in DOMAIN queue'[o] : queue'[o][i] = e /\ i \notin DOMAIN queue[o]
         /\ \A i \in DOMAIN queue'[o] : i \notin DOMAIN queue[o] => \A j \in DOMAIN queue[o] : j < i
         /\ DOMAIN queue[o] \subseteq Nat /\ DOMAIN queue'[o] \subseteq Nat
         /\ \A i, j \in DOMAIN queue'[o] : i \notin DOMAIN queue[o] /\ j \notin DOMAIN queue[o] => i = j
  <1>1. queue[o] \in Seq(Items(Len(turns)))
    BY Functions
  <1>2. Len(queue[o]) \in Nat /\ DOMAIN queue[o] = 1..Len(queue[o])
    BY <1>1
  <1>3. Len(queue'[o]) = Len(queue[o]) + 1 /\ DOMAIN queue'[o] = 1..(Len(queue[o]) + 1)
        /\ queue'[o][Len(queue[o]) + 1] = e
    BY <1>1
  <1>4. \A i \in DOMAIN queue[o] : queue'[o][i] = queue[o][i]
    BY <1>1
  <1> QED BY <1>2, <1>3, <1>4

\* PutObserved appends the notification to the queue of its operation, and to no other.
LEMMA HandPut ==
  ASSUME Types, PutObserved
  PROVE  /\ hand.kind = "put" /\ hand.op \in Ops /\ hand.note \in Notes(Len(turns)) /\ hand'.kind = "release"
         /\ queue'[hand.op] = Append(queue[hand.op], hand.note)
         /\ \A p \in Ops \ {hand.op} : queue'[p] = queue[p]
  <1>1. hand.kind = "put" /\ hand.op \in Ops /\ hand.note \in Notes(Len(turns))
    BY HandIs DEF PutObserved
  <1> QED BY <1>1, HandIs, Functions DEF PutObserved

\* So does FailGoal with the failure.
LEMMA HandFail ==
  ASSUME Types, FailGoal
  PROVE  /\ hand.op \in Ops /\ hand' = None
         /\ queue'[hand.op] = Append(queue[hand.op], Failure)
         /\ \A p \in Ops \ {hand.op} : queue'[p] = queue[p]
  BY HandIs, Functions DEF FailGoal

\* Only the answer to goal/set makes the goal, and then turns, an operation's.
LEMMA UnsetStep ==
  ASSUME Types, NEW p \in Ops, Unset(p), [Next]_vars,
         ~(ServerAnswers(p) /\ request[p].kind = "set" /\ goalOf' = p)
  PROVE  Unset(p)'
  <1>1. turns \in Seq(Ops \cup {NoOp}) /\ p # NoOp
    BY Functions, OpsAssumption
  <1>2. \A x : x # p => \A k \in DOMAIN Append(turns, x) : Append(turns, x)[k] # p
    BY <1>1 DEF Unset
  <1>3. CASE ServerAction
    <2>1. CASE Server
      BY <1>2, <2>1, ServerWorks DEF Worked, Unset
    <2>2. ASSUME NEW q \in Ops, ServerAnswers(q) PROVE Unset(p)'
      <3>1. Served(q)
        BY <2>2, AnswerServes
      <3>2. (turns' = turns \/ turns' = Append(turns, NoOp))
              /\ (goalOf' = goalOf \/ (goalOf' = q /\ request[q].kind = "set"))
        BY <3>1 DEF Served, serverVars
      <3> QED BY <1>1, <1>2, <2>2, <3>2 DEF Unset
    <2> QED BY <1>3, <2>1, <2>2 DEF ServerAction
  <1>4. CASE ReaderAction
    BY <1>4 DEF ReaderAction, Reader, ReadResponse, ReadNotification, Observe, PutObserved, ReaderReleases,
                FailGoal, FailAll, serverVars, Unset
  <1>5. CASE \E o \in Ops : ThreadAction(o)
    <2> PICK o \in Ops : ThreadAction(o)
      BY <1>5
    <2> QED BY DEF ThreadAction, BeginStart, BeginTurn, StartTimesOut, LeaveStream, RequestFails, AfterTurn,
               AfterRead, ReserveGoal, AfterClear, AfterSet, Started, Abandoned, AfterPause, AfterInterrupt,
               AfterRetry, Finish, Release, Consume, serverVars, Unset
  <1>6. CASE UNCHANGED vars
    BY <1>6 DEF vars, serverVars, Unset
  <1> QED BY <1>3, <1>4, <1>5, <1>6, Steps

\* The steps a thread takes into, and while it is in, the request that sets the goal.
LEMMA ThreadSets ==
  ASSUME Types, Unclosed, Calls, NEW o \in Ops, ThreadAction(o), at'[o] = "set"
  PROVE  \/ at[o] = "clear" /\ state'[o].routing /\ reply'[o] = None /\ ~OnWire(o)
            /\ request[o] = None /\ request'[o].kind = "set"
         \/ at[o] = "set" /\ request'[o] = None /\ reply'[o].answer = "error" /\ transport = "down"
  <1>1. Moves(o) /\ at \in [Ops -> Places] /\ request \in [Ops -> Requests(Len(turns))]
        /\ reply \in [Ops -> Responses(Len(turns)) \cup {None}] /\ state[o] \in States(Len(turns))
        /\ state \in [Ops -> States(Len(turns))]
    BY ThreadMoves, Functions
  <1>2. CASE at[o] = "clear"
    <2>1. AfterClear(o)
      BY <1>1, <1>2 DEF ThreadAction, BeginStart, BeginTurn, StartTimesOut, LeaveStream, RequestFails, AfterTurn,
                AfterRead, ReserveGoal, AfterSet, Started, Abandoned, AfterPause, AfterInterrupt, AfterRetry,
                Finish, Release, Consume, Answered
    <2>2. reply'[o] = None /\ reply[o] # None
      BY <1>1, <2>1 DEF AfterClear, Answered
    <2>3. ~OnWire(o) /\ request[o] = None
      BY <2>2 DEF Calls, OneCall
    <2>4. Send(o, "set", 0) /\ state' = [state EXCEPT ![o].routing = TRUE]
      BY <1>1, <2>1 DEF AfterClear, StartRaises, Go
    <2>5. state'[o] = [state[o] EXCEPT !.routing = TRUE] /\ request'[o].kind = "set"
      BY <1>1, <2>4 DEF Send, Request
    <2> QED BY <1>1, <1>2, <2>2, <2>3, <2>5 DEF States
  <1>3. CASE at[o] = "set"
    <2>1. RequestFails(o)
      BY <1>1, <1>3 DEF ThreadAction, BeginStart, BeginTurn, StartTimesOut, LeaveStream, AfterTurn, AfterClear,
         AfterRead, ReserveGoal, AfterSet, StartRaises, Started, Abandoned, AfterPause, AfterInterrupt, AfterRetry,
         Finish, Release, Consume, Answered, Go
    <2> QED BY <1>1, <1>3, <2>1 DEF RequestFails, Response
  <1> QED BY <1>1, <1>2, <1>3 DEF Moves

\* No step routes a turn, or sets the goal, before it is due.
LEMMA SettingStep ==
  ASSUME IInv, Outs, Calls, Calls', Numbered, Setting, [Next]_vars
  PROVE  Setting'
  <1>0. Types /\ Unclosed
    BY DEF IInv
  <1> SUFFICES ASSUME NEW p \in Ops PROVE SetsOnce(p)'
    BY DEF Setting
  <1>h. SetsOnce(p)
    BY DEF Setting
  <1>1. CASE ServerAction
    <2>1. UNCHANGED <<at, state, queue, cursor, out, reply, hand>>
      BY <1>1 DEF ServerAction, Server, ServerAnswers, opVars, streamVars
    <2>2. CASE ~(ServerAnswers(p) /\ request[p].kind = "set")
      <3>1. Unset(p) => Unset(p)'
        BY <1>0, <2>2, UnsetStep
      <3>2. at[p] = "set" => /\ request'[p] # None => request[p] # None
                             /\ \A i \in DOMAIN wire' : Answers(p, wire'[i]) => i \in DOMAIN wire
                                  /\ wire'[i] = wire[i]
        <4> SUFFICES ASSUME at[p] = "set"
                     PROVE  /\ request'[p] # None => request[p] # None
                            /\ \A i \in DOMAIN wire' : Answers(p, wire'[i]) => i \in DOMAIN wire /\ wire'[i] = wire[i]
          OBVIOUS
        <4>1. ~ServerAnswers(p)
          <5>1. ServerAnswers(p) => request[p].kind \in {"turn", "read", "clear", "set", "pause", "interrupt"}
            BY DEF ServerAnswers, ServerAcceptsTurn, ServerReads, ServerClears, ServerSets, ServerPauses,
               ServerInterrupts
          <5>2. request[p] # None => request[p].kind = "set"
            BY DEF Calls, OneCall, Asked
          <5> QED BY <2>2, <5>1, <5>2 DEF None
        <4>2. CASE Server
          <5>1. PICK S : Sent(S) /\ \A x \in S : x.kind # "response"
            BY <1>0, <4>2, ServerWorks, WorkedAlone
          <5>2. request' = request
            BY <4>2 DEF Server
          <5> QED BY <5>1, <5>2, SentNew DEF Answers
        <4>3. ASSUME NEW q \in Ops, ServerAnswers(q)
              PROVE  /\ request'[p] # None => request[p] # None
                     /\ \A i \in DOMAIN wire' : Answers(p, wire'[i]) => i \in DOMAIN wire /\ wire'[i] = wire[i]
          <5>1. PICK S, a : /\ Sent(S) /\ a \in S /\ Answers(q, a) /\ \A r \in Ops \ {q} : ~Answers(r, a)
                            /\ \A x \in S : x # a => x.kind # "response"
            BY <1>0, <4>3, AnswerServes, ServedOnce
          <5>2. p # q
            BY <4>1, <4>3
          <5>3. request'[p] = request[p]
            BY <1>0, <4>3, <5>2, Functions DEF ServerAnswers
          <5>4. \A x \in S : ~Answers(p, x)
            BY <5>1, <5>2 DEF Answers
          <5> QED BY <5>1, <5>3, <5>4, SentKeeps
        <4> QED BY <1>1, <4>2, <4>3 DEF ServerAction
      <3> QED BY <1>h, <2>1, <3>1, <3>2 DEF SetsOnce, Untouched, Unseen
    <2>3. CASE ServerAnswers(p) /\ request[p].kind = "set"
      <3>1. at[p] = "set" /\ reply[p] = None /\ ~OnWire(p) /\ Unset(p) /\ request'[p] = None /\ state[p].routing
        <4>1. request[p] # None
          BY <2>3 DEF None
        <4>2. at[p] = "set"
          BY <2>3, <4>1 DEF Calls, OneCall, Asked, Calling
        <4> QED BY <1>0, <1>h, <2>3, <4>1, <4>2, Functions DEF Calls, OneCall, SetsOnce, ServerAnswers
      <3>2. CASE UNCHANGED serverVars
        BY <1>h, <2>1, <3>1, <3>2 DEF SetsOnce, Untouched, Unseen, Unset, serverVars
      <3>3. CASE \E answer \in {"ok", "error"} : Sent({Response(p, answer, 0), Goal("active")})
        <4>1. PICK answer \in {"ok", "error"} : Sent({Response(p, answer, 0), Goal("active")})
          BY <3>3
        <4>2. \A i \in DOMAIN wire' : Answers(p, wire'[i]) => wire'[i].answer # "invalid"
          <5>1. \A i \in DOMAIN wire' : i \in DOMAIN wire \/ wire'[i] \in {Response(p, answer, 0), Goal("active")}
            BY <4>1, SentNew
          <5>2. \A i \in DOMAIN wire : i \in DOMAIN wire' /\ wire'[i] = wire[i] /\ ~Answers(p, wire[i])
            BY <3>1, <4>1, SentNew DEF OnWire
          <5> QED BY <5>1, <5>2 DEF Response, Goal, Note, Answers
        <4> QED BY <1>h, <2>1, <3>1, <4>2 DEF SetsOnce, Untouched, Unseen
      <3> QED BY <1>0, <2>3, <3>2, <3>3, AnswerServes DEF Served
    <2> QED BY <2>2, <2>3
  <1>2. ASSUME UNCHANGED <<goalOf, turns, at, cursor, out>>, request'[p] = request[p] \/ request'[p] = None,
               \A i \in DOMAIN wire' : Answers(p, wire'[i]) => \E j \in DOMAIN wire : wire[j] = wire'[i],
               \/ reply'[p] = reply[p] \/ reply'[p].answer # "invalid"
               \/ \E j \in DOMAIN wire : Answers(p, wire[j]) /\ reply'[p] = wire[j],
               state'[p].routing = state[p].routing,
               ~state[p].routing => /\ Unseen(p)' /\ (state'[p].finished => state[p].finished)
                                    /\ \A i \in DOMAIN queue'[p] : ~TurnNote(queue'[p][i])
                                    /\ hand'.kind = "put" /\ hand'.op = p => ~TurnNote(hand'.note)
        PROVE  SetsOnce(p)'
    <2>1. Unset(p)' <=> Unset(p)
      BY <1>2 DEF Unset
    <2>2. Untouched(p)' <=> Untouched(p)
      BY <1>2 DEF Untouched
    <2> QED BY <1>h, <1>2, <2>1, <2>2 DEF SetsOnce
  <1>3. CASE ReadResponse
    <2>1. /\ wire # <<>> /\ wire' = Tail(wire)
               /\ UNCHANGED <<goalOf, turns, at, request, state, queue, cursor, out, hand>>
          /\ Head(wire).kind = "response" /\ reply' = [reply EXCEPT ![Head(wire).op] = Head(wire)]
      BY <1>3 DEF ReadResponse, serverVars, opVars, streamVars
    <2>2. reply'[p] = reply[p] \/ (Answers(p, wire[1]) /\ reply'[p] = wire[1] /\ 1 \in DOMAIN wire)
      BY <1>0, <2>1, WireRead, Functions DEF Answers
    <2>3. \A i \in DOMAIN wire' : i + 1 \in DOMAIN wire /\ wire'[i] = wire[i + 1]
      BY <1>0, <2>1, WireRead
    <2> QED BY <1>2, <1>h, <2>1, <2>2, <2>3 DEF SetsOnce, Unseen
  <1>4. CASE ReadNotification
    <2>1. /\ wire # <<>> /\ wire' = Tail(wire)
               /\ UNCHANGED <<goalOf, turns, at, request, reply, state, queue, cursor, out>>
          /\ hand'.kind # "put"
      BY <1>4 DEF ReadNotification, serverVars, opVars, streamVars, None
    <2>2. \A i \in DOMAIN wire' : i + 1 \in DOMAIN wire /\ wire'[i] = wire[i + 1]
      BY <1>0, <2>1, WireRead
    <2> QED BY <1>2, <1>h, <2>1, <2>2 DEF SetsOnce, Unseen
  <1>5. CASE Observe
    <2>1. UNCHANGED <<goalOf, turns, at, request, reply, wire, queue, cursor, out>>
      BY <1>5 DEF Observe, serverVars, streamVars
    <2>2. CASE state' = state /\ hand' = None
      BY <1>2, <1>h, <2>1, <2>2 DEF SetsOnce, Unseen, None
    <2>3. CASE Saw(hand.op, hand.note) /\ (state[hand.op].routing \/ ~TurnNote(hand.note))
               /\ hand'.op = hand.op /\ hand'.note = hand.note
      <3>1. state'[p].routing = state[p].routing
        BY <1>0, <1>5, <2>3, ObservedFields DEF Saw
      <3>2. ~state[p].routing => Unseen(p)' /\ (state'[p].finished => state[p].finished)
        <4>1. CASE p # hand.op
          BY <1>h, <2>3, <4>1 DEF Saw, SetsOnce, Unseen
        <4>2. CASE p = hand.op
          BY <1>h, <2>3, <4>2 DEF Saw, SetsOnce, Unseen, TurnNote
        <4> QED BY <4>1, <4>2
      <3> QED BY <1>2, <1>h, <2>1, <2>3, <3>1, <3>2 DEF SetsOnce
    <2> QED BY <1>0, <1>5, <2>2, <2>3, ObservedFields
  <1>6. CASE PutObserved
    <2>1. UNCHANGED <<goalOf, turns, at, request, reply, wire, cursor, out, state>>
      BY <1>6 DEF PutObserved, serverVars, streamVars
    <2>2. ~state[p].routing => \A i \in DOMAIN queue'[p] : ~TurnNote(queue'[p][i])
      <3>1. CASE p # hand.op
        BY <1>0, <1>6, <1>h, <3>1, HandPut DEF SetsOnce
      <3>2. CASE p = hand.op
        <4>1. queue'[p] = Append(queue[p], hand.note) /\ hand.kind = "put"
          BY <1>0, <1>6, <3>2, HandPut
        <4>2. \A i \in DOMAIN queue'[p] : (i \in DOMAIN queue[p] /\ queue'[p][i] = queue[p][i]) \/ queue'[p][i] = hand.note
          BY <1>0, <4>1, Enqueued
        <4> QED BY <1>h, <3>2, <4>1, <4>2 DEF SetsOnce
      <3> QED BY <3>1, <3>2
    <2>3. hand'.kind # "put"
      BY <1>0, <1>6, HandPut
    <2> QED BY <1>2, <1>h, <2>1, <2>2, <2>3 DEF SetsOnce, Unseen
  <1>7. CASE FailGoal
    <2>1. UNCHANGED <<goalOf, turns, at, request, reply, wire, cursor, out>> /\ hand'.kind # "put"
      BY <1>7 DEF FailGoal, serverVars, streamVars, None
    <2>2. ~state[p].routing => \A i \in DOMAIN queue'[p] : ~TurnNote(queue'[p][i])
      <3>1. CASE p # hand.op
        BY <1>0, <1>7, <1>h, <3>1, HandFail DEF SetsOnce
      <3>2. CASE p = hand.op
        <4>1. queue'[p] = Append(queue[p], Failure)
          BY <1>0, <1>7, <3>2, HandFail
        <4>2. \A i \in DOMAIN queue'[p] : (i \in DOMAIN queue[p] /\ queue'[p][i] = queue[p][i]) \/ queue'[p][i] = Failure
          BY <1>0, <4>1, Enqueued
        <4>3. ~TurnNote(Failure)
          BY DEF TurnNote, Failure, Note
        <4> QED BY <1>h, <4>2, <4>3 DEF SetsOnce
      <3> QED BY <3>1, <3>2
    <2>3. /\ state'[p].routing = state[p].routing /\ state'[p].finished = state[p].finished
          /\ Unseen(p)' <=> Unseen(p)
      BY <1>0, <1>7, FailFields DEF Unseen
    <2> QED BY <1>2, <1>h, <2>1, <2>2, <2>3 DEF SetsOnce
  <1>8. CASE ReaderReleases \/ FailAll
    <2>1. UNCHANGED <<goalOf, turns, at, cursor, out, state, queue>> /\ hand'.kind # "put"
          /\ (wire' = wire \/ wire' = <<>>) /\ (request'[p] = request[p] \/ request'[p] = None)
          /\ (reply'[p] = reply[p] \/ reply'[p].answer = "error")
      BY <1>0, <1>8, AllFail DEF ReaderReleases, serverVars, opVars, streamVars, None
    <2>2. \A i \in DOMAIN wire' : \E j \in DOMAIN wire : wire[j] = wire'[i]
      BY <2>1
    <2>3. Unseen(p)' <=> Unseen(p)
      BY <2>1 DEF Unseen
    <2> QED BY <1>2, <1>h, <2>1, <2>2, <2>3 DEF SetsOnce
  <1>9. ASSUME NEW q \in Ops, ThreadAction(q) PROVE SetsOnce(p)'
    <2>1. Apart(q)
      BY <1>0, <1>9, ThreadApart
    <2>2. UNCHANGED <<goalOf, turns, wire, hand>> /\ (Unset(p)' <=> Unset(p)) /\ (OnWire(p)' <=> OnWire(p))
      BY <2>1 DEF Apart, serverVars, Unset, OnWire
    <2>3. CASE p # q
      <3>1. /\ at'[p] = at[p] /\ request'[p] = request[p] /\ reply'[p] = reply[p] /\ state'[p] = state[p]
            /\ queue'[p] = queue[p] /\ cursor'[p] = cursor[p] /\ out'[p] = out[p]
        BY <2>1, <2>3 DEF Apart
      <3> QED BY <1>h, <2>2, <3>1 DEF SetsOnce, Untouched, Unseen
    <2>4. CASE p = q
      <3>1. Moves(p)
        BY <1>0, <1>9, <2>4, ThreadMoves
      <3>2. /\ state'[p].first = state[p].first /\ state'[p].completed = state[p].completed
            /\ state'[p].current = state[p].current \/ state'[p].current = 0
            /\ state'[p].finished => state[p].finished \/ at'[p] \in Releasing
            /\ state'[p].routing = state[p].routing \/ (at'[p] = "set" /\ state'[p].routing)
        BY <1>0, <1>9, <2>4, StateFields, Functions DEF Finish, Go, Releasing
      <3>3. at'[p] \in Early \cup {"clear"} => ~state'[p].routing
        BY <1>h, <3>1, <3>2 DEF SetsOnce, Moves, Early
      <3>4. at'[p] = "set" =>
               /\ state'[p].routing
               /\ request'[p] # None => Unset(p)
               /\ reply'[p] # None /\ reply'[p].answer = "invalid" => Unset(p)
               /\ \A i \in DOMAIN wire : Answers(p, wire[i]) /\ wire[i].answer = "invalid" => Unset(p)
        <4> SUFFICES ASSUME at'[p] = "set"
                     PROVE  /\ state'[p].routing
                            /\ request'[p] # None => Unset(p)
                            /\ reply'[p] # None /\ reply'[p].answer = "invalid" => Unset(p)
                            /\ \A i \in DOMAIN wire : Answers(p, wire[i]) /\ wire[i].answer = "invalid" => Unset(p)
          OBVIOUS
        <4>1. CASE at[p] = "clear" /\ state'[p].routing /\ reply'[p] = None /\ ~OnWire(p)
          BY <1>h, <4>1 DEF SetsOnce, OnWire
        <4>2. CASE at[p] = "set" /\ request'[p] = None /\ reply'[p].answer = "error"
          BY <1>h, <3>2, <4>2 DEF SetsOnce
        <4> QED BY <1>0, <1>9, <2>4, <4>1, <4>2, ThreadSets
      <3>5. at'[p] \in {"set", "start", "stream", "close", "release completed", "completed"} => state'[p].routing
        BY <1>h, <3>1, <3>2, <3>4 DEF SetsOnce, Moves
      <3>6. at'[p] \in Early \cup {"clear", "set", "start"} => Untouched(p)'
        <4>1. at'[p] \in Early \cup {"clear", "set", "start"} => at[p] \in Early \cup {"clear", "set", "start"}
          BY <3>1 DEF Moves, Early
        <4>2. at[p] \in Early \cup {"clear", "set", "start"} => cursor'[p] = cursor[p] /\ out'[p] = out[p]
          BY <1>0, <1>9, <2>4, ThreadStream DEF Consume, Early
        <4> QED BY <1>h, <4>1, <4>2 DEF SetsOnce, Untouched
      <3>7. ~state'[p].routing =>
               /\ Unset(p)' /\ Unseen(p)'
               /\ state'[p].finished => at'[p] \in Releasing \cup Over
               /\ \A i \in DOMAIN queue'[p] : ~TurnNote(queue'[p][i])
               /\ hand'.kind = "put" /\ hand'.op = p => ~TurnNote(hand'.note)
        <4> SUFFICES ASSUME ~state'[p].routing
                     PROVE  /\ Unset(p)' /\ Unseen(p)'
                            /\ state'[p].finished => at'[p] \in Releasing \cup Over
                            /\ \A i \in DOMAIN queue'[p] : ~TurnNote(queue'[p][i])
                            /\ hand'.kind = "put" /\ hand'.op = p => ~TurnNote(hand'.note)
          OBVIOUS
        <4>1. ~state[p].routing
          BY <3>2
        <4>2. \A i \in DOMAIN queue'[p] : ~TurnNote(queue'[p][i])
          <5>1. ~Consume(p)
            BY <1>h, <4>1 DEF Consume, SetsOnce
          <5>2. CASE queue'[p] = queue[p]
            BY <1>h, <4>1, <5>2 DEF SetsOnce
          <5>3. CASE queue'[p] = Append(queue[p], Closed)
            <6>1. \A i \in DOMAIN queue'[p] : (i \in DOMAIN queue[p] /\ queue'[p][i] = queue[p][i]) \/ queue'[p][i] = Closed
              BY <1>0, <5>3, Enqueued
            <6>2. ~TurnNote(Closed)
              BY DEF TurnNote, Closed, Note
            <6> QED BY <1>h, <4>1, <6>1, <6>2 DEF SetsOnce
          <5> QED BY <1>0, <1>9, <2>4, <5>1, <5>2, <5>3, ThreadStream
        <4>3. state'[p].finished => at'[p] \in Releasing \cup Over
          BY <1>h, <3>1, <3>2, <4>1 DEF SetsOnce, Moves, Releasing, Over
        <4> QED BY <1>h, <2>2, <3>2, <4>1, <4>2, <4>3 DEF SetsOnce, Unseen
      <3> QED BY <2>2, <3>3, <3>4, <3>5, <3>6, <3>7 DEF SetsOnce
    <2> QED BY <2>3, <2>4
  <1>10. CASE UNCHANGED vars
    BY <1>h, <1>10 DEF vars, serverVars, opVars, streamVars, SetsOnce, Unset, Unseen, Untouched
  <1> QED BY <1>1, <1>3, <1>4, <1>5, <1>6, <1>7, <1>8, <1>9, <1>10, Steps DEF ReaderAction, Reader

\* The request a thread has out is the one its place asks for.
LEMMA RequestPlace ==
  ASSUME Calls, NEW q \in Ops, request[q] # None
  PROVE  /\ request[q].kind = "turn" => at[q] = "turn"
         /\ request[q].kind = "clear" => at[q] = "clear"
         /\ request[q].kind = "set" => at[q] = "set"
         /\ request[q].kind = "pause" => at[q] = "pause"
         /\ request[q].kind = "interrupt" => at[q] \in {"interrupt", "retry"}
         /\ at[q] = "clear" => request[q].kind = "clear"
         /\ at[q] = "pause" => request[q].kind = "pause"
         /\ at[q] \in {"interrupt", "retry"} => request[q].kind = "interrupt"
         /\ reply[q] = None /\ ~OnWire(q)
  BY DEF Calls, OneCall, Asked, Calling

\* A step of the server leaves the operations alone, and answers one request at most.
LEMMA ServerFrame ==
  ASSUME Types, ServerAction
  PROVE  /\ UNCHANGED <<reply, lock, route, at, state, queue, cursor, out, hand, transport>> /\ transport = "up"
         /\ \/ Worked /\ request' = request
            \/ \E q \in Ops : /\ Served(q) /\ request[q] # None /\ request'[q] = None
                              /\ \A p \in Ops \ {q} : request'[p] = request[p]
  <1>1. CASE Server
    BY <1>1, ServerWorks DEF Server, ServerStartsTurn, ServerEndsTurn, ServerSettlesGoal, opVars, streamVars
  <1>2. ASSUME NEW q \in Ops, ServerAnswers(q)
        PROVE  /\ UNCHANGED <<reply, lock, route, at, state, queue, cursor, out, hand, transport>> /\ transport = "up"
               /\ Served(q) /\ request[q] # None /\ request'[q] = None
               /\ \A p \in Ops \ {q} : request'[p] = request[p]
    <2>1. request[q].kind \in {"turn", "read", "clear", "set", "pause", "interrupt"}
      BY <1>2 DEF ServerAnswers, ServerAcceptsTurn, ServerReads, ServerClears, ServerSets, ServerPauses,
         ServerInterrupts
    <2>2. request[q] # None
      BY <2>1 DEF None
    <2> QED BY <1>2, <2>2, AnswerServes, Functions DEF ServerAnswers, opVars, streamVars
  <1> QED BY <1>1, <1>2 DEF ServerAction

\* Growing the wire makes nothing due that was not.
LEMMA DueGrows ==
  ASSUME NEW S, Sent(S), NEW p, at' = at
  PROVE  /\ \A j \in DOMAIN wire : Due(p, j)' => Due(p, j)
         /\ OnWire(p) => OnWire(p)'
         /\ \A j \in DOMAIN wire' : (j \in DOMAIN wire /\ wire'[j] = wire[j]) \/ wire'[j] \in S
  BY SentNew DEF Due, OnWire

\* Nor does reading its head.
LEMMA DueRead ==
  ASSUME Types, wire # <<>>, wire' = Tail(wire), NEW p \in Ops, at' = at
  PROVE  /\ \A j \in DOMAIN wire' : Due(p, j)' => j + 1 \in DOMAIN wire /\ wire'[j] = wire[j + 1] /\ Due(p, j + 1)
         /\ wire[1].kind # "response" /\ (at[p] = "clear" => ~OnWire(p)') => Due(p, 1)
         /\ wire[1].kind # "response" => (OnWire(p) <=> OnWire(p)')
         /\ 1 \in DOMAIN wire /\ Head(wire) = wire[1]
  <1>1. /\ 1 \in DOMAIN wire /\ Head(wire) = wire[1]
        /\ \A i \in DOMAIN wire' : i \in Nat /\ i + 1 \in DOMAIN wire /\ wire'[i] = wire[i + 1] /\ i + 1 # 1
        /\ \A i \in DOMAIN wire : i \in Nat /\ (i = 1 \/ (i - 1 \in DOMAIN wire' /\ wire'[i - 1] = wire[i] /\ i > 1))
    BY WireRead
  <1>2. ASSUME wire[1].kind # "response" PROVE OnWire(p) <=> OnWire(p)'
    <2>1. ASSUME OnWire(p) PROVE OnWire(p)'
      <3>1. PICK i \in DOMAIN wire : Answers(p, wire[i])
        BY <2>1 DEF OnWire
      <3>2. i # 1
        BY <1>2, <3>1 DEF Answers
      <3>3. i - 1 \in DOMAIN wire' /\ wire'[i - 1] = wire[i]
        BY <1>1, <3>2
      <3>4. Answers(p, wire'[i - 1])
        BY <3>1, <3>3 DEF Answers
      <3> QED BY <3>3, <3>4 DEF OnWire
    <2>2. OnWire(p)' => OnWire(p)
      BY <1>1 DEF OnWire, Answers
    <2> QED BY <2>1, <2>2
  <1>3. ASSUME NEW j \in DOMAIN wire', Due(p, j)' PROVE Due(p, j + 1)
    <2>1. \A i \in DOMAIN wire : at[p] = "clear" /\ Answers(p, wire[i]) => i < j + 1
      <3> SUFFICES ASSUME NEW i \in DOMAIN wire, at[p] = "clear", Answers(p, wire[i]) PROVE i < j + 1
        OBVIOUS
      <3>1. CASE i = 1
        BY <1>1, <3>1
      <3>2. CASE i # 1
        <4>1. i - 1 \in DOMAIN wire' /\ wire'[i - 1] = wire[i] /\ i \in Nat /\ j \in Nat
          BY <1>1, <3>2
        <4>2. i - 1 < j
          BY <1>3, <4>1 DEF Due
        <4> QED BY <4>1, <4>2
      <3> QED BY <3>1, <3>2
    <2> QED BY <2>1 DEF Due
  <1>4. wire[1].kind # "response" /\ (at[p] = "clear" => ~OnWire(p)') => Due(p, 1)
    BY <1>2 DEF Due, OnWire
  <1> QED BY <1>1, <1>2, <1>3, <1>4

\* A thread has nothing due that was not, and the thread as clean as it was.
LEMMA DueThread ==
  ASSUME IInv, Outs, Calls, Setting, NEW p \in Ops, NEW q \in Ops, ThreadAction(q), Clean(p)'
  PROVE  /\ Clean(p) /\ UNCHANGED <<wire, hand, goal, goalOf, turn, turns, overtaken>>
         /\ \A j \in DOMAIN wire : Due(p, j)' => Due(p, j)
         /\ HandDue(p)' => HandDue(p)
         /\ Unseen(p) => Unseen(p)'
         /\ at'[p] = "clear" => at[p] = "clear"
  <1>0. Types /\ Unclosed
    BY DEF IInv
  <1>1. Apart(q) /\ RouteAndLock(q) /\ Moves(q)
    BY <1>0, ThreadApart, ThreadRoute, ThreadMoves
  <1>2. UNCHANGED <<wire, hand, transport, goal, goalOf, turn, turns, overtaken>> /\ (OnWire(p)' <=> OnWire(p))
          /\ (InHand(p)' <=> InHand(p))
    BY <1>1 DEF Apart, serverVars, OnWire, InHand
  <1>3. CASE p # q
    <2>1. at'[p] = at[p] /\ request'[p] = request[p] /\ reply'[p] = reply[p] /\ state'[p] = state[p]
      BY <1>1, <1>3 DEF Apart
    <2>2. route = p
      BY <1>1, <1>3, OpsAssumption DEF Clean, RouteAndLock
    <2> QED BY <1>2, <2>1, <2>2 DEF Clean, Granted, Due, HandDue, Unseen
  <1>4. CASE p = q
    <2>0. /\ at[p] \in {"reserve", "clear"} => ~state[p].routing
          /\ state'[p].routing => state[p].routing \/ (AfterClear(p) /\ at'[p] = "set")
      BY <1>0, <1>4, StateFields DEF Setting, SetsOnce, Early
    <2>1. route = p /\ at[p] # "reserve"
      <3>1. at[p] = "reserve" /\ at'[p] = "clear" => request'[p] = None
        BY <2>0 DEF Clean, Granted
      <3>2. route = p \/ at[p] = "reserve"
        BY <1>1, <1>4, OpsAssumption DEF Clean, RouteAndLock
      <3>3. route = p => at[p] # "reserve"
        BY DEF IInv, RouteIsTheOperations
      <3> QED BY <1>1, <1>4, <3>1, <3>2, <3>3, OpsAssumption DEF RouteAndLock, Clean
    <2>2. CASE at[p] = "clear"
      <3>1. ThreadAction(p) /\ transport = "up"
        BY <1>2, <1>4 DEF Clean
      <3>2. AfterClear(p)
        BY <2>2, <3>1 DEF ThreadAction, BeginStart, BeginTurn, StartTimesOut, LeaveStream, RequestFails, AfterTurn,
                AfterRead, ReserveGoal, AfterSet, Started, Abandoned, AfterPause, AfterInterrupt, AfterRetry,
                Finish, Release, Consume, Answered
      <3>3. reply[p] # None
        BY <3>2 DEF AfterClear, Answered
      <3>4. request[p] = None /\ ~OnWire(p)
        BY <3>3 DEF Calls, OneCall
      <3>5. reply[p].answer = "ok"
        <4>1. at'[p] = "set"
          BY <1>0, <2>0, <2>2, <3>2, Functions DEF Clean, AfterClear, StartRaises, Go
        <4> QED BY <1>0, <3>2, <4>1, Functions DEF AfterClear, StartRaises, Go
      <3>6. Clean(p) /\ (Unseen(p) => Unseen(p)')
        BY <1>0, <1>4, <2>1, <2>2, <3>1, <3>4, <3>5, StateFields DEF Clean, Granted, OnWire, Unseen
      <3> QED BY <1>2, <2>2, <3>4, <3>6 DEF Due, HandDue, OnWire
    <2>3. CASE at[p] # "clear"
      <3>1. at'[p] # "clear"
        BY <1>1, <1>4, <2>1, <2>3 DEF Moves
      <3>2. Clean(p) /\ (Unseen(p) => Unseen(p)')
        BY <1>0, <1>2, <1>4, <2>0, <2>1, <2>3, <3>1, StateFields DEF Clean, Unseen, AfterClear, Answered
      <3> QED BY <1>2, <2>3, <3>1, <3>2 DEF Due, HandDue
    <2> QED BY <2>2, <2>3
  <1> QED BY <1>3, <1>4

\* While an operation has the thread, no goal but its own becomes active, and no other turn starts.
LEMMA OwnStep ==
  ASSUME IInv, Outs, Calls, Holds, Numbered, Setting, Own, [Next]_vars
  PROVE  Own'
  <1>0. Types /\ Unclosed /\ NoOp \notin Ops
    BY OpsAssumption DEF IInv
  <1> SUFFICES ASSUME NEW p \in Ops, Clean(p)'
               PROVE  /\ goal' = "active" => goalOf' = p
                      /\ Foreign(p)' => /\ p \in overtaken' /\ Unseen(p)'
                                        /\ \A j \in DOMAIN wire' : Due(p, j)' => ~TurnNote(wire'[j])
                                        /\ HandDue(p)' => ~TurnNote(hand'.note)
    BY DEF Own, Owned
  <1>h. Owned(p) /\ HoldsRoute(p) /\ SetsOnce(p)
    BY DEF Own, Holds, Setting
  <1>t. /\ DOMAIN turns = 1..Len(turns) /\ Len(turns) \in Nat /\ turn \in 0..Len(turns) /\ goalOf \in Ops \cup {NoOp}
        /\ turns \in Seq(Ops \cup {NoOp})
    BY <1>0, Functions, TurnsGrow DEF Types, Shared
  <1>1. CASE ServerAction
    <2>0. /\ UNCHANGED <<reply, lock, route, at, state, hand, transport>> /\ transport = "up"
          /\ (Unseen(p)' <=> Unseen(p)) /\ (InHand(p)' <=> InHand(p))
      BY <1>0, <1>1, ServerFrame DEF Unseen, InHand
    <2>w. request'[p] = request[p] => Clean(p)
      <3>1. \A i \in DOMAIN wire : i \in DOMAIN wire' /\ wire'[i] = wire[i]
        BY <1>0, <1>1, ServerFrame, WorkedAlone, ServedOnce, SentNew
      <3> QED BY <2>0, <3>1 DEF Clean, Granted
    <2>1. ASSUME Clean(p), NEW S, Sent(S), goal' = "active" => goalOf' = p,
                 Foreign(p)' => Foreign(p) /\ \A x \in S : ~TurnNote(x),
                 overtaken \subseteq overtaken'
          PROVE  /\ goal' = "active" => goalOf' = p
                 /\ Foreign(p)' => /\ p \in overtaken' /\ Unseen(p)'
                                   /\ \A j \in DOMAIN wire' : Due(p, j)' => ~TurnNote(wire'[j])
                                   /\ HandDue(p)' => ~TurnNote(hand'.note)
      <3>1. /\ \A j \in DOMAIN wire : Due(p, j)' => Due(p, j)
            /\ OnWire(p) => OnWire(p)'
            /\ \A j \in DOMAIN wire' : (j \in DOMAIN wire /\ wire'[j] = wire[j]) \/ wire'[j] \in S
        BY <2>0, <2>1, DueGrows
      <3>2. HandDue(p)' => HandDue(p)
        BY <2>0, <3>1 DEF HandDue
      <3> QED BY <1>h, <2>0, <2>1, <3>1, <3>2 DEF Owned
    <2>2. \A answer, k, status : /\ ~TurnNote(Response(p, answer, k)) /\ ~TurnNote(Goal(status)) /\ ~TurnNote(Cleared)
      BY DEF TurnNote, Response, Goal, Cleared, Note
    <2>3. CASE Worked /\ request' = request
      <3>1. Clean(p)
        BY <2>3, <2>w
      <3>2. goal = "active" => goalOf = p
        BY <1>h, <3>1 DEF Owned
      <3>3. CASE goal = "active" /\ turns' = Append(turns, goalOf) /\ turn' = Len(turns) + 1
                   /\ UNCHANGED <<goal, goalOf, historyVars>>
                 /\ Sent({Note("started", turn', "none")})
        <4>1. ~Foreign(p)'
          BY <1>t, <3>2, <3>3 DEF Foreign
        <4> QED BY <2>1, <3>1, <3>2, <3>3, <4>1
      <3>4. CASE turn' = 0 /\ UNCHANGED <<goal, goalOf, overtaken>> /\ \E S : Sent(S)
        <4>1. ~Foreign(p)'
          BY <3>4 DEF Foreign
        <4> QED BY <2>1, <3>1, <3>2, <3>4, <4>1
      <3>5. CASE goal' = "complete" /\ UNCHANGED <<turn, turns, overtaken>> /\ Sent({Goal("complete")})
        <4>1. Foreign(p)' => Foreign(p)
          BY <3>5 DEF Foreign
        <4> QED BY <2>1, <2>2, <3>1, <3>5, <4>1
      <3> QED BY <2>3, <3>3, <3>4, <3>5 DEF Worked
    <2>4. ASSUME NEW q \in Ops, Served(q), request[q] # None, request'[q] = None,
                 \A r \in Ops \ {q} : request'[r] = request[r]
          PROVE  /\ goal' = "active" => goalOf' = p
                 /\ Foreign(p)' => /\ p \in overtaken' /\ Unseen(p)'
                                   /\ \A j \in DOMAIN wire' : Due(p, j)' => ~TurnNote(wire'[j])
                                   /\ HandDue(p)' => ~TurnNote(hand'.note)
      <3>0. /\ request[q].kind = "turn" => at[q] = "turn"
            /\ request[q].kind = "clear" => at[q] = "clear"
            /\ request[q].kind = "set" => at[q] = "set"
            /\ at[q] = "clear" => request[q].kind = "clear"
            /\ ~OnWire(q)
        BY <2>4, RequestPlace
      <3>1. CASE q = p /\ request[q].kind = "clear"
        <4>1. at[p] = "clear" /\ Unseen(p) /\ ~state[p].routing
          BY <1>h, <3>0, <3>1 DEF SetsOnce, Early
        <4>0. PICK answer \in {"ok", "invalid", "error"} :
                 /\ Sent({Response(p, answer, 0)}) \/ Sent({Response(p, answer, 0), Cleared})
                 /\ answer = "ok" => /\ goal' = "none" /\ UNCHANGED <<turn, turns>>
                                     /\ overtaken' = (IF turn = 0 THEN overtaken ELSE overtaken \cup {p})
          BY <2>4, <3>1 DEF Served
        <4>3. PICK S : Sent(S) /\ Response(p, answer, 0) \in S /\ \A x \in S : ~TurnNote(x)
          BY <2>2, <4>0
        <4>4. PICK i \in DOMAIN wire' : i \notin DOMAIN wire /\ wire'[i] = Response(p, answer, 0)
          BY <4>3, SentNew
        <4>5. Answers(p, wire'[i]) /\ wire'[i].answer = answer
          BY <4>4 DEF Answers, Response
        <4>2. goal' = "none" /\ UNCHANGED <<turn, turns>>
                /\ overtaken' = (IF turn = 0 THEN overtaken ELSE overtaken \cup {p})
          BY <2>0, <4>0, <4>1, <4>5 DEF Clean, Granted
        <4>6. \A j \in DOMAIN wire' : Due(p, j)' => i < j
          BY <2>0, <4>1, <4>5 DEF Due
        <4>7. \A j \in DOMAIN wire' : Due(p, j)' => wire'[j] \in S
          <5>1. \A j \in DOMAIN wire : j < i /\ j \in Nat
            BY <4>3, <4>4, SentNew
          <5>2. \A j \in DOMAIN wire' : i < j => j \notin DOMAIN wire
            BY <4>3, <4>4, <5>1, SentNew
          <5> QED BY <4>3, <4>6, <5>2, SentNew
        <4>8. ~HandDue(p)'
          BY <2>0, <4>1, <4>5 DEF HandDue, OnWire
        <4> QED BY <2>0, <4>1, <4>2, <4>3, <4>7, <4>8 DEF Foreign
      <3>2. CASE ~(q = p /\ request[q].kind = "clear")
        <4>1. Clean(p)
          <5>1. CASE q = p
            <6>1. at[p] # "clear"
              BY <3>0, <3>2, <5>1
            <6> QED BY <2>0, <6>1 DEF Clean
          <5> QED BY <2>4, <2>w, <5>1
        <4>2. route = p /\ p # NoOp
          BY <1>0, <4>1 DEF Clean
        <4>3. request[q].kind # "turn" /\ (request[q].kind = "set" => q = p)
          BY <3>0, <4>2 DEF IInv, TurnsAndGoalsExclude, Holds, HoldsRoute
        <4>4. goal = "active" => goalOf = p
          BY <1>h, <4>1 DEF Owned
        <4>5. \A answer, k : ~TurnNote(Response(q, answer, k))
          BY DEF TurnNote, Response
        <4>6. CASE UNCHANGED <<goal, goalOf, turn, turns, overtaken>> /\ \E answer, k : Sent({Response(q, answer, k)})
          <5>1. Foreign(p)' => Foreign(p)
            BY <4>6 DEF Foreign
          <5> QED BY <2>1, <4>1, <4>4, <4>5, <4>6, <5>1
        <4>7. CASE request[q].kind = "clear" /\ goal' = "none" /\ UNCHANGED <<turn, turns>>
                     /\ overtaken \subseteq overtaken'
                   /\ \E answer : Sent({Response(q, answer, 0)}) \/ Sent({Response(q, answer, 0), Cleared})
          <5>1. Foreign(p)' => Foreign(p)
            BY <4>7 DEF Foreign
          <5> QED BY <2>1, <2>2, <4>1, <4>5, <4>7, <5>1
        <4>8. CASE goalOf' = p /\ UNCHANGED <<turn, turns, overtaken>>
                     /\ \E answer : Sent({Response(q, answer, 0), Goal("active")})
          <5>1. Foreign(p)' => Foreign(p)
            BY <4>8 DEF Foreign
          <5> QED BY <2>1, <2>2, <4>1, <4>5, <4>8, <5>1
        <4>9. CASE goal' = "paused" /\ UNCHANGED <<turn, turns, overtaken>>
                     /\ Sent({Response(q, "ok", 0), Goal("paused")})
          <5>1. Foreign(p)' => Foreign(p)
            BY <4>9 DEF Foreign
          <5> QED BY <2>1, <2>2, <4>1, <4>5, <4>9, <5>1
        <4>10. CASE turn' = 0 /\ UNCHANGED <<goal, goalOf, overtaken>> /\ \E S : Sent(S)
          <5>1. ~Foreign(p)'
            BY <4>10 DEF Foreign
          <5> QED BY <2>1, <4>1, <4>4, <4>10, <5>1
        <4>11. request[q].kind = "clear"
                 /\ overtaken' = (IF turn = 0 THEN overtaken ELSE overtaken \cup {q}) => overtaken \subseteq overtaken'
          OBVIOUS
        <4> QED BY <2>4, <4>3, <4>6, <4>7, <4>8, <4>9, <4>10, <4>11 DEF Served, serverVars
      <3> QED BY <3>1, <3>2
    <2> QED BY <1>0, <1>1, <2>3, <2>4, ServerFrame
  <1>2. ASSUME UNCHANGED <<goal, goalOf, turn, turns, overtaken>>, Clean(p), Foreign(p) => Unseen(p)',
               \A j \in DOMAIN wire' : Due(p, j)' => \E i \in DOMAIN wire : wire[i] = wire'[j] /\ Due(p, i),
               HandDue(p)' => (HandDue(p) /\ hand'.note = hand.note)
                              \/ \E i \in DOMAIN wire : wire[i] = hand'.note /\ Due(p, i)
        PROVE  /\ goal' = "active" => goalOf' = p
               /\ Foreign(p)' => /\ p \in overtaken' /\ Unseen(p)'
                                 /\ \A j \in DOMAIN wire' : Due(p, j)' => ~TurnNote(wire'[j])
                                 /\ HandDue(p)' => ~TurnNote(hand'.note)
    <2>1. Foreign(p)' <=> Foreign(p)
      BY <1>2 DEF Foreign
    <2> QED BY <1>h, <1>2, <2>1 DEF Owned
  <1>3. CASE ReadResponse \/ ReadNotification
    <2>1. /\ wire # <<>> /\ wire' = Tail(wire)
               /\ UNCHANGED <<goal, goalOf, turn, turns, overtaken, at, request, route, state, transport>>
      BY <1>3 DEF ReadResponse, ReadNotification, serverVars, opVars
    <2>2. Clean(p) /\ (Unseen(p)' <=> Unseen(p))
      <3> SUFFICES ASSUME Granted(p)' PROVE Granted(p)
        BY <2>1 DEF Clean, Unseen
      <3>1. /\ 1 \in DOMAIN wire /\ Head(wire) = wire[1]
            /\ \A i \in DOMAIN wire : i = 1 \/ (i - 1 \in DOMAIN wire' /\ wire'[i - 1] = wire[i])
        BY <1>0, <2>1, WireRead
      <3>2. CASE Answers(p, wire[1])
        <4>1. reply'[p] = wire[1] /\ wire[1] # None
          BY <1>0, <1>3, <3>1, <3>2, Functions DEF ReadResponse, ReadNotification, Answers, None
        <4>2. reply[p] = None
          BY <3>1, <3>2 DEF Calls, OneCall, OnWire
        <4> QED BY <2>1, <3>1, <4>1, <4>2 DEF Granted
      <3>3. CASE ~Answers(p, wire[1])
        <4>1. reply'[p] = reply[p]
          BY <1>0, <1>3, <3>1, <3>3, Functions DEF ReadResponse, ReadNotification, Answers
        <4> QED BY <2>1, <3>1, <3>3, <4>1 DEF Granted
      <3> QED BY <3>2, <3>3
    <2>3. \A j \in DOMAIN wire' : Due(p, j)' => \E i \in DOMAIN wire : wire[i] = wire'[j] /\ Due(p, i)
      BY <1>0, <2>1, DueRead
    <2>4. HandDue(p)' => \E i \in DOMAIN wire : wire[i] = hand'.note /\ Due(p, i)
      <3>1. CASE ReadResponse
        BY <3>1 DEF ReadResponse, HandDue, InHand, None
      <3>2. CASE ReadNotification
        <4> SUFFICES ASSUME HandDue(p)' PROVE \E i \in DOMAIN wire : wire[i] = hand'.note /\ Due(p, i)
          OBVIOUS
        <4>1. hand'.note = Head(wire) /\ Head(wire).kind # "response"
          BY <3>2 DEF ReadNotification, HandDue, InHand, None
        <4>2. at[p] = "clear" => ~OnWire(p)'
          BY <2>1 DEF HandDue
        <4>3. 1 \in DOMAIN wire /\ Head(wire) = wire[1] /\ Due(p, 1)
          BY <1>0, <2>1, <4>1, <4>2, DueRead
        <4> QED BY <4>1, <4>3
      <3> QED BY <1>3, <3>1, <3>2
    <2> QED BY <1>2, <1>h, <2>1, <2>2, <2>3, <2>4 DEF Owned
  <1>4. CASE Observe
    <2>1. UNCHANGED <<goal, goalOf, turn, turns, overtaken, at, request, reply, route, wire, transport>>
      BY <1>4 DEF Observe, serverVars
    <2>2. Clean(p) /\ \A j \in DOMAIN wire' : Due(p, j)' => Due(p, j)
      <3>1. state'[p].routing = state[p].routing
        BY <1>0, <1>4, ObservedFields DEF Saw
      <3> QED BY <2>1, <3>1 DEF Clean, Granted, Due
    <2>3. HandDue(p)' => HandDue(p) /\ hand'.note = hand.note
      <3>1. OnWire(p)' <=> OnWire(p)
        BY <2>1 DEF OnWire
      <3> QED BY <1>0, <1>4, <2>1, <3>1, ObservedFields DEF HandDue, InHand, None
    <2>4. Foreign(p) => Unseen(p)'
      <3> SUFFICES ASSUME Foreign(p) PROVE Unseen(p)'
        OBVIOUS
      <3>1. Unseen(p) /\ (HandDue(p) => ~TurnNote(hand.note))
        BY <1>h, <2>2 DEF Owned
      <3>2. CASE state' = state
        BY <3>1, <3>2 DEF Unseen
      <3>3. CASE Saw(hand.op, hand.note) /\ (state[hand.op].routing \/ ~TurnNote(hand.note)) /\ hand.kind = "observe"
        <4>1. CASE p # hand.op
          BY <3>1, <3>3, <4>1 DEF Saw, Unseen
        <4>2. CASE p = hand.op
          <5>1. ~TurnNote(hand.note)
            BY <1>h, <3>1, <3>3, <4>2 DEF HandDue, InHand, SetsOnce
          <5> QED BY <3>1, <3>3, <4>2, <5>1 DEF Saw, Unseen, TurnNote
        <4> QED BY <4>1, <4>2
      <3> QED BY <1>0, <1>4, <3>2, <3>3, ObservedFields
    <2> QED BY <1>2, <2>1, <2>2, <2>3, <2>4
  <1>5. CASE PutObserved \/ ReaderReleases \/ FailGoal
    <2>1. UNCHANGED <<goal, goalOf, turn, turns, overtaken, at, request, reply, wire, transport>> /\ ~InHand(p)'
      BY <1>0, <1>5, HandPut DEF PutObserved, ReaderReleases, FailGoal, serverVars, InHand, None
    <2>2. route = p
      BY <1>0, <1>5 DEF PutObserved, ReaderReleases, FailGoal, UnregisterGoal, Clean
    <2>3. Clean(p) /\ \A j \in DOMAIN wire' : Due(p, j)' => Due(p, j)
      <3>1. state'[p].routing = state[p].routing
        BY <1>0, <1>5, FailFields DEF PutObserved, ReaderReleases, opVars
      <3> QED BY <2>1, <2>2, <3>1 DEF Clean, Granted, Due
    <2>4. Unseen(p)' <=> Unseen(p)
      BY <1>0, <1>5, FailFields DEF Unseen, PutObserved, ReaderReleases, opVars
    <2> QED BY <1>2, <1>h, <2>1, <2>3, <2>4 DEF Owned, HandDue
  <1>6. CASE FailAll
    BY <1>6 DEF FailAll, Clean
  <1>7. ASSUME NEW q \in Ops, ThreadAction(q)
        PROVE  /\ goal' = "active" => goalOf' = p
               /\ Foreign(p)' => /\ p \in overtaken' /\ Unseen(p)'
                                 /\ \A j \in DOMAIN wire' : Due(p, j)' => ~TurnNote(wire'[j])
                                 /\ HandDue(p)' => ~TurnNote(hand'.note)
    BY <1>2, <1>h, <1>7, DueThread DEF Owned
  <1>8. CASE UNCHANGED vars
    BY <1>h, <1>8 DEF vars, serverVars, opVars, Owned, Clean, Granted, Due, HandDue, InHand, OnWire, Foreign, Unseen
  <1> QED BY <1>1, <1>3, <1>4, <1>5, <1>6, <1>7, <1>8, Steps DEF ReaderAction, Reader

-----------------------------------------------------------------------------
(* Cancelling: what is reached, and what is left.                          *)

\* An operation that has no goal or turn of its own has nothing to cancel.
LEMMA CancelledUnset ==
  ASSUME NEW p, Unset(p), turn = 0 \/ turn \in DOMAIN turns
  PROVE  CleanedUp(p) /\ ~Runs(p) /\ ~Active(p)
  BY DEF Unset, CleanedUp, Runs, Active

\* What was not carried out is not forgotten.
LEMMA ServerRemembers ==
  ASSUME Worked \/ \E q \in Ops : Served(q)
  PROVE  unpaused \subseteq unpaused' /\ unstopped \subseteq unstopped'
  BY DEF Worked, Served, serverVars

\* What the server's steps make of a goal and its turns.
ServerEffect(p, S) ==
    /\ Sent(S)
    /\ Runs(p)' => \/ Runs(p) /\ turn' = turn
                   \/ Active(p) /\ \E x \in S : x.kind = "started" /\ x.turn = turn'
    /\ Active(p)' => Active(p) \/ (Served(p) /\ request[p].kind = "set")
    /\ \A x \in S : StartOf(p, x)' => Active(p)
    /\ \A x : (x.kind = "started" => x.turn \in DOMAIN turns) => (StartOf(p, x)' <=> StartOf(p, x))

\* So it is for each of the server's steps, seen from any operation.
LEMMA ServerGoal ==
  ASSUME Types, Types', Numbered, NEW p \in Ops, Worked \/ \E q \in Ops : Served(q)
  PROVE  \E S : ServerEffect(p, S)
  <1>t. /\ DOMAIN turns = 1..Len(turns) /\ Len(turns) \in Nat /\ turn \in 0..Len(turns) /\ p # NoOp
        /\ turns \in Seq(Ops \cup {NoOp})
    <2>1. turns \in Seq(Ops \cup {NoOp})
      BY Functions
    <2> QED BY <2>1, Functions, OpsAssumption
  <1>0. ASSUME UNCHANGED <<turns>>
        PROVE  /\ \A x : StartOf(p, x)' <=> StartOf(p, x)
               /\ turn' = turn => (Runs(p)' <=> Runs(p))
               /\ turn' = 0 => ~Runs(p)'
    BY <1>0 DEF StartOf, Mine, Runs
  <1>1. ASSUME NEW x, turns' = Append(turns, x), turn' = Len(turns) + 1
        PROVE  /\ Runs(p)' <=> x = p
               /\ \A n : (n.kind = "started" => n.turn \in DOMAIN turns) => (StartOf(p, n)' <=> StartOf(p, n))
               /\ \A n : n.turn = turn' /\ StartOf(p, n)' => x = p
    <2>1. /\ turns'[turn'] = x /\ turn' # 0 /\ DOMAIN turns \subseteq DOMAIN turns' /\ turn' \in DOMAIN turns'
          /\ \A k \in DOMAIN turns : turns'[k] = turns[k]
      BY <1>t, <1>1
    <2> QED BY <2>1 DEF StartOf, Mine, Runs, TurnNote
  <1>2. \A answer, k, status, q : /\ Response(q, answer, k).kind # "started" /\ Goal(status).kind # "started"
                                  /\ Cleared.kind # "started" /\ Note("completed", k, status).kind # "started"
                                  /\ Note("started", k, status).kind = "started"
                                       /\ Note("started", k, status).turn = k
    BY DEF Response, Goal, Cleared, Note
  <1>3. ASSUME NEW S, Sent(S), UNCHANGED turns, turn' = turn \/ turn' = 0, \A x \in S : x.kind # "started",
               Active(p)' => Active(p) \/ (Served(p) /\ request[p].kind = "set")
        PROVE  ServerEffect(p, S)
    <2>1. \A x \in S : ~StartOf(p, x)'
      BY <1>3 DEF StartOf
    <2> QED BY <1>0, <1>3, <2>1 DEF ServerEffect
  <1>4. ASSUME NEW S, Sent(S), NEW x, turns' = Append(turns, x), turn' = Len(turns) + 1,
               Note("started", turn', "none") \in S,
               \A n \in S : n.kind = "started" => n.turn = turn', (x = p => Active(p)), UNCHANGED <<goal, goalOf>>
        PROVE  ServerEffect(p, S)
    <2>1. \A n \in S : StartOf(p, n)' => x = p
      BY <1>1, <1>4 DEF StartOf
    <2>2. Active(p)' => Active(p)
      BY <1>4 DEF Active
    <2> QED BY <1>1, <1>2, <1>4, <2>1, <2>2 DEF ServerEffect
  <1>5. CASE Worked
    <2>1. CASE goal = "active" /\ turns' = Append(turns, goalOf) /\ turn' = Len(turns) + 1
                 /\ UNCHANGED <<goal, goalOf>>
               /\ Sent({Note("started", turn', "none")})
      BY <1>2, <1>4, <2>1 DEF Active
    <2>2. CASE turn' = 0 /\ UNCHANGED <<goal, goalOf, turns>>
               /\ \E status \in {"completed", "failed"} : Sent({Note("completed", turn, status)})
      BY <1>2, <1>3, <2>2 DEF Active
    <2>3. CASE goal' = "complete" /\ UNCHANGED <<goalOf, turn, turns>> /\ Sent({Goal("complete")})
      BY <1>2, <1>3, <2>3 DEF Active
    <2> QED BY <1>5, <2>1, <2>2, <2>3 DEF Worked
  <1>6. ASSUME NEW q \in Ops, Served(q)
        PROVE  \E S : ServerEffect(p, S)
    <2>1. CASE turns' = Append(turns, NoOp) /\ turn' = Len(turns) + 1 /\ UNCHANGED <<goal, goalOf>>
               /\ Sent({Response(q, "ok", turn'), Note("started", turn', "none")})
      BY <1>t, <1>2, <1>4, <2>1
    <2>2. CASE UNCHANGED <<goal, goalOf, turn, turns>> /\ \E answer, k : Sent({Response(q, answer, k)})
      <3>1. Active(p)' => Active(p)
        BY <2>2 DEF Active
      <3>2. turn' = turn /\ UNCHANGED turns
        BY <2>2
      <3>3. PICK answer, k : Sent({Response(q, answer, k)})
        BY <2>2
      <3>4. \A x \in {Response(q, answer, k)} : x.kind # "started"
        BY <1>2
      <3>5. ServerEffect(p, {Response(q, answer, k)})
        BY <1>3, <3>1, <3>2, <3>3, <3>4
      <3> QED BY <3>5
    <2>3. CASE UNCHANGED <<turn, turns>> /\ goal' \in {"none", "paused"}
                 /\ \E answer : \/ \E k : Sent({Response(q, answer, 0), Goal(k)})
                                \/ Sent({Response(q, answer, 0)}) \/ Sent({Response(q, answer, 0), Cleared})
      <3>1. ~Active(p)'
        BY <2>3 DEF Active
      <3>2. PICK S : Sent(S) /\ \A x \in S : x.kind # "started"
        <4>1. \A answer, k : /\ \A x \in {Response(q, answer, 0), Goal(k)} : x.kind # "started"
                             /\ \A x \in {Response(q, answer, 0)} : x.kind # "started"
                             /\ \A x \in {Response(q, answer, 0), Cleared} : x.kind # "started"
          BY <1>2
        <4>2. CASE \E answer, k : Sent({Response(q, answer, 0), Goal(k)})
          BY <4>1, <4>2
        <4>3. CASE \E answer : Sent({Response(q, answer, 0)}) \/ Sent({Response(q, answer, 0), Cleared})
          BY <4>1, <4>3
        <4> QED BY <2>3, <4>2, <4>3
      <3>3. ServerEffect(p, S)
        BY <1>3, <2>3, <3>1, <3>2
      <3> QED BY <3>3
    <2>4. CASE request[q].kind = "set" /\ UNCHANGED <<turn, turns>> /\ goal' = "active" /\ goalOf' = q
               /\ \E answer \in {"ok", "error"} : Sent({Response(q, answer, 0), Goal("active")})
      <3>1. Active(p)' => p = q
        BY <2>4 DEF Active
      <3> QED BY <1>2, <1>3, <1>6, <2>4, <3>1
    <2>5. CASE turn' = 0 /\ UNCHANGED <<goal, goalOf, turns>>
               /\ Sent({Response(q, "ok", 0), Note("completed", turn, "interrupted")})
      <3>1. Active(p)' => Active(p)
        BY <2>5 DEF Active
      <3> QED BY <1>2, <1>3, <2>5, <3>1
    <2> QED BY <1>6, <2>1, <2>2, <2>3, <2>4, <2>5 DEF Served, serverVars
  <1> QED BY <1>5, <1>6

\* cancel_goal_operation reaches only what is the operation's own.
LEMMA ReachesItsOwn ==
  ASSUME IInv, Outs, Calls, Holds, Own, Cancel, [Next]_vars, NEW o \in Ops,
         request[o].kind \in {"pause", "interrupt"}, request'[o] = None,
         state[o].routing, ~state[o].finished
  PROVE  (goal' # goal => goalOf = o) /\ (turn' # turn => turns[turn] = o)
  <1>0. Types /\ request[o] # None
    BY DEF IInv, None
  <1>1. CASE ServerAction
    <2>1. Served(o) /\ transport = "up"
      BY <1>0, <1>1, ServerFrame
    <2>2. at[o] \in {"pause", "interrupt", "retry"}
            /\ (request[o].kind = "interrupt" => at[o] \in {"interrupt", "retry"})
      BY <1>0, RequestPlace
    <2>3. route = o
      BY <2>1, <2>2 DEF Holds, HoldsRoute
    <2>4. Clean(o)
      BY <2>1, <2>2, <2>3 DEF Clean
    <2>5. /\ goal = "active" => goalOf = o
          /\ Foreign(o) => Unseen(o)
          /\ at[o] \in {"interrupt", "retry"} => ~Unseen(o)
      BY <2>1, <2>4 DEF Own, Owned, Cancel, Cancelled, Interrupting
    <2>6. CASE request[o].kind = "pause"
      BY <2>1, <2>5, <2>6 DEF Served, serverVars
    <2>7. CASE request[o].kind = "interrupt"
      <3>1. ~Foreign(o)
        BY <2>2, <2>5, <2>7
      <3>2. goal' = goal /\ (turn' # turn => turn # 0)
        BY <2>1, <2>7 DEF Served, serverVars
      <3> QED BY <3>1, <3>2 DEF Foreign
    <2> QED BY <2>6, <2>7
  <1>2. CASE ReaderAction
    BY <1>2 DEF ReaderAction, Reader, ReadResponse, ReadNotification, Observe, PutObserved, ReaderReleases,
                FailGoal, FailAll, serverVars
  <1>3. CASE \E q \in Ops : ThreadAction(q)
    BY <1>0, <1>3, ThreadApart DEF Apart, serverVars
  <1>4. CASE UNCHANGED vars
    BY <1>4 DEF vars, serverVars
  <1> QED BY <1>1, <1>2, <1>3, <1>4, Steps

\* What is behind the operation's answer on the wire stays behind it.
LEMMA BehindGrows ==
  ASSUME NEW S, Sent(S), NEW p
  PROVE  \A j \in DOMAIN wire : Behind(p, j)' => Behind(p, j)
  BY SentNew DEF Behind

\* So it does when the reader takes a message.
LEMMA BehindRead ==
  ASSUME Types, wire # <<>>, wire' = Tail(wire), NEW p \in Ops
  PROVE  \A j \in DOMAIN wire' : Behind(p, j)' => j + 1 \in DOMAIN wire /\ wire'[j] = wire[j + 1] /\ Behind(p, j + 1)
  <1>1. /\ \A i \in DOMAIN wire' : i \in Nat /\ i + 1 \in DOMAIN wire /\ wire'[i] = wire[i + 1] /\ i + 1 # 1
        /\ \A i \in DOMAIN wire : i \in Nat /\ (i = 1 \/ (i - 1 \in DOMAIN wire' /\ wire'[i - 1] = wire[i] /\ i > 1))
    BY WireRead
  <1> SUFFICES ASSUME NEW j \in DOMAIN wire', Behind(p, j)', NEW i \in DOMAIN wire, Answers(p, wire[i])
               PROVE  i < j + 1
    BY <1>1 DEF Behind
  <1>2. CASE i = 1
    BY <1>1, <1>2
  <1>3. CASE i # 1
    <2>1. i - 1 \in DOMAIN wire' /\ wire'[i - 1] = wire[i] /\ i \in Nat /\ j \in Nat
      BY <1>1, <1>3
    <2>2. i - 1 < j
      BY <2>1 DEF Behind
    <2> QED BY <2>1, <2>2
  <1> QED BY <1>2, <1>3

\* An answer to a thread that the server has just sent is the one it served.
LEMMA NewAnswer ==
  ASSUME Types, Calls, ServerAction, NEW p \in Ops, NEW i \in DOMAIN wire', Answers(p, wire'[i])
  PROVE  (i \in DOMAIN wire /\ wire'[i] = wire[i]) \/ (Served(p) /\ request[p] # None)
  <1>1. CASE Worked
    BY <1>1, WorkedAlone, SentNew DEF Answers
  <1>2. ASSUME NEW q \in Ops, Served(q), request[q] # None, p # q
        PROVE  i \in DOMAIN wire /\ wire'[i] = wire[i]
    <2>1. PICK S, a : /\ Sent(S) /\ a \in S /\ Answers(q, a) /\ \A r \in Ops \ {q} : ~Answers(r, a)
                      /\ \A x \in S : x # a => x.kind # "response"
      BY <1>2, ServedOnce
    <2>2. \A x \in S : ~Answers(p, x)
      BY <1>2, <2>1 DEF Answers
    <2> QED BY <2>1, <2>2, SentNew
  <1> QED BY <1>1, <1>2, ServerFrame

\* The server starts nothing of an operation it has paused, and tells of every turn it starts.
LEMMA CancelServer ==
  ASSUME Types, Types', Calls, Numbered, Cancel, ServerAction, NEW p \in Ops
  PROVE  Cancelled(p)'
  <1>0. /\ UNCHANGED <<reply, lock, route, at, state, queue, cursor, out, hand, transport>> /\ transport = "up"
        /\ \/ Worked /\ request' = request
           \/ \E q \in Ops : /\ Served(q) /\ request[q] # None /\ request'[q] = None
                             /\ \A r \in Ops \ {q} : request'[r] = request[r]
    BY ServerFrame
  <1>1. PICK S : ServerEffect(p, S)
    BY <1>0, ServerGoal
  <1>2. Sent(S) /\ (Unseen(p)' <=> Unseen(p)) /\ Cancelled(p)
    BY <1>0, <1>1 DEF ServerEffect, Unseen, Cancel
  <1>3. /\ \A i \in DOMAIN wire' : (i \in DOMAIN wire /\ wire'[i] = wire[i]) \/ wire'[i] \in S
        /\ \A i \in DOMAIN wire : i \in DOMAIN wire' /\ wire'[i] = wire[i]
        /\ OnWire(p) => OnWire(p)'
    BY <1>2, SentNew DEF OnWire
  <1>4. request[p].kind # "set" => (Active(p)' => Active(p))
    BY <1>1 DEF ServerEffect
  <1>5. ~Active(p) => (Runs(p)' => Runs(p) /\ turn' = turn)
    BY <1>1 DEF ServerEffect
  <1>6. at[p] \in {"pause", "interrupt", "retry", "finish", "release", "raised", "left"} => request[p].kind # "set"
    BY RequestPlace DEF None
  <1>7. request'[p] = request[p] \/ (Served(p) /\ request[p] # None)
    BY <1>0
  <1>r. unpaused \subseteq unpaused' /\ unstopped \subseteq unstopped'
    BY <1>0, ServerRemembers
  <1>8. RunShown(p)'
    <2>1. CASE Runs(p) /\ turn' = turn
      BY <1>0, <1>2, <1>3, <2>1 DEF Cancelled, RunShown
    <2>2. CASE \E x \in S : x.kind = "started" /\ x.turn = turn'
      <3>1. \E i \in DOMAIN wire' : wire'[i].kind = "started" /\ wire'[i].turn = turn'
        BY <1>2, <2>2, SentNew
      <3> QED BY <3>1 DEF RunShown
    <2>3. CASE ~Runs(p)'
      BY <2>3 DEF RunShown
    <2> QED BY <1>1, <2>1, <2>2, <2>3 DEF ServerEffect
  <1>9. PausedGoal(p)'
    <2> SUFFICES ASSUME at[p] = "pause", request'[p] = None, p \notin unpaused'
                 PROVE  /\ ~Active(p)'
                        /\ \A j \in DOMAIN wire' : Behind(p, j)' => ~StartOf(p, wire[j])'
                        /\ ~OnWire(p)' /\ hand'.kind = "observe" /\ hand'.op = p => ~StartOf(p, hand.note)'
      BY <1>0 DEF PausedGoal
    <2>1. CASE request[p] = None
      <3>1. ~Active(p) /\ ~Active(p)'
        BY <1>2, <1>4, <1>6, <1>r, <2>1 DEF Cancelled, PausedGoal
      <3>2. \A x \in S : ~StartOf(p, x)'
        BY <1>1, <3>1 DEF ServerEffect
      <3>3. ASSUME NEW j \in DOMAIN wire', Behind(p, j)' PROVE ~StartOf(p, wire[j])'
        <4>1. CASE wire'[j] \in S
          BY <3>2, <4>1
        <4>2. CASE j \in DOMAIN wire /\ wire'[j] = wire[j]
          <5>1. ~StartOf(p, wire[j])
            BY <1>2, <1>r, <2>1, <3>3, <4>2, BehindGrows DEF Cancelled, PausedGoal
          <5>2. wire[j].kind = "started" => wire[j].turn \in DOMAIN turns
            BY <4>2 DEF Numbered, TurnNote
          <5> QED BY <1>1, <4>2, <5>1, <5>2 DEF ServerEffect
        <4> QED BY <1>3, <4>1, <4>2
      <3>4. ~OnWire(p)' /\ hand'.kind = "observe" /\ hand'.op = p => ~StartOf(p, hand.note)'
        <4> SUFFICES ASSUME ~OnWire(p)', hand.kind = "observe", hand.op = p PROVE ~StartOf(p, hand.note)'
          BY <1>0
        <4>1. ~StartOf(p, hand.note)
          BY <1>2, <1>3, <1>r, <2>1 DEF Cancelled, PausedGoal
        <4>2. hand.note.kind = "started" => hand.note.turn \in DOMAIN turns
          BY DEF Numbered, TurnNote
        <4> QED BY <1>0, <1>1, <4>1, <4>2 DEF ServerEffect
      <3> QED BY <3>1, <3>3, <3>4
    <2>2. CASE request[p] # None
      <3>1. Served(p) /\ request[p].kind = "pause" /\ ~OnWire(p)
        BY <1>7, <2>2, RequestPlace
      <3>2. PICK T, a : /\ goal' # "active" /\ Sent(T) /\ a \in T /\ Answers(p, a) /\ \A x \in T : x.kind # "started"
        <4>1. \A answer : /\ Answers(p, Response(p, answer, 0)) /\ Response(p, answer, 0).kind # "started"
                          /\ Goal("paused").kind # "started"
          BY DEF Answers, Response, Goal, Note
        <4>2. \/ (goal' = "paused" /\ Sent({Response(p, "ok", 0), Goal("paused")}))
              \/ (goal # "active" /\ goal' = goal /\ Sent({Response(p, "error", 0)}))
          BY <3>1 DEF Served, serverVars
        <4> QED BY <4>1, <4>2
      <3>3. PICK i \in DOMAIN wire' : i \notin DOMAIN wire /\ wire'[i] = a
        BY <3>2, SentNew
      <3>4. \A j \in DOMAIN wire' : Behind(p, j)' => wire'[j] \in T
        <4>1. \A j \in DOMAIN wire : j < i /\ j \in Nat /\ i \in Nat
          BY <3>2, <3>3, SentNew
        <4>2. \A j \in DOMAIN wire' : Behind(p, j)' => i < j
          BY <3>2, <3>3 DEF Behind, Answers
        <4>3. \A j \in DOMAIN wire' : i < j => j \notin DOMAIN wire
          BY <4>1
        <4> QED BY <3>2, <4>2, <4>3, SentNew
      <3>5. OnWire(p)'
        BY <3>2, <3>3 DEF OnWire, Answers
      <3> QED BY <3>2, <3>4, <3>5 DEF Active, StartOf
    <2> QED BY <2>1, <2>2
  <1>10. Interrupting(p)'
    <2>1. at[p] \in {"interrupt", "retry"} => /\ ~Unseen(p)' /\ (Active(p)' => p \in unpaused')
                                              /\ p \notin unpaused' => ~Active(p)
                                              /\ request[p] # None => request[p].kind = "interrupt"
      BY <1>2, <1>4, <1>6, <1>r, RequestPlace DEF Cancelled, Interrupting
    <2>t. at[p] \in {"interrupt", "retry"} /\ Runs(p)' /\ p \notin unpaused' => Runs(p) /\ turn' = turn /\ turn # 0
      BY <1>5, <2>1 DEF Runs
    <2>2. /\ at[p] \in {"interrupt", "retry"} /\ Served(p) /\ request[p] # None
          /\ turn' = turn /\ turn # 0 /\ p \notin unstopped'
          => turn # request[p].turn /\ Sent({Response(p, "expected", turn)})
      BY <2>1 DEF Served
    <2>3. at[p] = "interrupt" /\ Runs(p)' /\ p \notin unpaused' \cup unstopped' =>
             /\ \A i \in DOMAIN wire' : Answers(p, wire'[i]) => Names(p, wire[i])'
             /\ reply'[p] # None => Names(p, reply[p])'
      <3> SUFFICES ASSUME at[p] = "interrupt", Runs(p)', p \notin unpaused' \cup unstopped'
                   PROVE  /\ \A i \in DOMAIN wire' : Answers(p, wire'[i]) => Names(p, wire[i])'
                          /\ reply'[p] # None => Names(p, reply[p])'
        OBVIOUS
      <3>1. Runs(p) /\ turn' = turn /\ turn # 0 /\ p \notin unpaused \cup unstopped
        BY <1>r, <2>t
      <3>2. ASSUME NEW i \in DOMAIN wire', Answers(p, wire'[i]) PROVE Names(p, wire[i])'
        <4>1. CASE i \in DOMAIN wire /\ wire'[i] = wire[i]
          BY <1>2, <3>1, <3>2, <4>1 DEF Cancelled, Interrupting, Names
        <4>2. CASE Served(p) /\ request[p] # None
          <5>1. Sent({Response(p, "expected", turn)}) /\ ~OnWire(p)
            BY <2>2, <3>1, <4>2, RequestPlace
          <5>2. wire'[i] = Response(p, "expected", turn)
            BY <3>2, <5>1, SentNew DEF OnWire, Answers
          <5> QED BY <3>1, <5>2 DEF Names, Response
        <4> QED BY <3>2, <4>1, <4>2, NewAnswer
      <3>3. reply'[p] # None => Names(p, reply[p])'
        BY <1>0, <1>2, <3>1 DEF Cancelled, Interrupting, Names
      <3> QED BY <3>2, <3>3
    <2>4. at[p] = "retry" /\ Runs(p)' /\ p \notin unpaused' \cup unstopped'
             => request'[p] # None /\ turn' = request'[p].turn
      <3> SUFFICES ASSUME at[p] = "retry", Runs(p)', p \notin unpaused' \cup unstopped'
                   PROVE  request'[p] # None /\ turn' = request'[p].turn
        OBVIOUS
      <3>1. Runs(p) /\ turn' = turn /\ turn # 0 /\ p \notin unpaused \cup unstopped
        BY <1>r, <2>t
      <3>2. request[p] # None /\ turn = request[p].turn
        BY <1>2, <3>1 DEF Cancelled, Interrupting
      <3> QED BY <1>7, <2>2, <3>1, <3>2
    <2> QED BY <1>0, <2>1, <2>3, <2>4 DEF Interrupting
  <1>11. Stopped(p)'
    <2>1. CleanedUp(p) /\ request[p].kind # "set" => CleanedUp(p)'
      BY <1>4, <1>5, <1>r DEF CleanedUp
    <2> QED BY <1>0, <1>2, <1>6, <2>1 DEF Cancelled, Stopped
  <1> QED BY <1>8, <1>9, <1>10, <1>11 DEF Cancelled

\* The reader loses no start of a turn on its way to the operation.
LEMMA CancelReader ==
  ASSUME IInv, Calls, Holds, Numbered, Setting, Cancel, ReaderAction, transport' = "up", NEW p \in Ops
  PROVE  Cancelled(p)'
  <1>0. /\ Types /\ transport = "up" /\ UNCHANGED <<goal, goalOf, turn, turns, unpaused, unstopped, at, request, lock>>
        /\ DOMAIN turns = 1..Len(turns)
    <2>1. turns \in Seq(Ops \cup {NoOp})
      BY Functions DEF IInv
    <2> QED BY <2>1 DEF ReaderAction, Reader, ReadResponse, ReadNotification, Observe, PutObserved, ReaderReleases,
               FailGoal, FailAll, IInv, serverVars
  <1>1. /\ Cancelled(p) /\ (Active(p)' <=> Active(p)) /\ (Runs(p)' <=> Runs(p))
             /\ (CleanedUp(p)' <=> CleanedUp(p))
        /\ \A n : StartOf(p, n)' <=> StartOf(p, n)
    BY <1>0 DEF Cancel, Active, Runs, CleanedUp, StartOf, Mine
  <1>2. ASSUME ~Unseen(p) => ~Unseen(p)', state'[p].abandoned = state[p].abandoned,
               Runs(p) /\ at[p] \in {"set", "start", "stream", "pause"} =>
                  \/ ~Unseen(p)'
                  \/ \E i \in DOMAIN wire' : wire'[i].kind = "started" /\ wire'[i].turn = turn
                  \/ hand'.kind = "observe" /\ hand'.op = p /\ hand'.note.kind = "started" /\ hand'.note.turn = turn,
               \A j \in DOMAIN wire' : Behind(p, j)' => \E i \in DOMAIN wire : wire[i] = wire'[j] /\ Behind(p, i),
               ~OnWire(p)' /\ hand'.kind = "observe" /\ hand'.op = p
                 => \E i \in DOMAIN wire : wire[i] = hand'.note /\ Behind(p, i),
               \A i \in DOMAIN wire' : \E j \in DOMAIN wire : wire[j] = wire'[i],
               reply'[p] = reply[p] \/ (\E j \in DOMAIN wire : Answers(p, wire[j]) /\ reply'[p] = wire[j])
        PROVE  Cancelled(p)'
    <2>1. RunShown(p)'
      BY <1>0, <1>1, <1>2 DEF RunShown
    <2>2. PausedGoal(p)'
      BY <1>0, <1>1, <1>2 DEF Cancelled, PausedGoal
    <2>3. Interrupting(p)'
      BY <1>0, <1>1, <1>2 DEF Cancelled, Interrupting, Names
    <2>4. Stopped(p)'
      BY <1>0, <1>1, <1>2 DEF Cancelled, Stopped
    <2> QED BY <2>1, <2>2, <2>3, <2>4 DEF Cancelled
  <1>3. CASE ReadResponse \/ ReadNotification
    <2>1. /\ wire # <<>> /\ wire' = Tail(wire) /\ state' = state /\ hand = None
          /\ \/ hand' = None /\ Head(wire).kind = "response" /\ reply' = [reply EXCEPT ![Head(wire).op] = Head(wire)]
             \/ /\ reply' = reply /\ Head(wire).kind # "response"
                /\ hand' = IF route = NoOp THEN None ELSE [kind |-> "observe", op |-> route, note |-> Head(wire)]
      BY <1>3 DEF ReadResponse, ReadNotification, opVars
    <2>2. /\ 1 \in DOMAIN wire /\ Head(wire) = wire[1]
          /\ \A i \in DOMAIN wire' : i \in Nat /\ i + 1 \in DOMAIN wire /\ wire'[i] = wire[i + 1] /\ i + 1 # 1
          /\ \A i \in DOMAIN wire : i \in Nat
               /\ (i = 1 \/ (i - 1 \in DOMAIN wire' /\ wire'[i - 1] = wire[i] /\ i > 1))
      BY <1>0, <2>1, WireRead
    <2>3. /\ \A j \in DOMAIN wire' : Behind(p, j)' => \E i \in DOMAIN wire : wire[i] = wire'[j] /\ Behind(p, i)
          /\ \A i \in DOMAIN wire' : \E j \in DOMAIN wire : wire[j] = wire'[i]
      BY <1>0, <2>1, <2>2, BehindRead
    <2>4. ~OnWire(p)' /\ hand'.kind = "observe" /\ hand'.op = p
            => \E i \in DOMAIN wire : wire[i] = hand'.note /\ Behind(p, i)
      <3> SUFFICES ASSUME ~OnWire(p)', hand'.kind = "observe"
                   PROVE  \E i \in DOMAIN wire : wire[i] = hand'.note /\ Behind(p, i)
        OBVIOUS
      <3>1. hand'.note = wire[1] /\ wire[1].kind # "response"
        BY <2>1, <2>2 DEF None
      <3>2. \A i \in DOMAIN wire : ~Answers(p, wire[i])
        BY <2>2, <3>1 DEF OnWire, Answers
      <3> QED BY <2>2, <3>1, <3>2 DEF Behind
    <2>5. reply'[p] = reply[p] \/ (\E j \in DOMAIN wire : Answers(p, wire[j]) /\ reply'[p] = wire[j])
      BY <1>0, <2>1, <2>2, Functions DEF Answers
    <2>6. ~Unseen(p)' <=> ~Unseen(p)
      BY <2>1 DEF Unseen
    <2>7. Runs(p) /\ at[p] \in {"set", "start", "stream", "pause"} =>
                  \/ ~Unseen(p)'
                  \/ \E i \in DOMAIN wire' : wire'[i].kind = "started" /\ wire'[i].turn = turn
                  \/ hand'.kind = "observe" /\ hand'.op = p /\ hand'.note.kind = "started" /\ hand'.note.turn = turn
      <3> SUFFICES ASSUME Runs(p), at[p] \in {"set", "start", "stream", "pause"}, Unseen(p)
                   PROVE  \/ \E i \in DOMAIN wire' : wire'[i].kind = "started" /\ wire'[i].turn = turn
                          \/ hand'.kind = "observe" /\ hand'.op = p /\ hand'.note.kind = "started"
                               /\ hand'.note.turn = turn
        BY <2>6
      <3>1. PICK i \in DOMAIN wire : wire[i].kind = "started" /\ wire[i].turn = turn
        BY <1>1, <2>1 DEF Cancelled, RunShown, None
      <3>2. CASE i # 1
        BY <2>2, <3>1, <3>2
      <3>3. CASE i = 1
        <4>1. ~state[p].finished
          BY DEF Holds, HoldsRoute, Unseen, Releasing, Over
        <4>2. route = p
          BY <1>0, <4>1 DEF Holds, HoldsRoute, IInv, RouteIsTheOperations
        <4> QED BY <2>1, <2>2, <3>1, <3>3, <4>2, OpsAssumption
      <3> QED BY <3>2, <3>3
    <2> QED BY <1>2, <2>1, <2>3, <2>4, <2>5, <2>6, <2>7
  <1>4. ASSUME UNCHANGED <<wire, reply>>, ~Unseen(p) => ~Unseen(p)', state'[p].abandoned = state[p].abandoned,
               hand'.kind # "observe",
               hand.kind = "observe" /\ hand.op = p /\ hand.note.kind = "started"
                 /\ hand.note.turn = turn => ~Unseen(p)' \/ ~Runs(p)
        PROVE  Cancelled(p)'
    <2>1. \A j \in DOMAIN wire' : Behind(p, j)' => Behind(p, j)
      BY <1>4 DEF Behind
    <2>2. Runs(p) /\ at[p] \in {"set", "start", "stream", "pause"} =>
            ~Unseen(p)' \/ (\E i \in DOMAIN wire' : wire'[i].kind = "started" /\ wire'[i].turn = turn)
      BY <1>1, <1>4 DEF Cancelled, RunShown
    <2> QED BY <1>2, <1>4, <2>1, <2>2
  <1>5. CASE Observe
    <2>1. UNCHANGED <<wire, reply>> /\ hand.kind = "observe" /\ hand.op \in Ops
      BY <1>0, <1>5, ObservedFields DEF Observe
    <2>2. TurnNote(hand.note) => hand.note.turn # 0
      BY <1>0, <2>1 DEF Numbered
    <2>3. CASE state' = state /\ hand' = None /\ ~state[hand.op].routing
      <3>1. ~state[p].routing => ~Runs(p)
        <4>1. turn = 0 \/ turn \in DOMAIN turns
          BY <1>0, Functions
        <4> QED BY <4>1, CancelledUnset DEF Setting, SetsOnce
      <3> QED BY <1>4, <2>1, <2>3, <3>1 DEF Unseen, None
    <2>4. CASE Saw(hand.op, hand.note) /\ hand'.kind = "put"
      <3>1. CASE p = hand.op
        BY <1>4, <2>1, <2>2, <2>4, <3>1 DEF Saw, Unseen, TurnNote
      <3>2. CASE p # hand.op
        BY <1>4, <2>1, <2>4, <3>2 DEF Saw, Unseen
      <3> QED BY <3>1, <3>2
    <2> QED BY <1>0, <1>5, <2>3, <2>4, ObservedFields
  <1>6. CASE PutObserved \/ ReaderReleases \/ FailGoal
    <2>1. UNCHANGED <<wire, reply>> /\ hand.kind # "observe" /\ hand'.kind # "observe"
      BY <1>0, <1>6, HandPut DEF PutObserved, ReaderReleases, FailGoal, None
    <2>2. (~Unseen(p) <=> ~Unseen(p)') /\ state'[p].abandoned = state[p].abandoned
      BY <1>0, <1>6, FailFields DEF PutObserved, ReaderReleases, opVars, Unseen
    <2> QED BY <1>4, <2>1, <2>2
  <1>7. ~FailAll
    BY DEF FailAll
  <1> QED BY <1>3, <1>5, <1>6, <1>7 DEF ReaderAction, Reader

\* What a thread sends, and when it goes, while it cancels a goal.
ThreadCancels(o) ==
    /\ at'[o] = "pause" => request'[o] # None
    /\ at'[o] = "interrupt" => /\ at[o] = "pause" /\ reply[o] # None /\ reply'[o] = None
                               /\ TurnForInterrupt(state[o]) # 0 /\ state'[o] = state[o]
    /\ at'[o] = "retry" => /\ at[o] = "interrupt" /\ request'[o].kind = "interrupt"
         /\ request'[o].turn = reply[o].turn
                           /\ reply[o] # None /\ state'[o] = state[o]
    /\ at'[o] = "finish" =>
         \/ at[o] = "clear"
         \/ at[o] = "set" /\ reply[o] # None /\ reply[o].answer = "invalid"
         \/ at[o] = "pause" /\ reply[o] # None /\ TurnForInterrupt(state[o]) = 0
         \/ at[o] = "interrupt" /\ reply[o] # None /\ reply[o].answer # "expected"
         \/ at[o] = "retry" /\ reply[o] # None
         \/ at[o] = "stream"

\* So it is for each of the thread's actions.
LEMMA CancellingThread ==
  ASSUME Types, Unclosed, NEW o \in Ops, ThreadAction(o), transport = "up"
  PROVE  ThreadCancels(o)
  <1>1. /\ at \in [Ops -> Places] /\ request \in [Ops -> Requests(Len(turns))]
        /\ reply \in [Ops -> Responses(Len(turns)) \cup {None}]
    BY Functions
  <1>2. \A kind, k : Send(o, kind, k) => request'[o].kind = kind /\ request'[o].turn = k
    BY <1>1 DEF Send, Request
  <1>3. \A place : Go(o, place) => at'[o] = place
    BY <1>1 DEF Go
  <1>4. \A place : Answered(o, place) => at[o] = place /\ reply[o] # None /\ reply'[o] = None
    BY <1>1 DEF Answered
  <1>5. None.kind = "none"
    BY DEF None
  <1>6. CASE BeginStart(o) \/ BeginTurn(o) \/ AfterTurn(o) \/ AfterRead(o) \/ ReserveGoal(o) \/ Started(o)
    BY <1>3, <1>6 DEF BeginStart, BeginTurn, AfterTurn, AfterRead, ReserveGoal, Started, ThreadCancels
  <1>7. CASE StartTimesOut(o) \/ LeaveStream(o) \/ Abandoned(o)
    BY <1>2, <1>3, <1>5, <1>7 DEF StartTimesOut, LeaveStream, Abandoned, ThreadCancels
  <1>8. CASE AfterClear(o) \/ AfterSet(o)
    BY <1>2, <1>3, <1>4, <1>5, <1>8 DEF AfterClear, AfterSet, StartRaises, ThreadCancels
  <1>9. CASE AfterPause(o)
    BY <1>2, <1>3, <1>4, <1>9 DEF AfterPause, ThreadCancels, opVars
  <1>10. CASE AfterInterrupt(o) \/ AfterRetry(o)
    BY <1>2, <1>3, <1>4, <1>10 DEF AfterInterrupt, AfterRetry, ThreadCancels, opVars
  <1>11. CASE Finish(o) \/ Release(o)
    BY <1>3, <1>11 DEF Finish, Release, ThreadCancels
  <1>12. CASE Consume(o)
    <2>1. at[o] = "stream" /\ at'[o] \in {"stream", "close", "finish"}
      BY <1>1, <1>12, ConsumeTypes DEF Consume
    <2> QED BY <2>1 DEF ThreadCancels
  <1>13. ~RequestFails(o)
    BY DEF RequestFails
  <1> QED BY <1>6, <1>7, <1>8, <1>9, <1>10, <1>11, <1>12, <1>13 DEF ThreadAction

\* A thread goes on from the pause and the interrupts only when they have stopped what is its own.
LEMMA CancelThread ==
  ASSUME IInv, Outs, Calls, Holds, Holds', Setting, Cancel, transport = "up", NEW q \in Ops, ThreadAction(q),
         NEW p \in Ops
  PROVE  Cancelled(p)'
  <1>0. /\ Types /\ Unclosed /\ Cancelled(p) /\ HoldsRoute(p) /\ HoldsRoute(p)' /\ SetsOnce(p)
        /\ turn = 0 \/ turn \in DOMAIN turns
    <2>1. turns \in Seq(Ops \cup {NoOp})
      BY Functions DEF IInv
    <2> QED BY <2>1, Functions DEF IInv, Cancel, Holds, Setting
  <1>1. Apart(q) /\ RouteAndLock(q) /\ Moves(q)
    BY <1>0, ThreadApart, ThreadRoute, ThreadMoves
  <1>2. /\ UNCHANGED <<wire, hand, goal, goalOf, turn, turns, unpaused, unstopped>>
        /\ (Active(p)' <=> Active(p)) /\ (Runs(p)' <=> Runs(p)) /\ (CleanedUp(p)' <=> CleanedUp(p))
        /\ (OnWire(p)' <=> OnWire(p)) /\ \A n : StartOf(p, n)' <=> StartOf(p, n)
        /\ \A j : Behind(p, j)' <=> Behind(p, j)
    BY <1>1 DEF Apart, serverVars, Active, Runs, CleanedUp, StartOf, Mine, OnWire, Behind
  <1>3. CASE p # q
    <2>1. at'[p] = at[p] /\ request'[p] = request[p] /\ reply'[p] = reply[p] /\ state'[p] = state[p]
            /\ (lock' = p => lock = p)
      BY <1>1, <1>3, OpsAssumption DEF Apart, RouteAndLock
    <2>2. RunShown(p)' /\ PausedGoal(p)'
      BY <1>0, <1>2, <2>1 DEF Cancelled, RunShown, PausedGoal, Unseen
    <2>3. Interrupting(p)' /\ Stopped(p)'
      BY <1>0, <1>2, <2>1 DEF Cancelled, Interrupting, Stopped, Unseen, Names
    <2> QED BY <2>2, <2>3 DEF Cancelled
  <1>4. CASE p = q
    <2>0. /\ ThreadCancels(p) /\ Moves(p) /\ RouteAndLock(p)
          /\ state'[p].first = state[p].first /\ state'[p].completed = state[p].completed
          /\ state'[p].current = state[p].current \/ (Finish(p) /\ at[p] \in {"finish", "close"})
          /\ at'[p] \in {"finish", "release"} => state'[p].abandoned = state[p].abandoned
      <3>1. Abandoned(p) => at'[p] = "pause"
        BY <1>0, Functions DEF Abandoned, Go
      <3>2. ThreadAction(p)
        BY <1>4
      <3> QED BY <1>0, <1>1, <1>4, <3>1, <3>2, CancellingThread, StateFields DEF Finish
    <2>1. ~state[p].routing => CleanedUp(p) /\ ~Runs(p) /\ ~Active(p)
      BY <1>0, CancelledUnset DEF SetsOnce
    <2>2. reply[p] # None => request[p] = None /\ ~OnWire(p)
      BY DEF Calls, OneCall
    <2>3. RunShown(p)'
      <3> SUFFICES ASSUME Runs(p), at'[p] \in {"set", "start", "stream", "pause"}
                   PROVE  \/ ~Unseen(p)'
                          \/ \E i \in DOMAIN wire : wire[i].kind = "started" /\ wire[i].turn = turn
                          \/ hand.kind = "observe" /\ hand.op = p /\ hand.note.kind = "started"
                               /\ hand.note.turn = turn
        BY <1>2 DEF RunShown
      <3>1. at[p] \in {"set", "start", "stream", "pause"}
        BY <1>0, <2>0, <2>1 DEF Moves, SetsOnce
      <3>2. Unseen(p)' <=> Unseen(p)
        BY <2>0, <3>1 DEF Unseen
      <3> QED BY <1>0, <3>1, <3>2 DEF Cancelled, RunShown
    <2>4. PausedGoal(p)'
      BY <2>0 DEF ThreadCancels, PausedGoal
    <2>5. Interrupting(p)'
      <3>1. CASE at'[p] = "interrupt"
        <4>1. ~OnWire(p) /\ (Active(p) => p \in unpaused)
          BY <1>0, <2>0, <2>2, <3>1 DEF ThreadCancels, Cancelled, PausedGoal
        <4>2. ~Unseen(p)'
          BY <2>0, <3>1 DEF ThreadCancels, TurnForInterrupt, Unseen
        <4>3. reply'[p] = None /\ \A i \in DOMAIN wire' : ~Answers(p, wire'[i])
          BY <1>2, <2>0, <3>1, <4>1 DEF ThreadCancels, OnWire
        <4> QED BY <1>2, <3>1, <4>1, <4>2, <4>3 DEF Interrupting
      <3>2. CASE at'[p] = "retry"
        <4>1. /\ at[p] = "interrupt" /\ request'[p].kind = "interrupt" /\ request'[p].turn = reply[p].turn
              /\ reply[p] # None /\ (Unseen(p)' <=> Unseen(p))
          BY <2>0, <3>2 DEF ThreadCancels, Unseen
        <4>2. /\ ~Unseen(p) /\ (Active(p) => p \in unpaused)
              /\ Runs(p) /\ p \notin unpaused \cup unstopped => turn = reply[p].turn
          BY <1>0, <4>1 DEF Cancelled, Interrupting, Names
        <4> QED BY <1>2, <3>2, <4>1, <4>2 DEF Interrupting, None
      <3>3. CASE at'[p] \notin {"interrupt", "retry"}
        BY <3>3 DEF Interrupting
      <3> QED BY <3>1, <3>2, <3>3
    <2>6. Stopped(p)'
      <3>1. CASE at'[p] = "finish"
        <4>1. CASE at[p] = "clear"
          BY <1>0, <1>2, <2>1, <3>1, <4>1 DEF Stopped, SetsOnce
        <4>2. CASE at[p] = "set" /\ reply[p] # None /\ reply[p].answer = "invalid"
          BY <1>0, <1>2, <3>1, <4>2, CancelledUnset DEF Stopped, SetsOnce
        <4>3. CASE at[p] = "pause" /\ reply[p] # None /\ TurnForInterrupt(state[p]) = 0
          <5>1. ~OnWire(p) /\ Unseen(p) /\ (Active(p) => p \in unpaused)
            BY <1>0, <2>2, <4>3 DEF Cancelled, PausedGoal, TurnForInterrupt, Unseen
          <5>2. p \notin unpaused => /\ \A j \in DOMAIN wire : ~StartOf(p, wire[j])
                                     /\ hand.kind = "observe" /\ hand.op = p => ~StartOf(p, hand.note)
            BY <1>0, <2>2, <4>3, <5>1 DEF Cancelled, PausedGoal, Behind, OnWire
          <5>3. Runs(p) => p \in unpaused
            <6> SUFFICES ASSUME Runs(p), p \notin unpaused PROVE FALSE
              OBVIOUS
            <6>1. \A n : n.kind = "started" /\ n.turn = turn => StartOf(p, n)
              BY <1>0 DEF StartOf, Mine, Runs
            <6> QED BY <1>0, <4>3, <5>1, <5>2, <6>1 DEF Cancelled, RunShown
          <5> QED BY <1>2, <3>1, <5>1, <5>3 DEF Stopped, CleanedUp
        <4>4. CASE at[p] = "interrupt" /\ reply[p] # None /\ reply[p].answer # "expected"
          BY <1>0, <1>2, <3>1, <4>4 DEF Stopped, CleanedUp, Cancelled, Interrupting, Names
        <4>5. CASE at[p] = "retry" /\ reply[p] # None
          BY <1>0, <1>2, <2>2, <3>1, <4>5 DEF Stopped, CleanedUp, Cancelled, Interrupting
        <4>6. CASE at[p] = "stream"
          <5>1. lock # p /\ ~state[p].abandoned
            BY <1>0, <4>6 DEF HoldsRoute
          <5>2. lock' # p /\ ~state'[p].abandoned
            BY <2>0, <3>1, <4>6, <5>1, OpsAssumption DEF RouteAndLock
          <5> QED BY <3>1, <5>2 DEF Stopped
        <4> QED BY <2>0, <3>1, <4>1, <4>2, <4>3, <4>4, <4>5, <4>6 DEF ThreadCancels
      <3>2. CASE at'[p] = "release"
        <4>1. at[p] \in {"finish", "release"} /\ (lock' = p => lock = p)
          BY <2>0, <3>2 DEF Moves, RouteAndLock
        <4> QED BY <1>0, <1>2, <2>0, <3>2, <4>1 DEF Stopped, Cancelled
      <3>3. CASE at'[p] = "raised" \/ at'[p] = "left"
        <4>1. CASE at[p] \in {"out", "read", "reserve"}
          BY <1>0, <1>2, <2>0, <2>1, <3>3, <4>1 DEF Stopped, SetsOnce, Early
        <4>2. CASE at[p] = "release"
          <5>1. /\ at'[p] = "raised" => lock = p
                /\ ~Abandoned(p)
            BY <2>0, <3>3, <4>2 DEF Moves, Abandoned
          <5>2. state'[p].abandoned = state[p].abandoned
            BY <1>0, <1>4, <5>1, StateFields
          <5> QED BY <1>0, <1>2, <3>3, <4>2, <5>1, <5>2 DEF Stopped, Cancelled
        <4>3. CASE at[p] \in {"raised", "left"}
          BY <1>4, <4>3 DEF ThreadAction, BeginStart, BeginTurn, StartTimesOut, LeaveStream, RequestFails,
             AfterTurn, AfterRead, ReserveGoal, AfterClear, AfterSet, Started, Abandoned, AfterPause,
             AfterInterrupt, AfterRetry, Finish, Release, Consume, Answered
        <4> QED BY <2>0, <3>3, <4>1, <4>2, <4>3 DEF Moves
      <3>4. CASE at'[p] \notin {"finish", "release", "raised", "left"}
        BY <3>4 DEF Stopped
      <3> QED BY <3>1, <3>2, <3>3, <3>4
    <2> QED BY <2>3, <2>4, <2>5, <2>6 DEF Cancelled
  <1> QED BY <1>3, <1>4

\* No step leaves a cancelled start without its clean-up.
LEMMA CancelStep ==
  ASSUME IInv, Types', Outs, Calls, Holds, Holds', Numbered, Setting, Cancel, [Next]_vars
  PROVE  Cancel'
  <1> SUFFICES ASSUME transport' = "up", NEW p \in Ops PROVE Cancelled(p)'
    BY DEF Cancel
  <1>1. CASE ServerAction
    BY <1>1, CancelServer DEF IInv
  <1>2. CASE ReaderAction
    BY <1>2, CancelReader
  <1>3. ASSUME NEW q \in Ops, ThreadAction(q) PROVE Cancelled(p)'
    <2>1. transport = "up"
      BY <1>3, ThreadApart DEF IInv, Apart
    <2> QED BY <1>3, <2>1, CancelThread
  <1>4. CASE UNCHANGED vars
    <2>1. Cancelled(p)
      BY <1>4 DEF Cancel, vars
    <2>2. RunShown(p)' /\ PausedGoal(p)'
      BY <1>4, <2>1 DEF vars, serverVars, opVars, Cancelled, RunShown, PausedGoal, Unseen, Runs, Active, OnWire,
         Behind, StartOf, Mine
    <2>3. Interrupting(p)' /\ Stopped(p)'
      BY <1>4, <2>1 DEF vars, serverVars, opVars, Cancelled, Interrupting, Stopped, Unseen, Runs, Active,
         CleanedUp, Names
    <2> QED BY <2>2, <2>3 DEF Cancelled
  <1> QED BY <1>1, <1>2, <1>3, <1>4, Steps

-----------------------------------------------------------------------------
(* The theorems about the operations at work.                              *)

\* Nothing is under way at first.
LEMMA InitWorking == Init => Working
  <1> SUFFICES ASSUME Init PROVE Working
    OBVIOUS
  <1>0. NoOp \notin Ops /\ hand = None /\ wire = <<>> /\ DOMAIN turns = {}
    BY OpsAssumption DEF Init
  <1>1. ASSUME NEW o \in Ops
        PROVE  /\ request[o] = None /\ reply[o] = None /\ at[o] = "out" /\ queue[o] = <<>> /\ out[o] = <<>>
               /\ ~state[o].routing /\ ~state[o].finished /\ ~state[o].abandoned
               /\ state[o].first = 0 /\ state[o].current = 0 /\ state[o].completed = 0
               /\ ~cursor[o].started /\ cursor[o].last = None /\ cursor[o].failed = None
               /\ ~cursor[o].cleared /\ cursor[o].status = "none"
    BY DEF Init
  <1>2. Outs
    BY DEF Init, Outs
  <1>3. Calls
    BY <1>0, <1>1 DEF Init, Calls, OneCall, OnWire
  <1>4. Holds
    BY <1>0, <1>1 DEF Holds, HoldsRoute, InHand, None
  <1>5. Numbered
    BY <1>0, <1>1 DEF Numbered, None
  <1>6. ASSUME NEW o \in Ops PROVE SetsOnce(o) /\ Owned(o) /\ Cancelled(o)
    <2>1. Unset(o) /\ Unseen(o) /\ Untouched(o)
      BY <1>0, <1>1 DEF Init, Unset, Unseen, Untouched, Ended, Terminal
    <2>2. SetsOnce(o)
      <3>1. /\ \A i \in DOMAIN queue[o] : ~TurnNote(queue[o][i])
            /\ hand.kind # "put"
        BY <1>0, <1>1 DEF None
      <3> QED BY <1>1, <2>1, <3>1 DEF SetsOnce
    <2>3. Owned(o)
      BY <1>0 DEF Init, Owned, Clean
    <2>4. Cancelled(o)
      BY <1>1 DEF Cancelled, RunShown, PausedGoal, Interrupting, Stopped
    <2> QED BY <2>2, <2>3, <2>4
  <1> QED BY <1>2, <1>3, <1>4, <1>5, <1>6 DEF Working, Setting, Own, Cancel

\* What is under way with the operations is as Working says in every reachable state.
THEOREM GoalWorking == Spec => [](IInv /\ Working)
  <1>1. IInv /\ IInv' /\ Working /\ [Next]_vars => Working'
    <2> SUFFICES ASSUME IInv, IInv', Working, [Next]_vars PROVE Working'
      OBVIOUS
    <2>1. /\ Types /\ Types' /\ Unclosed
          /\ Outs /\ Calls /\ Holds /\ Numbered /\ Setting /\ Own /\ Cancel
      BY DEF IInv, Working
    <2>2. Outs' /\ Calls' /\ Numbered'
      BY <2>1, OutsStep, CallsStep, NumberedStep
    <2>3. Holds' /\ Setting' /\ Own'
      BY <2>1, <2>2, HoldsStep, SettingStep, OwnStep
    <2>4. Cancel'
      BY <2>1, <2>3, CancelStep
    <2> QED BY <2>2, <2>3, <2>4 DEF Working
  <1> QED BY GoalInvariant, InitWorking, <1>1, PTL DEF Spec

\* When start_goal_operation raises, its goal is not active unless the server did not
\* carry its pause out, and no turn of the goal runs unless it did not carry out the pause
\* or an interrupt: nothing is lost between a goal/set that failed after taking effect, a
\* first turn that is on its way, and the one retry of the interrupt.
THEOREM RaisedStartCleansUp == Spec => []FailedStartLeavesNothing
  <1>1. IInv /\ Working => FailedStartLeavesNothing
    BY DEF Working, Cancel, Cancelled, Stopped, FailedStartLeavesNothing
  <1> QED BY GoalWorking, <1>1, PTL

\* So it is when the clean-up of a start whose task was cancelled has released the thread.
THEOREM AbandonedStartCleansUp == Spec => []AbandonedStartLeavesNothing
  <1>1. IInv /\ Working => AbandonedStartLeavesNothing
    BY DEF Working, Cancel, Cancelled, Stopped, AbandonedStartLeavesNothing
  <1> QED BY GoalWorking, <1>1, PTL

\* cancel_goal_operation pauses no goal and interrupts no turn but its own, from the
\* answer to goal/clear until the reader has seen that goal settled and given the thread
\* free, whatever the server refuses.
THEOREM CancelStopsItsOwn == Spec => CancelReachesItsOwn
  <1> DEFINE Reaches ==
        \A o \in Ops :
           /\ request[o].kind \in {"pause", "interrupt"} /\ request'[o] = None
           /\ state[o].routing /\ ~state[o].finished
           => /\ goal' # goal => goalOf = o
              /\ turn' # turn => turns[turn] = o
  <1>1. IInv /\ Working /\ [Next]_vars => [Reaches]_vars
    BY ReachesItsOwn DEF Working
  <1> QED BY GoalWorking, <1>1, PTL DEF Spec, CancelReachesItsOwn
=============================================================================
