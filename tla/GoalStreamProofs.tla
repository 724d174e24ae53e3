--------------------------- MODULE GoalStreamProofs ---------------------------
(***************************************************************************)
(* What the stream of a goal operation shows, for any number of operations *)
(* and turns: one logical turn, made of the operation's own turns, which   *)
(* ends only when the server has none of them left to run.                 *)
(***************************************************************************)
EXTENDS GoalOperationProofs

USE DEF historyVars

-----------------------------------------------------------------------------
(* The invariant: what an operation that no turn has overtaken is told.    *)

\* Every notification of a turn that is due to the operation, or that its stream has
\* taken, is about a turn of its goal.
OwnNote(o, n) == TurnNote(n) => Mine(o, n)
OwnNotes(o) ==
    /\ Clean(o) => \A j \in DOMAIN wire : Due(o, j) => OwnNote(o, wire[j])
    /\ HandDue(o) /\ (state[o].routing \/ Clean(o)) => OwnNote(o, hand.note)
    /\ \A i \in DOMAIN queue[o] : OwnNote(o, queue[o][i])
    /\ cursor[o].last # None => Mine(o, cursor[o].last)
    /\ cursor[o].failed # None => Mine(o, cursor[o].failed)
    /\ \A i \in DOMAIN out[o] : Mine(o, out[o][i])

\* No turn completes for the stream before one has started for it: neither in its
\* queue, nor from the reader's hands, nor on the wire.
Starts(s) == \E i \in DOMAIN s : s[i].kind = "started"
StartsFirst(s) ==
    \A j \in DOMAIN s : s[j].kind = "completed" => \E i \in DOMAIN s : i < j /\ s[i].kind = "started"
Begun(o) == cursor[o].started \/ Starts(queue[o])
BegunInHand(o) == Begun(o) \/ (InHand(o) /\ hand.note.kind = "started")
Shown(o) ==
    state[o].routing =>
      /\ cursor[o].started \/ StartsFirst(queue[o])
      /\ InHand(o) /\ hand.note.kind = "completed" => Begun(o)
      /\ route = o /\ transport = "up" => /\ BegunInHand(o) \/ StartsFirst(wire)
                                          /\ turn # 0 => BegunInHand(o) \/ Starts(wire)

\* While the operation's goal is active, no end of a goal is between the server and its
\* stream; before its first turn starts, what is left of an earlier goal may be, but
\* then "active" is still to come, in front of that start: in the queue, in the
\* reader's hands or on the wire.
ResetNote(n) == n.kind = "goal" /\ n.status = "active"
Plain(s) == \A i \in DOMAIN s : ~EndNote(s[i])
Resets(s) == \E i \in DOMAIN s : /\ ResetNote(s[i])
                                 /\ \A l \in DOMAIN s : (l < i => s[l].kind # "started") /\ (l > i => ~EndNote(s[l]))
HandPlain(o) == InHand(o) => ~EndNote(hand.note)
WirePlain(o) == route = o => Plain(wire)
NoEnd(o) == ~Ended(cursor[o]) /\ Plain(queue[o]) /\ HandPlain(o) /\ WirePlain(o)
ResetQueued(o) == ~cursor[o].started /\ Resets(queue[o]) /\ HandPlain(o) /\ WirePlain(o)
ResetInHand(o) ==
    ~cursor[o].started /\ ~Starts(queue[o]) /\ InHand(o) /\ ResetNote(hand.note) /\ WirePlain(o)
ResetOnWire(o) ==
    /\ ~cursor[o].started /\ ~Starts(queue[o]) /\ (InHand(o) => hand.note.kind # "started")
    /\ route = o => Resets(wire)
Fresh(o) == Active(o) => NoEnd(o) \/ ResetQueued(o) \/ ResetInHand(o) \/ ResetOnWire(o)

\* What the stream has returned, by where it is: nothing, the start, or the start and
\* the completion, and then the goal is over or its last turn was interrupted.
Closing == {"close", "release completed", "completed"}
Told(o) ==
    /\ at[o] \notin Closing =>
          IF cursor[o].started THEN Len(out[o]) = 1 /\ out[o][1].kind = "started" ELSE out[o] = <<>>
    /\ at[o] \in Closing =>
          /\ Len(out[o]) = 2 /\ out[o][1].kind = "started" /\ out[o][2].kind = "completed"
          /\ cursor[o].last.status # "interrupted" => ~Active(o)
    /\ cursor[o].last # None => cursor[o].started
    /\ cursor[o].failed # None => cursor[o].last # None

Telling == \A o \in Ops \ overtaken : OwnNotes(o) /\ Shown(o) /\ Fresh(o) /\ Told(o)

-----------------------------------------------------------------------------
(* Only the operation's own turns are told.                                *)

\* A turn keeps the goal it was started for.
LEMMA MineStays ==
  ASSUME Types, [Next]_vars, NEW o
  PROVE  \A n : (Mine(o, n) => Mine(o, n)') /\ (OwnNote(o, n) => OwnNote(o, n)')
  BY TurnsGrow DEF Mine, OwnNote

\* No note of a turn is due to an operation before a goal of its own is set.
LEMMA UnsetNote ==
  ASSUME NEW o, NEW n, Unset(o), OwnNote(o, n)
  PROVE  ~TurnNote(n)
  BY DEF Unset, OwnNote, Mine

\* An operation that a turn has overtaken stays overtaken.
LEMMA OvertakenStays ==
  ASSUME Types, [Next]_vars
  PROVE  overtaken \subseteq overtaken'
  <1>1. CASE ServerAction
    <2>1. \A q : request[q].kind = "clear" /\ overtaken' = (IF turn = 0 THEN overtaken ELSE overtaken \cup {q})
                 => overtaken \subseteq overtaken'
      OBVIOUS
    <2> QED BY <1>1, <2>1, ServerFrame DEF Worked, Served, serverVars
  <1>2. CASE ReaderAction
    BY <1>2 DEF ReaderAction, Reader, ReadResponse, ReadNotification, Observe, PutObserved, ReaderReleases,
                FailGoal, FailAll, serverVars
  <1>3. ASSUME NEW o \in Ops, ThreadAction(o) PROVE overtaken \subseteq overtaken'
    BY <1>3 DEF ThreadAction, BeginStart, BeginTurn, StartTimesOut, LeaveStream, RequestFails, AfterTurn, AfterRead,
                ReserveGoal, AfterClear, AfterSet, Started, Abandoned, AfterPause, AfterInterrupt, AfterRetry,
                Finish, Release, Consume, serverVars
  <1>4. CASE UNCHANGED vars
    BY <1>4 DEF vars, serverVars
  <1> QED BY <1>1, <1>2, <1>3, <1>4, Steps

\* What the server sends of turns, once the thread is clean, is about the operation's.
LEMMA SentOwn ==
  ASSUME IInv, Holds, Numbered, Own, NEW o \in Ops \ overtaken, Clean(o),
         Worked \/ \E q \in Ops : Served(q) /\ request[q] # None,
         Calls
  PROVE  \E S : Sent(S) /\ \A x \in S : OwnNote(o, x)'
  <1>0. Types /\ Owned(o) /\ o # NoOp
    BY OpsAssumption DEF IInv, Own
  <1>t. /\ DOMAIN turns = 1..Len(turns) /\ turn \in 0..Len(turns) /\ turns \in Seq(Ops \cup {NoOp})
        /\ \A x : Append(turns, x)[Len(turns) + 1] = x /\ Len(turns) + 1 \in DOMAIN Append(turns, x)
    <2>1. turns \in Seq(Ops \cup {NoOp})
      BY <1>0, Functions
    <2> QED BY <1>0, <2>1, Functions
  <1>1. /\ goal = "active" => goalOf = o
        /\ turn # 0 => turns[turn] = o
    BY <1>0 DEF Owned, Foreign
  <1>2. \A q, answer, k, status : OwnNote(o, Response(q, answer, k))' /\ OwnNote(o, Goal(status))'
          /\ OwnNote(o, Cleared)'
    BY DEF OwnNote, TurnNote, Response, Goal, Cleared, Note
  <1>3. turn # 0 /\ turns' = turns => \A n : n.turn = turn => OwnNote(o, n)'
    BY <1>t, <1>1 DEF OwnNote, Mine
  <1>6. \A k, status : Note("completed", k, status).turn = k /\ Note("started", k, status).turn = k
    BY DEF Note
  <1>4. CASE Worked
    <2>1. CASE goal = "active" /\ turns' = Append(turns, goalOf) /\ turn' = Len(turns) + 1
                 /\ Sent({Note("started", turn', "none")})
      <3>1. \A n : n.turn = Len(turns) + 1 => OwnNote(o, n)'
        BY <1>t, <1>1, <2>1 DEF OwnNote, Mine
      <3> QED BY <1>6, <2>1, <3>1
    <2>2. CASE turn # 0 /\ turns' = turns
                 /\ \E status \in {"completed", "failed"} : Sent({Note("completed", turn, status)})
      BY <1>3, <1>6, <2>2
    <2>3. CASE Sent({Goal("complete")})
      BY <1>2, <2>3
    <2> QED BY <1>4, <2>1, <2>2, <2>3 DEF Worked
  <1>5. ASSUME NEW q \in Ops, Served(q), request[q] # None
        PROVE  \E S : Sent(S) /\ \A x \in S : OwnNote(o, x)'
    <2>1. request[q].kind # "turn"
      BY <1>0, <1>5, RequestPlace DEF IInv, TurnsAndGoalsExclude, Clean
    <2>2. CASE \E answer, k : Sent({Response(q, answer, k)})
      BY <1>2, <2>2
    <2>3. CASE \E answer : Sent({Response(q, answer, 0), Cleared})
      BY <1>2, <2>3
    <2>4. CASE \E answer, status : Sent({Response(q, answer, 0), Goal(status)})
      BY <1>2, <2>4
    <2>5. CASE turn = request[q].turn /\ turns' = turns
                 /\ Sent({Response(q, "ok", 0), Note("completed", turn, "interrupted")})
               /\ request[q].kind = "interrupt" /\ turn # 0
      BY <1>2, <1>3, <1>6, <2>5
    <2>6. request[q].kind = "interrupt" => request[q].turn # 0
      BY DEF Numbered
    <2> QED BY <1>5, <2>1, <2>2, <2>3, <2>4, <2>5, <2>6 DEF Served
  <1> QED BY <1>4, <1>5

\* A stream that takes a notification of its own shows and keeps only what is its own.
LEMMA TookOwn ==
  ASSUME NEW o, NEW n, Took(o, n), OwnNote(o, n), out[o] \in Seq(Events),
         cursor[o].last # None => Mine(o, cursor[o].last),
         cursor[o].failed # None => Mine(o, cursor[o].failed),
         \A i \in DOMAIN out[o] : Mine(o, out[o][i])
  PROVE  /\ cursor'[o].last # None => Mine(o, cursor'[o].last)
         /\ cursor'[o].failed # None => Mine(o, cursor'[o].failed)
         /\ \A i \in DOMAIN out'[o] : Mine(o, out'[o][i])
  <1>1. ASSUME NEW e, out'[o] = Append(out[o], e), Mine(o, e)
        PROVE  \A i \in DOMAIN out'[o] : Mine(o, out'[o][i])
    <2>1. \A i \in DOMAIN out'[o] : (i \in DOMAIN out[o] /\ out'[o][i] = out[o][i]) \/ out'[o][i] = e
      BY <1>1
    <2> QED BY <1>1, <2>1
  <1>2. n.kind \in {"started", "completed"} => Mine(o, n)
    BY DEF OwnNote, TurnNote
  <1>3. ASSUME NEW c, NEW m, Mine(o, m), c.failed # None => Mine(o, c.failed)
        PROVE  Mine(o, Completion(c, m))
    <2>1. Completion(c, m).turn = m.turn \/ (c.failed # None /\ Completion(c, m).turn = c.failed.turn)
      BY DEF Completion, Note
    <2> QED BY <1>3, <2>1 DEF Mine
  <1>4. CASE n.kind = "started"
    BY <1>1, <1>2, <1>4 DEF Took
  <1>5. CASE n.kind = "completed"
    <2>1. cursor'[o].last = n /\ cursor'[o].failed \in {n, cursor[o].failed} /\ Mine(o, n)
      BY <1>2, <1>5 DEF Took
    <2>2. Mine(o, Completion(cursor'[o], n))
      BY <1>3, <2>1
    <2>3. out'[o] = out[o] \/ out'[o] = Append(out[o], Completion(cursor'[o], n))
      BY <1>5 DEF Took
    <2> QED BY <1>1, <2>1, <2>2, <2>3
  <1>6. CASE n.kind \in {"goal", "cleared"}
    <2>1. cursor'[o].last = cursor[o].last /\ cursor'[o].failed = cursor[o].failed
      BY <1>6 DEF Took
    <2>2. out'[o] = out[o] \/ (cursor'[o].last # None /\ out'[o] = Append(out[o], Completion(cursor'[o], cursor'[o].last)))
      BY <1>6 DEF Took
    <2>3. cursor'[o].last # None => Mine(o, Completion(cursor'[o], cursor'[o].last))
      BY <1>3, <2>1
    <2> QED BY <1>1, <2>1, <2>2, <2>3
  <1>7. CASE n.kind = "failure"
    BY <1>7 DEF Took
  <1> QED BY <1>4, <1>5, <1>6, <1>7 DEF Took

\* Turns are routed to an operation whose thread is clean.
LEMMA Routed ==
  ASSUME IInv, Calls, Setting, NEW o \in Ops, AfterClear(o), state'[o].routing, transport = "up"
  PROVE  Clean(o)
  <1>1. at[o] = "clear" /\ reply[o] # None /\ ~state[o].routing /\ ~state[o].finished
    BY DEF AfterClear, Answered, Setting, SetsOnce, Early, Releasing, Over
  <1>2. request[o] = None /\ ~OnWire(o)
    BY <1>1 DEF Calls, OneCall
  <1>3. reply[o].answer = "ok"
    BY <1>1 DEF AfterClear
  <1>4. route = o
    BY <1>1 DEF IInv, RouteIsTheOperations
  <1> QED BY <1>1, <1>2, <1>3, <1>4 DEF Clean, Granted, OnWire

\* A thread's step leaves the notification in the reader's hands what it was to it.
LEMMA HandThread ==
  ASSUME IInv, Outs, Calls, Holds, Setting, NEW o \in Ops, NEW q \in Ops, ThreadAction(q),
         HandDue(o)', state'[o].routing \/ Clean(o)'
  PROVE  HandDue(o) /\ (state[o].routing \/ Clean(o)) /\ hand' = hand
  <1>0. Types /\ Unclosed
    BY DEF IInv
  <1>1. Apart(q)
    BY <1>0, ThreadApart
  <1>2. hand' = hand /\ InHand(o) /\ (OnWire(o)' <=> OnWire(o)) /\ transport = "up"
    BY <1>1 DEF Apart, HandDue, InHand, OnWire, Calls
  <1>3. CASE Clean(o)'
    BY <1>2, <1>3, DueThread
  <1>4. CASE state'[o].routing /\ state[o].routing
    BY <1>2, <1>4 DEF Setting, SetsOnce, HandDue
  <1>5. CASE state'[o].routing /\ ~state[o].routing
    <2>1. AfterClear(o)
      BY <1>0, <1>1, <1>5, StateFields, OpsAssumption DEF Apart
    <2>2. reply[o] # None
      BY <2>1 DEF AfterClear, Answered
    <2> QED BY <1>2, <1>5, <2>1, <2>2, Routed DEF HandDue, Calls, OneCall
  <1> QED BY <1>3, <1>4, <1>5

\* An operation whose thread is clean after a step had it clean before, except that the
\* server has just carried its goal/clear out.
LEMMA CleanBefore ==
  ASSUME IInv, Outs, Calls, Setting, [Next]_vars, NEW o \in Ops, Clean(o)',
         ~(at[o] = "clear" /\ request[o] # None /\ request'[o] = None)
  PROVE  Clean(o)
  <1>0. Types /\ Unclosed
    BY DEF IInv
  <1>1. CASE ServerAction
    <2>1. UNCHANGED <<reply, route, at, state, transport>>
      BY <1>0, <1>1, ServerFrame
    <2>2. \A i \in DOMAIN wire : i \in DOMAIN wire' /\ wire'[i] = wire[i]
      BY <1>0, <1>1, ServerFrame, WorkedAlone, ServedOnce, SentNew
    <2> QED BY <2>1, <2>2 DEF Clean, Granted
  <1>2. CASE ReadResponse \/ ReadNotification
    <2>1. wire # <<>> /\ wire' = Tail(wire) /\ UNCHANGED <<at, request, route, state, transport>>
      BY <1>2 DEF ReadResponse, ReadNotification, opVars
    <2> SUFFICES ASSUME Granted(o)' PROVE Granted(o)
      BY <2>1 DEF Clean
    <2>2. /\ 1 \in DOMAIN wire /\ Head(wire) = wire[1]
          /\ \A i \in DOMAIN wire : i = 1 \/ (i - 1 \in DOMAIN wire' /\ wire'[i - 1] = wire[i])
      BY <1>0, <2>1, WireRead
    <2>3. CASE Answers(o, wire[1])
      <3>1. reply'[o] = wire[1] /\ wire[1] # None
        BY <1>0, <1>2, <2>2, <2>3, Functions DEF ReadResponse, ReadNotification, Answers, None
      <3>2. reply[o] = None
        BY <2>2, <2>3 DEF Calls, OneCall, OnWire
      <3> QED BY <2>1, <2>2, <3>1, <3>2 DEF Granted
    <2>4. CASE ~Answers(o, wire[1])
      <3>1. reply'[o] = reply[o]
        BY <1>0, <1>2, <2>2, <2>4, Functions DEF ReadResponse, ReadNotification, Answers
      <3> QED BY <2>1, <2>2, <2>4, <3>1 DEF Granted
    <2> QED BY <2>3, <2>4
  <1>3. CASE Observe \/ PutObserved \/ ReaderReleases \/ FailGoal
    <2>1. UNCHANGED <<at, request, reply, wire, transport>> /\ route = o
      <3>1. o # NoOp /\ route' = o
        BY OpsAssumption DEF Clean
      <3> QED BY <1>3, <3>1 DEF Observe, PutObserved, ReaderReleases, FailGoal, UnregisterGoal, serverVars
    <2>2. state'[o].routing = state[o].routing
      BY <1>0, <1>3, ObservedFields, FailFields DEF Saw, PutObserved, ReaderReleases, opVars
    <2> QED BY <2>1, <2>2 DEF Clean, Granted
  <1>4. CASE FailAll
    BY <1>4 DEF FailAll, Clean
  <1>5. ASSUME NEW q \in Ops, ThreadAction(q) PROVE Clean(o)
    BY <1>5, DueThread
  <1>6. CASE UNCHANGED vars
    BY <1>6 DEF vars, opVars, Clean, Granted
  <1> QED BY <1>1, <1>2, <1>3, <1>4, <1>5, <1>6, Steps DEF ReaderAction, Reader

\* No step brings another goal's turn to the operation.
LEMMA OwnNotesStep ==
  ASSUME IInv, Outs, Calls, Holds, Numbered, Setting, Own, [Next]_vars,
         NEW o \in Ops \ overtaken, OwnNotes(o)
  PROVE  OwnNotes(o)'
  <1>0. Types /\ Unclosed /\ NoOp \notin Ops /\ o \in Ops
    BY OpsAssumption DEF IInv
  <1>m. \A n : (Mine(o, n) => Mine(o, n)') /\ (OwnNote(o, n) => OwnNote(o, n)')
    BY <1>0, MineStays
  <1>n. OwnNote(o, Failure) /\ OwnNote(o, Closed)
    BY DEF OwnNote, TurnNote, Failure, Closed, Note
  <1>1. ASSUME cursor'[o] = cursor[o], out'[o] = out[o],
               Clean(o)' => \A j \in DOMAIN wire' : Due(o, j)' => OwnNote(o, wire[j])',
               HandDue(o)' /\ (state'[o].routing \/ Clean(o)') => OwnNote(o, hand.note)',
               \A i \in DOMAIN queue'[o] : (\E j \in DOMAIN queue[o] : queue'[o][i] = queue[o][j]) \/ OwnNote(o, queue'[o][i])
        PROVE  OwnNotes(o)'
    <2>1. \A i \in DOMAIN queue'[o] : OwnNote(o, queue[o][i])'
      BY <1>m, <1>1 DEF OwnNotes
    <2>2. /\ cursor'[o].last # None => Mine(o, cursor[o].last)'
          /\ cursor'[o].failed # None => Mine(o, cursor[o].failed)'
          /\ \A i \in DOMAIN out'[o] : Mine(o, out[o][i])'
      BY <1>m, <1>1 DEF OwnNotes
    <2> QED BY <1>1, <2>1, <2>2 DEF OwnNotes
  <1>2. CASE ServerAction
    <2>0. /\ UNCHANGED <<route, at, state, queue, cursor, out, hand, transport>> /\ transport = "up"
          /\ \/ Worked /\ request' = request
             \/ \E q \in Ops : /\ Served(q) /\ request[q] # None /\ request'[q] = None
                               /\ \A p \in Ops \ {q} : request'[p] = request[p]
      BY <1>0, <1>2, ServerFrame
    <2>1. CASE at[o] = "clear" /\ request[o] # None /\ request'[o] = None
      <3>1. Served(o) /\ request[o].kind = "clear" /\ ~OnWire(o)
        BY <2>0, <2>1, RequestPlace
      <3>0. PICK answer : Sent({Response(o, answer, 0)}) \/ Sent({Response(o, answer, 0), Cleared})
        BY <3>1 DEF Served
      <3>2. PICK S : Sent(S) /\ Response(o, answer, 0) \in S /\ \A x \in S : OwnNote(o, x)'
        <4>1. OwnNote(o, Response(o, answer, 0))' /\ OwnNote(o, Cleared)'
          BY DEF OwnNote, TurnNote, Response, Cleared, Note
        <4> QED BY <3>0, <4>1
      <3>3. PICK i \in DOMAIN wire' : i \notin DOMAIN wire /\ wire'[i] = Response(o, answer, 0)
        BY <3>2, SentNew
      <3>4. Answers(o, wire'[i])
        BY <3>3 DEF Answers, Response
      <3>5. \A j \in DOMAIN wire' : Due(o, j)' => wire'[j] \in S
        <4>1. \A j \in DOMAIN wire : j < i /\ j \in Nat /\ i \in Nat
          BY <3>2, <3>3, SentNew
        <4>2. \A j \in DOMAIN wire' : Due(o, j)' => i < j
          BY <2>0, <2>1, <3>4 DEF Due
        <4>3. \A j \in DOMAIN wire' : i < j => j \notin DOMAIN wire
          BY <4>1
        <4> QED BY <3>2, <4>2, <4>3, SentNew
      <3>6. ~HandDue(o)'
        BY <2>0, <2>1, <3>4 DEF HandDue, OnWire
      <3> QED BY <1>1, <2>0, <3>2, <3>5, <3>6
    <2>2. CASE ~(at[o] = "clear" /\ request[o] # None /\ request'[o] = None)
      <3>1. PICK S : Sent(S) /\ (Clean(o) => \A x \in S : OwnNote(o, x)')
        <4>1. CASE Clean(o)
          BY <2>0, <4>1, SentOwn
        <4>2. \E S : Sent(S)
          BY <1>0, <2>0, WorkedAlone, ServedOnce
        <4> QED BY <4>1, <4>2
      <3>2. /\ \A j \in DOMAIN wire : Due(o, j)' => Due(o, j)
            /\ OnWire(o) => OnWire(o)'
            /\ \A j \in DOMAIN wire' : (j \in DOMAIN wire /\ wire'[j] = wire[j]) \/ wire'[j] \in S
        BY <2>0, <3>1, DueGrows
      <3>4. Clean(o)' => \A j \in DOMAIN wire' : Due(o, j)' => OwnNote(o, wire[j])'
        <4> SUFFICES ASSUME Clean(o)', NEW j \in DOMAIN wire', Due(o, j)' PROVE OwnNote(o, wire[j])'
          OBVIOUS
        <4>1. Clean(o)
          BY <2>2, CleanBefore
        <4>2. CASE wire'[j] \in S
          BY <3>1, <4>1, <4>2
        <4>3. CASE j \in DOMAIN wire /\ wire'[j] = wire[j]
          BY <1>m, <3>2, <4>1, <4>3 DEF OwnNotes
        <4> QED BY <3>2, <4>2, <4>3
      <3>5. HandDue(o)' /\ (state'[o].routing \/ Clean(o)') => OwnNote(o, hand.note)'
        BY <1>m, <2>0, <2>2, <3>2, CleanBefore DEF HandDue, InHand, OwnNotes
      <3> QED BY <1>1, <2>0, <3>4, <3>5
    <2> QED BY <2>1, <2>2
  <1>3. CASE ReadResponse \/ ReadNotification
    <2>1. /\ wire # <<>> /\ wire' = Tail(wire)
               /\ UNCHANGED <<at, request, route, state, transport, queue, cursor, out>>
          /\ transport = "up"
          /\ \/ hand' = None
             \/ hand' = [kind |-> "observe", op |-> route, note |-> Head(wire)] /\ Head(wire).kind # "response"
      BY <1>3 DEF ReadResponse, ReadNotification, serverVars, opVars, streamVars
    <2>2. /\ \A j \in DOMAIN wire' : Due(o, j)' => j + 1 \in DOMAIN wire /\ wire'[j] = wire[j + 1] /\ Due(o, j + 1)
          /\ wire[1].kind # "response" /\ (at[o] = "clear" => ~OnWire(o)') => Due(o, 1)
          /\ 1 \in DOMAIN wire /\ Head(wire) = wire[1]
      BY <1>0, <2>1, DueRead
    <2>3. Clean(o)' => \A j \in DOMAIN wire' : Due(o, j)' => OwnNote(o, wire[j])'
      BY <1>m, <2>1, <2>2, CleanBefore DEF OwnNotes
    <2>4. HandDue(o)' /\ (state'[o].routing \/ Clean(o)') => OwnNote(o, hand.note)'
      <3> SUFFICES ASSUME HandDue(o)', state[o].routing \/ Clean(o)' PROVE OwnNote(o, hand.note)'
        BY <2>1
      <3>1. route = o /\ hand'.note = wire[1] /\ wire[1].kind # "response"
        BY <2>1, <2>2 DEF HandDue, InHand, None
      <3>2. Clean(o) /\ Due(o, 1)
        <4>1. state[o].routing => Clean(o)
          BY <2>1, <3>1 DEF Clean
        <4> QED BY <2>1, <2>2, <3>1, <4>1, CleanBefore DEF HandDue
      <3>3. OwnNote(o, wire[1])
        BY <2>2, <3>2 DEF OwnNotes
      <3> QED BY <1>m, <3>1, <3>3
    <2> QED BY <1>1, <2>1, <2>3, <2>4
  <1>4. CASE Observe
    <2>1. UNCHANGED <<at, request, route, wire, transport, queue, cursor, out>>
      BY <1>4 DEF Observe, serverVars, streamVars
    <2>2. /\ Clean(o)' => Clean(o)
          /\ \A j : Due(o, j)' <=> Due(o, j)
          /\ OnWire(o)' <=> OnWire(o)
          /\ state'[o].routing = state[o].routing
      BY <1>0, <1>4, <2>1, CleanBefore, ObservedFields DEF Due, OnWire, Saw
    <2>3. HandDue(o)' => HandDue(o) /\ hand'.note = hand.note
      BY <1>0, <1>4, <2>1, <2>2, ObservedFields DEF HandDue, InHand, None
    <2> QED BY <1>1, <1>m, <2>1, <2>2, <2>3 DEF OwnNotes
  <1>5. CASE PutObserved
    <2>1. UNCHANGED <<at, request, route, wire, transport, cursor, out, state>>
      BY <1>5 DEF PutObserved, serverVars, streamVars
    <2>2. /\ Clean(o)' => Clean(o)
          /\ \A j : Due(o, j)' <=> Due(o, j)
          /\ ~HandDue(o)'
      BY <1>0, <1>5, <2>1, CleanBefore, HandPut DEF Due, HandDue, InHand
    <2>3. \A i \in DOMAIN queue'[o] : (\E j \in DOMAIN queue[o] : queue'[o][i] = queue[o][j]) \/ OwnNote(o, queue'[o][i])
      <3>1. CASE hand.op # o
        BY <1>0, <1>5, <3>1, HandPut
      <3>2. CASE hand.op = o
        <4>1. queue'[o] = Append(queue[o], hand.note) /\ hand.kind = "put"
          BY <1>0, <1>5, <3>2, HandPut
        <4>2. OwnNote(o, hand.note)
          <5>1. CASE ~state[o].routing
            BY <3>2, <4>1, <5>1 DEF Setting, SetsOnce, OwnNote
          <5>2. CASE state[o].routing
            <6>1. at[o] # "clear"
              BY <5>2 DEF Setting, SetsOnce
            <6> QED BY <3>2, <4>1, <5>2, <6>1 DEF HandDue, InHand, OwnNotes
          <5> QED BY <5>1, <5>2
        <4> QED BY <1>0, <4>1, <4>2, Enqueued
      <3> QED BY <3>1, <3>2
    <2> QED BY <1>1, <1>m, <2>1, <2>2, <2>3 DEF OwnNotes
  <1>6. CASE ReaderReleases \/ FailGoal
    <2>1. UNCHANGED <<at, request, wire, transport, cursor, out>> /\ ~HandDue(o)' /\ (route' = o => route = o)
      BY <1>0, <1>6 DEF ReaderReleases, FailGoal, UnregisterGoal, serverVars, streamVars, HandDue, InHand, None
    <2>2. /\ Clean(o)' => Clean(o)
          /\ \A j : Due(o, j)' <=> Due(o, j)
      BY <2>1, CleanBefore DEF Due
    <2>3. \A i \in DOMAIN queue'[o] : (\E j \in DOMAIN queue[o] : queue'[o][i] = queue[o][j]) \/ OwnNote(o, queue'[o][i])
      <3>1. CASE queue' = queue
        BY <3>1
      <3>2. CASE FailGoal
        <4>1. queue'[o] = queue[o] \/ queue'[o] = Append(queue[o], Failure)
          BY <1>0, <3>2, HandFail
        <4> QED BY <1>0, <1>n, <4>1, Enqueued
      <3> QED BY <1>6, <3>1, <3>2 DEF ReaderReleases, opVars
    <2> QED BY <1>1, <1>m, <2>1, <2>2, <2>3 DEF OwnNotes
  <1>7. CASE FailAll
    <2>1. UNCHANGED <<queue, cursor, out>> /\ ~Clean(o)' /\ ~HandDue(o)'
      BY <1>7 DEF FailAll, opVars, streamVars, Clean, HandDue, InHand, None
    <2> QED BY <1>1, <2>1
  <1>8. ASSUME NEW q \in Ops, ThreadAction(q) PROVE OwnNotes(o)'
    <2>1. Clean(o)' => \A j \in DOMAIN wire' : Due(o, j)' => OwnNote(o, wire[j])'
      <3> SUFFICES ASSUME Clean(o)' PROVE \A j \in DOMAIN wire' : Due(o, j)' => OwnNote(o, wire[j])'
        OBVIOUS
      <3>1. /\ Clean(o) /\ wire' = wire
            /\ \A j \in DOMAIN wire : Due(o, j)' => Due(o, j)
        BY <1>0, <1>8, DueThread
      <3> QED BY <1>m, <3>1 DEF OwnNotes
    <2>2. HandDue(o)' /\ (state'[o].routing \/ Clean(o)') => OwnNote(o, hand.note)'
      BY <1>0, <1>m, <1>8, HandThread DEF OwnNotes
    <2>3. CASE q # o
      <3>1. queue'[o] = queue[o] /\ cursor'[o] = cursor[o] /\ out'[o] = out[o]
        BY <1>0, <1>8, <2>3, ThreadApart DEF Apart
      <3> QED BY <1>1, <2>1, <2>2, <3>1
    <2>4. CASE q = o /\ ~Consume(o)
      <3>1. cursor'[o] = cursor[o] /\ out'[o] = out[o]
              /\ (queue'[o] = queue[o] \/ queue'[o] = Append(queue[o], Closed))
        BY <1>0, <1>8, <2>4, ThreadStream
      <3>2. \A i \in DOMAIN queue'[o] : (\E j \in DOMAIN queue[o] : queue'[o][i] = queue[o][j]) \/ OwnNote(o, queue'[o][i])
        BY <1>0, <1>n, <3>1, Enqueued
      <3> QED BY <1>1, <2>1, <2>2, <3>1, <3>2
    <2>5. CASE q = o /\ Consume(o)
      <3>1. /\ 1 \in DOMAIN queue[o] /\ Took(o, queue[o][1])
            /\ \A i \in DOMAIN queue'[o] : i + 1 \in DOMAIN queue[o] /\ queue'[o][i] = queue[o][i + 1]
        BY <1>0, <2>5, Consumed
      <3>2. /\ cursor'[o].last # None => Mine(o, cursor'[o].last)
            /\ cursor'[o].failed # None => Mine(o, cursor'[o].failed)
            /\ \A i \in DOMAIN out'[o] : Mine(o, out'[o][i])
        BY <1>0, <3>1, TookOwn DEF OwnNotes, Outs
      <3>3. /\ cursor'[o].last # None => Mine(o, cursor[o].last)'
            /\ cursor'[o].failed # None => Mine(o, cursor[o].failed)'
            /\ \A i \in DOMAIN out'[o] : Mine(o, out[o][i])'
        BY <1>m, <3>2
      <3>4. \A i \in DOMAIN queue'[o] : OwnNote(o, queue[o][i])'
        BY <1>m, <3>1 DEF OwnNotes
      <3> QED BY <2>1, <2>2, <3>3, <3>4 DEF OwnNotes
    <2> QED BY <2>3, <2>4, <2>5
  <1>9. CASE UNCHANGED vars
    <2>1. /\ UNCHANGED <<cursor, out, queue, hand, wire>> /\ state' = state
          /\ (HandDue(o)' <=> HandDue(o)) /\ \A j : Due(o, j)' <=> Due(o, j)
      BY <1>9 DEF vars, opVars, streamVars, Due, HandDue, InHand, OnWire
    <2>2. Clean(o)' <=> Clean(o)
      BY <1>9 DEF vars, opVars, Clean, Granted
    <2> QED BY <1>1, <1>m, <2>1, <2>2 DEF OwnNotes
  <1> QED BY <1>2, <1>3, <1>4, <1>5, <1>6, <1>7, <1>8, <1>9, Steps DEF ReaderAction, Reader

-----------------------------------------------------------------------------
(* A start comes before the completions.                                   *)

\* A sequence of notifications without its first, and with more behind it.
Shifted(s, t) ==
    /\ 1 \in DOMAIN s
    /\ \A i \in DOMAIN t : i \in Nat /\ i + 1 \in DOMAIN s /\ t[i] = s[i + 1] /\ i + 1 # 1
    /\ \A i \in DOMAIN s : i \in Nat /\ (i = 1 \/ (i - 1 \in DOMAIN t /\ t[i - 1] = s[i] /\ i > 1))
Grown(s, t) ==
    /\ DOMAIN s \subseteq Nat /\ DOMAIN t \subseteq Nat
    /\ \A i \in DOMAIN s : i \in DOMAIN t /\ t[i] = s[i]
    /\ \A i \in DOMAIN t : i \notin DOMAIN s => \A j \in DOMAIN s : j < i

\* Starts stay in front of the completions when the first notification is taken.
LEMMA StartsShift ==
  ASSUME NEW s, NEW t, Shifted(s, t)
  PROVE  /\ StartsFirst(s) => s[1].kind # "completed"
         /\ s[1].kind # "started" => (Starts(s) <=> Starts(t)) /\ (StartsFirst(s) => StartsFirst(t))
         /\ s[1].kind = "started" => Starts(s)
  <1>1. StartsFirst(s) => s[1].kind # "completed"
    BY DEF StartsFirst, Shifted
  <1>2. ASSUME s[1].kind # "started" PROVE Starts(s) <=> Starts(t)
    <2>1. ASSUME Starts(s) PROVE Starts(t)
      <3>1. PICK i \in DOMAIN s : s[i].kind = "started"
        BY <2>1 DEF Starts
      <3>2. i - 1 \in DOMAIN t /\ t[i - 1] = s[i]
        BY <1>2, <3>1 DEF Shifted
      <3> QED BY <3>1, <3>2 DEF Starts
    <2>2. Starts(t) => Starts(s)
      BY DEF Starts, Shifted
    <2> QED BY <2>1, <2>2
  <1>3. ASSUME s[1].kind # "started", StartsFirst(s), NEW j \in DOMAIN t, t[j].kind = "completed"
        PROVE  \E i \in DOMAIN t : i < j /\ t[i].kind = "started"
    <2>1. j + 1 \in DOMAIN s /\ s[j + 1].kind = "completed" /\ j \in Nat
      BY <1>3 DEF Shifted
    <2>2. PICK i \in DOMAIN s : i < j + 1 /\ s[i].kind = "started"
      BY <1>3, <2>1 DEF StartsFirst
    <2>3. i - 1 \in DOMAIN t /\ t[i - 1] = s[i] /\ i \in Nat
      BY <1>3, <2>2 DEF Shifted
    <2>4. i - 1 < j
      BY <2>1, <2>2, <2>3
    <2> QED BY <2>2, <2>3, <2>4
  <1>4. s[1].kind = "started" => Starts(s)
    BY DEF Starts, Shifted
  <1>5. s[1].kind # "started" => (StartsFirst(s) => StartsFirst(t))
    BY <1>3 DEF StartsFirst
  <1> QED BY <1>1, <1>2, <1>4, <1>5

\* So they do when notifications follow.
LEMMA StartsGrow ==
  ASSUME NEW s, NEW t, Grown(s, t)
  PROVE  /\ Starts(s) => Starts(t)
         /\ Starts(s) /\ StartsFirst(s) => StartsFirst(t)
         /\ StartsFirst(s) /\ (\A i \in DOMAIN t : i \notin DOMAIN s => t[i].kind # "completed") => StartsFirst(t)
         /\ ~Starts(s) /\ (\A i \in DOMAIN t : i \notin DOMAIN s => t[i].kind # "started") => ~Starts(t)
  <1>1. Starts(s) => Starts(t)
    BY DEF Starts, Grown
  <1>2. ASSUME StartsFirst(s), NEW j \in DOMAIN t, t[j].kind = "completed", j \in DOMAIN s
        PROVE  \E i \in DOMAIN t : i < j /\ t[i].kind = "started"
    BY <1>2 DEF StartsFirst, Grown
  <1>3. ASSUME Starts(s), NEW j \in DOMAIN t, j \notin DOMAIN s
        PROVE  \E i \in DOMAIN t : i < j /\ t[i].kind = "started"
    BY <1>3 DEF Starts, Grown
  <1>4. ~Starts(s) /\ (\A i \in DOMAIN t : i \notin DOMAIN s => t[i].kind # "started") => ~Starts(t)
    BY DEF Starts, Grown
  <1>5. Starts(s) /\ StartsFirst(s) => StartsFirst(t)
    BY <1>2, <1>3 DEF StartsFirst
  <1>6. StartsFirst(s) /\ (\A i \in DOMAIN t : i \notin DOMAIN s => t[i].kind # "completed") => StartsFirst(t)
    <2> SUFFICES ASSUME StartsFirst(s), \A i \in DOMAIN t : i \notin DOMAIN s => t[i].kind # "completed",
                        NEW j \in DOMAIN t, t[j].kind = "completed"
                 PROVE  \E i \in DOMAIN t : i < j /\ t[i].kind = "started"
      BY DEF StartsFirst
    <2> QED BY <1>2
  <1> QED BY <1>1, <1>4, <1>5, <1>6

\* The wire and the queues shift and grow in this way.
LEMMA WireShifts ==
  ASSUME Types, wire # <<>>, wire' = Tail(wire)
  PROVE  Shifted(wire, wire') /\ Head(wire) = wire[1]
  BY WireRead DEF Shifted

\* What is sent lengthens the wire, and only by what was sent.
LEMMA WireGrows ==
  ASSUME NEW S, Sent(S)
  PROVE  Grown(wire, wire') /\ \A i \in DOMAIN wire' : i \notin DOMAIN wire => wire'[i] \in S
  BY SentNew DEF Grown

\* What is put in a queue lengthens it, and only by that.
LEMMA QueueGrows ==
  ASSUME Types, NEW o \in Ops, NEW e, queue'[o] = Append(queue[o], e)
  PROVE  /\ Grown(queue[o], queue'[o]) /\ \A i \in DOMAIN queue'[o] : i \notin DOMAIN queue[o] => queue'[o][i] = e
         /\ \E i \in DOMAIN queue'[o] : queue'[o][i] = e /\ i \notin DOMAIN queue[o]
  <1>1. /\ \A i \in DOMAIN queue'[o] : (i \in DOMAIN queue[o] /\ queue'[o][i] = queue[o][i])
                                        \/ (i \notin DOMAIN queue[o] /\ queue'[o][i] = e)
        /\ \A i \in DOMAIN queue[o] : i \in DOMAIN queue'[o] /\ queue'[o][i] = queue[o][i]
        /\ \E i \in DOMAIN queue'[o] : queue'[o][i] = e /\ i \notin DOMAIN queue[o]
        /\ \A i \in DOMAIN queue'[o] : i \notin DOMAIN queue[o] => \A j \in DOMAIN queue[o] : j < i
        /\ DOMAIN queue[o] \subseteq Nat /\ DOMAIN queue'[o] \subseteq Nat
    BY Enqueued
  <1> QED BY <1>1 DEF Grown

\* What is taken from a queue was its first.
LEMMA QueueShifts ==
  ASSUME Types, Unclosed, Outs, NEW o \in Ops, Consume(o)
  PROVE  Shifted(queue[o], queue'[o]) /\ Took(o, queue[o][1]) /\ at[o] = "stream"
  BY Consumed DEF Shifted

\* A turn completes that runs, and runs once it is said to have started.
LEMMA SentTurns ==
  ASSUME Types, Numbered, Worked \/ \E q \in Ops : Served(q)
  PROVE  \E S : /\ Sent(S) /\ (\A x \in S : x.kind = "completed" => turn # 0)
                /\ turn' # 0 => turn # 0 \/ \E x \in S : x.kind = "started"
  <1>1. \A answer, k, status, q : /\ Response(q, answer, k).kind # "completed" /\ Goal(status).kind # "completed"
                                  /\ Cleared.kind # "completed" /\ Note("started", k, status).kind = "started"
    BY DEF Response, Goal, Cleared, Note
  <1>2. ASSUME NEW k, NEW T, Sent(T),
               T = {Note("started", k, "none")} \/ \E a : T = {a, Note("started", k, "none")} /\ a.kind # "completed"
        PROVE  \E S : /\ Sent(S) /\ (\A x \in S : x.kind = "completed" => turn # 0)
                      /\ turn' # 0 => turn # 0 \/ \E x \in S : x.kind = "started"
    BY <1>1, <1>2
  <1>3. ASSUME NEW T, Sent(T), turn' = 0 \/ turn' = turn, turn # 0 \/ \A x \in T : x.kind # "completed"
        PROVE  \E S : /\ Sent(S) /\ (\A x \in S : x.kind = "completed" => turn # 0)
                      /\ turn' # 0 => turn # 0 \/ \E x \in S : x.kind = "started"
    BY <1>3
  <1>4. CASE Worked
    <2>1. CASE Sent({Note("started", turn', "none")})
      BY <1>2, <2>1
    <2>2. CASE turn # 0 /\ turn' = 0
                 /\ \E status \in {"completed", "failed"} : Sent({Note("completed", turn, status)})
      BY <1>3, <2>2
    <2>3. CASE turn' = turn /\ Sent({Goal("complete")})
      BY <1>1, <1>3, <2>3
    <2> QED BY <1>4, <2>1, <2>2, <2>3 DEF Worked
  <1>5. ASSUME NEW q \in Ops, Served(q)
        PROVE  \E S : /\ Sent(S) /\ (\A x \in S : x.kind = "completed" => turn # 0)
                      /\ turn' # 0 => turn # 0 \/ \E x \in S : x.kind = "started"
    <2>1. CASE Sent({Response(q, "ok", turn'), Note("started", turn', "none")})
      BY <1>1, <1>2, <2>1
    <2>2. CASE turn' = turn /\ \E answer, k : Sent({Response(q, answer, k)})
      BY <1>1, <1>3, <2>2
    <2>3. CASE turn' = turn /\ \E answer : Sent({Response(q, answer, 0), Cleared})
      BY <1>1, <1>3, <2>3
    <2>4. CASE turn' = turn /\ \E answer, status : Sent({Response(q, answer, 0), Goal(status)})
      BY <1>1, <1>3, <2>4
    <2>5. CASE turn # 0 /\ turn' = 0 /\ Sent({Response(q, "ok", 0), Note("completed", turn, "interrupted")})
      BY <1>3, <2>5
    <2>6. request[q].kind = "interrupt" => request[q].turn # 0
      BY <1>5 DEF Numbered
    <2> QED BY <1>5, <2>1, <2>2, <2>3, <2>4, <2>5, <2>6 DEF Served, serverVars
  <1> QED BY <1>4, <1>5

\* A thread loses no start in front of a completion.
LEMMA ShownThread ==
  ASSUME IInv, Outs, Calls, Holds, Setting, Own, NEW o \in Ops \ overtaken, OwnNotes(o), Shown(o),
         NEW q \in Ops, ThreadAction(q)
  PROVE  Shown(o)'
  <1>0. Types /\ Unclosed /\ NoOp \notin Ops /\ o \in Ops /\ SetsOnce(o) /\ HoldsRoute(o) /\ Owned(o)
    BY OpsAssumption DEF IInv, Setting, Holds, Own
  <1>1. Apart(q) /\ RouteAndLock(q)
    BY <1>0, ThreadApart, ThreadRoute
  <1>2. UNCHANGED <<wire, hand, transport, turn>> /\ (InHand(o)' <=> InHand(o))
    BY <1>1 DEF Apart, serverVars, InHand
  <1>3. state'[o].routing /\ ~state[o].routing => AfterClear(o) /\ q = o /\ at[o] = "clear"
    BY <1>0, <1>1, StateFields DEF Apart, AfterClear, Answered
  <1>4. route' = o /\ state[o].routing => route = o
    BY <1>0, <1>1 DEF RouteAndLock, SetsOnce, Early
  <1>5. ASSUME state[o].routing, Begun(o) => Begun(o)', cursor'[o].started \/ StartsFirst(queue'[o])
        PROVE  Shown(o)'
    <2>1. BegunInHand(o) => BegunInHand(o)'
      BY <1>2, <1>5 DEF BegunInHand
    <2> QED BY <1>2, <1>4, <1>5, <2>1 DEF Shown
  <1>6. CASE state[o].routing /\ ~(q = o /\ Consume(o))
    <2>1. cursor'[o] = cursor[o] /\ (queue'[o] = queue[o] \/ queue'[o] = Append(queue[o], Closed))
      BY <1>0, <1>1, <1>6, ThreadStream DEF Apart
    <2>2. CASE queue'[o] = queue[o]
      BY <1>5, <1>6, <2>1, <2>2 DEF Shown, Begun
    <2>3. CASE queue'[o] = Append(queue[o], Closed)
      <3>1. Grown(queue[o], queue'[o])
              /\ \A i \in DOMAIN queue'[o] : i \notin DOMAIN queue[o] => queue'[o][i].kind # "completed"
        <4>1. Closed.kind # "completed"
          BY DEF Closed, Note
        <4> QED BY <1>0, <2>3, <4>1, QueueGrows
      <3>2. (Starts(queue[o]) => Starts(queue'[o])) /\ (StartsFirst(queue[o]) => StartsFirst(queue'[o]))
        BY <3>1, StartsGrow
      <3> QED BY <1>5, <1>6, <2>1, <3>2 DEF Shown, Begun
    <2> QED BY <2>1, <2>2, <2>3
  <1>7. CASE state[o].routing /\ q = o /\ Consume(o)
    <2>1. Shifted(queue[o], queue'[o]) /\ Took(o, queue[o][1])
      BY <1>0, <1>7, QueueShifts
    <2>2. (cursor[o].started => cursor'[o].started) /\ (queue[o][1].kind = "started" => cursor'[o].started)
      BY <2>1 DEF Took
    <2>3. queue[o][1].kind # "started" => /\ Starts(queue[o]) => Starts(queue'[o])
                                          /\ StartsFirst(queue[o]) => StartsFirst(queue'[o])
      BY <2>1, StartsShift
    <2> QED BY <1>5, <1>7, <2>2, <2>3 DEF Shown, Begun
  <1>8. CASE state'[o].routing /\ ~state[o].routing
    <2>1. /\ at[o] = "clear" /\ ~state[o].finished /\ Unset(o) /\ reply[o] # None
          /\ queue' = queue
      BY <1>0, <1>3, <1>8 DEF SetsOnce, Releasing, Over, AfterClear, Answered
    <2>2. request[o] = None /\ ~OnWire(o)
      BY <2>1 DEF Calls, OneCall
    <2>3. ~Starts(queue'[o]) /\ StartsFirst(queue'[o])
      BY <1>0, <1>8, <2>1 DEF SetsOnce, Starts, StartsFirst, TurnNote
    <2>0. transport = "up" => Clean(o)
      BY <1>3, <1>8, Routed
    <2>4. InHand(o) => hand.note.kind # "completed"
      <3>1. InHand(o) => transport = "up"
        BY DEF Calls, InHand
      <3> QED BY <2>0, <2>1, <2>2, <3>1, UnsetNote DEF OwnNotes, HandDue, TurnNote
    <2>5. route' = route
      BY <1>3, <1>8 DEF AfterClear
    <2>6. ASSUME route = o, transport = "up" PROVE StartsFirst(wire) /\ turn = 0
      <3>1. Clean(o) /\ \A j \in DOMAIN wire : Due(o, j)
        BY <2>0, <2>2, <2>6 DEF Due, OnWire
      <3>2. \A j \in DOMAIN wire : ~TurnNote(wire[j])
        BY <2>1, <3>1, UnsetNote DEF OwnNotes
      <3>3. ~Foreign(o)
        BY <1>0, <3>1 DEF Owned
      <3>4. turn = 0 \/ turn \in DOMAIN turns
        <4>1. turns \in Seq(Ops \cup {NoOp})
          BY <1>0, Functions
        <4> QED BY <1>0, <4>1, Functions
      <3> QED BY <2>1, <3>2, <3>3, <3>4 DEF StartsFirst, TurnNote, Unset, Foreign
    <2> QED BY <1>2, <2>3, <2>4, <2>5, <2>6 DEF Shown
  <1> QED BY <1>6, <1>7, <1>8 DEF Shown

\* No step brings a completion to the stream before a start.
LEMMA ShownStep ==
  ASSUME IInv, Outs, Calls, Holds, Numbered, Setting, Own, [Next]_vars,
         NEW o \in Ops \ overtaken, OwnNotes(o), Shown(o)
  PROVE  Shown(o)'
  <1>0. Types /\ Unclosed /\ NoOp \notin Ops /\ o \in Ops
    BY OpsAssumption DEF IInv
  <1>1. CASE ServerAction
    <2>1. /\ UNCHANGED <<route, state, queue, cursor, hand, transport>> /\ transport = "up"
          /\ Worked \/ \E q \in Ops : Served(q)
      BY <1>0, <1>1, ServerFrame
    <2>2. (Begun(o)' <=> Begun(o)) /\ (BegunInHand(o)' <=> BegunInHand(o)) /\ (InHand(o)' <=> InHand(o))
      BY <2>1 DEF Begun, BegunInHand, InHand
    <2>3. PICK S : /\ Sent(S) /\ (\A x \in S : x.kind = "completed" => turn # 0)
                   /\ turn' # 0 => turn # 0 \/ \E x \in S : x.kind = "started"
      BY <1>0, <2>1, SentTurns
    <2>4. /\ Starts(wire) => Starts(wire')
          /\ Starts(wire) /\ StartsFirst(wire) => StartsFirst(wire')
          /\ StartsFirst(wire) /\ turn = 0 => StartsFirst(wire')
          /\ (\E x \in S : x.kind = "started") => Starts(wire')
      <3>1. Grown(wire, wire') /\ \A i \in DOMAIN wire' : i \notin DOMAIN wire => wire'[i] \in S
        BY <2>3, WireGrows
      <3>2. (\E x \in S : x.kind = "started") => Starts(wire')
        BY <2>3, SentNew DEF Starts
      <3> QED BY <2>3, <3>1, <3>2, StartsGrow
    <2> QED BY <2>1, <2>2, <2>3, <2>4 DEF Shown
  <1>2. CASE ReadResponse
    <2>1. /\ UNCHANGED <<route, state, queue, cursor, hand, transport, turn>> /\ Head(wire).kind = "response"
          /\ wire # <<>> /\ wire' = Tail(wire)
      BY <1>2 DEF ReadResponse, opVars, streamVars, serverVars
    <2>2. (Starts(wire) <=> Starts(wire')) /\ (StartsFirst(wire) => StartsFirst(wire'))
      BY <1>0, <2>1, WireShifts, StartsShift
    <2>3. (Begun(o)' <=> Begun(o)) /\ (BegunInHand(o)' <=> BegunInHand(o)) /\ (InHand(o)' <=> InHand(o))
      BY <2>1 DEF Begun, BegunInHand, InHand
    <2> QED BY <2>1, <2>2, <2>3 DEF Shown
  <1>3. CASE ReadNotification
    <2>1. /\ UNCHANGED <<route, state, queue, cursor, transport, turn>> /\ hand = None /\ transport = "up"
          /\ wire # <<>> /\ wire' = Tail(wire)
          /\ hand' = IF route = NoOp THEN None ELSE [kind |-> "observe", op |-> route, note |-> Head(wire)]
      BY <1>3 DEF ReadNotification, opVars, streamVars, serverVars
    <2>2. /\ StartsFirst(wire) => wire[1].kind # "completed"
          /\ wire[1].kind # "started" => (Starts(wire) <=> Starts(wire')) /\ (StartsFirst(wire) => StartsFirst(wire'))
          /\ Head(wire) = wire[1]
      BY <1>0, <2>1, WireShifts, StartsShift
    <2>3. (Begun(o)' <=> Begun(o)) /\ (BegunInHand(o) <=> Begun(o))
      BY <2>1 DEF Begun, BegunInHand, InHand, None
    <2>4. (InHand(o)' => route = o /\ hand'.note = wire[1]) /\ (route = o => InHand(o)' /\ hand'.note = wire[1])
      BY <1>0, <2>1, <2>2 DEF InHand, None
    <2>5. BegunInHand(o)' <=> Begun(o) \/ (route = o /\ wire[1].kind = "started")
      BY <2>3, <2>4 DEF BegunInHand
    <2> QED BY <2>1, <2>2, <2>3, <2>4, <2>5 DEF Shown
  <1>4. CASE Observe
    <2>1. UNCHANGED <<route, queue, cursor, wire, transport, turn>>
      BY <1>4 DEF Observe, serverVars, streamVars
    <2>2. state'[o].routing = state[o].routing
      BY <1>0, <1>4, ObservedFields DEF Saw
    <2>3. state[o].routing => /\ InHand(o)' <=> InHand(o)
                              /\ InHand(o) => hand'.note = hand.note
      <3>1. CASE hand.op = o
        BY <1>0, <1>4, <3>1, ObservedFields DEF InHand
      <3>2. CASE hand.op # o
        BY <1>0, <1>4, <3>2, ObservedFields DEF InHand, None
      <3> QED BY <3>1, <3>2
    <2>4. state[o].routing => (Begun(o)' <=> Begun(o)) /\ (BegunInHand(o)' <=> BegunInHand(o))
      BY <2>1, <2>3 DEF Begun, BegunInHand
    <2> QED BY <2>1, <2>2, <2>3, <2>4 DEF Shown
  <1>5. ASSUME UNCHANGED <<cursor, transport, turn>>, state'[o].routing = state[o].routing, ~InHand(o)',
               route' = o => route = o,
               wire' = wire \/ transport' # "up",
               cursor[o].started \/ StartsFirst(queue[o]) => cursor[o].started \/ StartsFirst(queue'[o]),
               BegunInHand(o) => Begun(o)'
        PROVE  Shown(o)'
    BY <1>5 DEF Shown, BegunInHand
  <1>6. CASE PutObserved
    <2>1. UNCHANGED <<route, cursor, wire, transport, turn, state>>
      BY <1>6 DEF PutObserved, serverVars, streamVars
    <2>2. ~InHand(o)' /\ (InHand(o) <=> hand.op = o)
      BY <1>0, <1>6, HandPut DEF InHand
    <2>3. CASE hand.op # o
      <3>1. queue'[o] = queue[o]
        BY <1>0, <1>6, <2>3, HandPut
      <3> QED BY <1>5, <2>1, <2>2, <2>3, <3>1 DEF Begun, BegunInHand
    <2>4. CASE hand.op = o
      <3>1. /\ Grown(queue[o], queue'[o])
                 /\ \A i \in DOMAIN queue'[o] : i \notin DOMAIN queue[o] => queue'[o][i] = hand.note
            /\ \E i \in DOMAIN queue'[o] : queue'[o][i] = hand.note
        <4>1. queue'[o] = Append(queue[o], hand.note)
          BY <1>0, <1>6, <2>4, HandPut
        <4> QED BY <1>0, <4>1, QueueGrows
      <3>2. (Starts(queue[o]) => Starts(queue'[o])) /\ (hand.note.kind = "started" => Starts(queue'[o]))
        BY <3>1, StartsGrow DEF Starts
      <3>3. BegunInHand(o) => Begun(o)'
        BY <2>1, <2>4, <3>2 DEF Begun, BegunInHand
      <3>4. state[o].routing /\ StartsFirst(queue[o]) => cursor[o].started \/ StartsFirst(queue'[o])
        <4>1. hand.note.kind # "completed" => (StartsFirst(queue[o]) => StartsFirst(queue'[o]))
          BY <3>1, StartsGrow
        <4>2. Starts(queue[o]) => (StartsFirst(queue[o]) => StartsFirst(queue'[o]))
          BY <3>1, StartsGrow
        <4> QED BY <2>2, <2>4, <4>1, <4>2 DEF Shown, Begun
      <3> QED BY <1>5, <2>1, <2>2, <3>3, <3>4 DEF Shown
    <2> QED BY <2>3, <2>4
  <1>7. CASE ReaderReleases
    <2>1. UNCHANGED <<cursor, wire, transport, turn, state, queue>> /\ ~InHand(o)' /\ ~InHand(o)
            /\ (route' = o => route = o)
      BY <1>0, <1>7, HandIs DEF ReaderReleases, serverVars, streamVars, opVars, InHand, None, UnregisterGoal
    <2> QED BY <1>5, <2>1 DEF Begun, BegunInHand
  <1>8. CASE FailAll
    BY <1>0, <1>8 DEF FailAll, Shown, Begun, InHand, None, opVars, streamVars
  <1>9. CASE FailGoal
    <2>1. UNCHANGED <<cursor, wire, transport, turn, route>> /\ ~InHand(o)' /\ ~InHand(o)
      BY <1>0, <1>9 DEF FailGoal, serverVars, streamVars, InHand, None
    <2>2. state'[o].routing = state[o].routing
      BY <1>0, <1>9, FailFields
    <2>3. (Starts(queue[o]) => Starts(queue'[o])) /\ (StartsFirst(queue[o]) => StartsFirst(queue'[o]))
      <3>1. CASE queue'[o] = queue[o]
        BY <3>1
      <3>2. CASE queue'[o] = Append(queue[o], Failure)
        <4>1. Failure.kind # "completed"
          BY DEF Failure, Note
        <4>2. Grown(queue[o], queue'[o])
                /\ \A i \in DOMAIN queue'[o] : i \notin DOMAIN queue[o] => queue'[o][i] = Failure
          BY <1>0, <3>2, QueueGrows
        <4> QED BY <4>1, <4>2, StartsGrow
      <3> QED BY <1>0, <1>9, <3>1, <3>2, HandFail
    <2> QED BY <1>5, <2>1, <2>2, <2>3 DEF Begun, BegunInHand
  <1>10. ASSUME NEW q \in Ops, ThreadAction(q) PROVE Shown(o)'
    BY <1>0, <1>10, ShownThread
  <1>11. CASE UNCHANGED vars
    BY <1>11 DEF vars, serverVars, opVars, streamVars, Shown, Begun, BegunInHand, InHand
  <1> QED BY <1>1, <1>2, <1>3, <1>4, <1>6, <1>7, <1>8, <1>9, <1>10, <1>11, Steps DEF ReaderAction, Reader

-----------------------------------------------------------------------------
(* The end of an earlier goal is overruled.                                *)

\* What is left of an earlier goal's end when the first notification is taken.
LEMMA EndsShift ==
  ASSUME NEW s, NEW t, Shifted(s, t)
  PROVE  /\ Plain(s) => ~EndNote(s[1]) /\ Plain(t)
         /\ Resets(s) => \/ ResetNote(s[1]) /\ Plain(t)
                         \/ s[1].kind # "started" /\ Resets(t)
         /\ s[1].kind = "response" /\ Resets(s) => Resets(t)
         /\ ~Starts(s) => s[1].kind # "started" /\ ~Starts(t)
  <1>1. Plain(s) => ~EndNote(s[1]) /\ Plain(t)
    BY DEF Plain, Shifted
  <1>2. ASSUME Resets(s)
        PROVE  \/ ResetNote(s[1]) /\ Plain(t)
               \/ s[1].kind # "started" /\ s[1].kind # "goal" /\ Resets(t)
               \/ s[1].kind # "started" /\ Resets(t)
    <2>1. PICK i \in DOMAIN s : /\ ResetNote(s[i])
                                /\ \A l \in DOMAIN s : (l < i => s[l].kind # "started") /\ (l > i => ~EndNote(s[l]))
      BY <1>2 DEF Resets
    <2>2. CASE i = 1
      <3>1. \A l \in DOMAIN t : l + 1 \in DOMAIN s /\ t[l] = s[l + 1] /\ l + 1 > 1
        BY DEF Shifted
      <3>2. Plain(t)
        BY <2>1, <2>2, <3>1 DEF Plain
      <3> QED BY <2>1, <2>2, <3>2
    <2>3. CASE i # 1
      <3>1. i - 1 \in DOMAIN t /\ t[i - 1] = s[i] /\ i > 1 /\ i \in Nat
        BY <2>3 DEF Shifted
      <3>2. ASSUME NEW l \in DOMAIN t
            PROVE  (l < i - 1 => t[l].kind # "started") /\ (l > i - 1 => ~EndNote(t[l]))
        <4>1. l + 1 \in DOMAIN s /\ t[l] = s[l + 1] /\ l \in Nat
          BY DEF Shifted
        <4>2. (l < i - 1 => l + 1 < i) /\ (l > i - 1 => l + 1 > i)
          BY <3>1, <4>1
        <4> QED BY <2>1, <4>1, <4>2
      <3>3. Resets(t)
        BY <2>1, <3>1, <3>2 DEF Resets
      <3>4. s[1].kind # "started"
        BY <2>1, <3>1 DEF Shifted
      <3> QED BY <3>3, <3>4
    <2> QED BY <2>2, <2>3
  <1>3. ~Starts(s) => s[1].kind # "started" /\ ~Starts(t)
    BY StartsShift
  <1> QED BY <1>1, <1>2, <1>3 DEF ResetNote

\* An end stays in front of the "active" that overrules it when no end follows.
LEMMA EndsGrow ==
  ASSUME NEW s, NEW t, Grown(s, t)
  PROVE  /\ Plain(s) /\ (\A i \in DOMAIN t : i \notin DOMAIN s => ~EndNote(t[i])) => Plain(t)
         /\ Resets(s) /\ (\A i \in DOMAIN t : i \notin DOMAIN s => ~EndNote(t[i])) => Resets(t)
  <1>1. Plain(s) /\ (\A i \in DOMAIN t : i \notin DOMAIN s => ~EndNote(t[i])) => Plain(t)
    BY DEF Plain, Grown
  <1>2. ASSUME Resets(s), \A i \in DOMAIN t : i \notin DOMAIN s => ~EndNote(t[i])
        PROVE  Resets(t)
    <2>1. PICK i \in DOMAIN s : /\ ResetNote(s[i])
                                /\ \A l \in DOMAIN s : (l < i => s[l].kind # "started") /\ (l > i => ~EndNote(s[l]))
      BY <1>2 DEF Resets
    <2>2. i \in DOMAIN t /\ t[i] = s[i] /\ i \in Nat
      BY DEF Grown
    <2>3. ASSUME NEW l \in DOMAIN t
          PROVE  (l < i => t[l].kind # "started") /\ (l > i => ~EndNote(t[l]))
      <3>1. CASE l \in DOMAIN s
        BY <2>1, <3>1 DEF Grown
      <3>2. CASE l \notin DOMAIN s
        <4>1. i < l /\ l \in Nat
          BY <3>2 DEF Grown
        <4> QED BY <1>2, <2>2, <3>2, <4>1
      <3> QED BY <3>1, <3>2
    <2> QED BY <2>1, <2>2, <2>3 DEF Resets
  <1> QED BY <1>1, <1>2

\* While a goal stays active the server says nothing of an end.
LEMMA SentPlain ==
  ASSUME Types, goal = "active", goal' = "active", Worked \/ \E q \in Ops : Served(q)
  PROVE  \E S : Sent(S) /\ \A x \in S : ~EndNote(x)
  <1>1. \A answer, k, status, q : /\ ~EndNote(Response(q, answer, k)) /\ ~EndNote(Goal("active"))
                                  /\ ~EndNote(Note("started", k, status)) /\ ~EndNote(Note("completed", k, status))
    BY DEF EndNote, Response, Goal, Note
  <1>2. CASE Worked
    <2>1. \E k, status : Sent({Note("started", k, status)}) \/ Sent({Note("completed", k, status)})
      BY <1>2 DEF Worked
    <2> QED BY <1>1, <2>1
  <1>3. ASSUME NEW q \in Ops, Served(q) PROVE \E S : Sent(S) /\ \A x \in S : ~EndNote(x)
    <2>1. \/ \E answer, k : Sent({Response(q, answer, k)})
          \/ \E answer, k, status, j : \/ Sent({Response(q, answer, k), Note("started", j, status)})
                                       \/ Sent({Response(q, answer, k), Note("completed", j, status)})
          \/ \E answer, k : Sent({Response(q, answer, k), Goal("active")})
      BY <1>3 DEF Served
    <2>2. CASE \E answer, k : Sent({Response(q, answer, k)})
      BY <1>1, <2>2
    <2>3. CASE \E answer, k, status, j : \/ Sent({Response(q, answer, k), Note("started", j, status)})
                                         \/ Sent({Response(q, answer, k), Note("completed", j, status)})
      <3>1. PICK answer, k, status, j : \/ Sent({Response(q, answer, k), Note("started", j, status)})
                                        \/ Sent({Response(q, answer, k), Note("completed", j, status)})
        BY <2>3
      <3>2. /\ \A x \in {Response(q, answer, k), Note("started", j, status)} : ~EndNote(x)
            /\ \A x \in {Response(q, answer, k), Note("completed", j, status)} : ~EndNote(x)
        BY <1>1
      <3> QED BY <3>1, <3>2
    <2>4. CASE \E answer, k : Sent({Response(q, answer, k), Goal("active")})
      <3>1. PICK answer, k : Sent({Response(q, answer, k), Goal("active")})
        BY <2>4
      <3>2. \A x \in {Response(q, answer, k), Goal("active")} : ~EndNote(x)
        BY <1>1
      <3> QED BY <3>1, <3>2
    <2> QED BY <2>1, <2>2, <2>3, <2>4
  <1> QED BY <1>2, <1>3

\* Setting the goal sends the "active" that overrules what was before.
LEMMA FreshServer ==
  ASSUME IInv, Types', Outs, Calls, Numbered, Setting, NEW o \in Ops, OwnNotes(o), Fresh(o), ServerAction
  PROVE  Fresh(o)'
  <1> SUFFICES ASSUME Active(o)'
               PROVE  NoEnd(o)' \/ ResetQueued(o)' \/ ResetInHand(o)' \/ ResetOnWire(o)'
    BY DEF Fresh
  <1>0. /\ Types /\ UNCHANGED <<route, at, state, queue, cursor, hand, transport>> /\ transport = "up"
        /\ \/ Worked /\ request' = request
           \/ \E q \in Ops : /\ Served(q) /\ request[q] # None /\ request'[q] = None
                             /\ \A r \in Ops \ {q} : request'[r] = request[r]
    BY ServerFrame DEF IInv
  <1>1. CASE Active(o)
    <2>1. PICK S : Sent(S) /\ \A x \in S : ~EndNote(x)
      BY <1>0, <1>1, SentPlain DEF Active
    <2>2. (Plain(wire) => Plain(wire')) /\ (Resets(wire) => Resets(wire'))
      <3>1. Grown(wire, wire') /\ \A i \in DOMAIN wire' : i \notin DOMAIN wire => ~EndNote(wire'[i])
        BY <2>1, WireGrows
      <3> QED BY <3>1, EndsGrow
    <2>3. (HandPlain(o) => HandPlain(o)') /\ (WirePlain(o) => WirePlain(o)') /\ (InHand(o)' <=> InHand(o))
      BY <1>0, <2>2 DEF HandPlain, WirePlain, InHand
    <2> QED BY <1>0, <1>1, <2>2, <2>3 DEF Fresh, NoEnd, ResetQueued, ResetInHand, ResetOnWire
  <1>2. CASE ~Active(o)
    <2>1. Served(o) /\ request[o].kind = "set" /\ request[o] # None
      <3>1. Served(o) /\ request[o].kind = "set"
        BY <1>0, <1>2, ServerGoal DEF ServerEffect
      <3> QED BY <3>1 DEF None
    <2>2. at[o] = "set" /\ Unset(o) /\ Untouched(o) /\ state[o].routing
      BY <2>1, RequestPlace DEF Setting, SetsOnce
    <2>3. PICK answer : Sent({Response(o, answer, 0), Goal("active")})
      <3>1. ~UNCHANGED serverVars
        BY <1>2 DEF Active, serverVars
      <3> QED BY <2>1, <3>1 DEF Served
    <2>4. ~Starts(queue[o])
      BY <2>2, UnsetNote DEF OwnNotes, Starts, TurnNote
    <2>5. InHand(o) => hand.note.kind # "started"
      BY <2>2, UnsetNote DEF OwnNotes, HandDue, TurnNote
    <2>6. route = o => Resets(wire')
      <3> SUFFICES ASSUME route = o PROVE Resets(wire')
        OBVIOUS
      <3>1. Clean(o) /\ \A j : Due(o, j)
        BY <1>0, <2>2 DEF Clean, Due
      <3>2. \A j \in DOMAIN wire : wire[j].kind # "started"
        BY <2>2, <3>1, UnsetNote DEF OwnNotes, TurnNote
      <3>3. PICK i \in DOMAIN wire' : wire'[i] = Goal("active") /\ i \notin DOMAIN wire
        BY <2>3, SentNew
      <3>4. \A l \in DOMAIN wire' : (l \in DOMAIN wire /\ wire'[l] = wire[l] /\ l < i)
                                    \/ wire'[l] \in {Response(o, answer, 0), Goal("active")}
        BY <2>3, <3>3, SentNew
      <3>5. \A x \in {Response(o, answer, 0), Goal("active")} : x.kind # "started" /\ ~EndNote(x)
        BY DEF Response, Goal, Note, EndNote
      <3>6. ResetNote(wire'[i])
        BY <3>3 DEF ResetNote, Goal, Note
      <3>7. ASSUME NEW l \in DOMAIN wire' PROVE (l < i => wire'[l].kind # "started") /\ (l > i => ~EndNote(wire'[l]))
        <4>1. CASE wire'[l] \in {Response(o, answer, 0), Goal("active")}
          BY <3>5, <4>1
        <4>2. CASE l \in DOMAIN wire /\ wire'[l] = wire[l] /\ l < i
          <5>1. l \in Nat /\ i \in Nat
            BY <2>3, <3>3, SentNew
          <5> QED BY <3>2, <4>2, <5>1
        <4> QED BY <3>4, <4>1, <4>2
      <3> QED BY <3>6, <3>7 DEF Resets
    <2>7. ResetOnWire(o)'
      BY <1>0, <2>2, <2>4, <2>5, <2>6 DEF ResetOnWire, Untouched, InHand
    <2> QED BY <2>7
  <1> QED BY <1>1, <1>2

\* The reader hands it on in the order it was sent.
LEMMA FreshReader ==
  ASSUME IInv, Outs, Calls, NEW o \in Ops, Fresh(o), ReaderAction
  PROVE  Fresh(o)'
  <1>0. /\ Types /\ UNCHANGED <<goal, goalOf, cursor>> /\ (Active(o)' <=> Active(o)) /\ NoOp \notin Ops
    BY OpsAssumption DEF IInv, ReaderAction, Reader, ReadResponse, ReadNotification, Observe, PutObserved,
       ReaderReleases, FailGoal, FailAll, serverVars, streamVars, Active
  <1> SUFFICES ASSUME Active(o), NoEnd(o) \/ ResetQueued(o) \/ ResetInHand(o) \/ ResetOnWire(o)
               PROVE  NoEnd(o)' \/ ResetQueued(o)' \/ ResetInHand(o)' \/ ResetOnWire(o)'
    BY <1>0 DEF Fresh
  <1>1. ASSUME queue'[o] = queue[o], InHand(o)' => InHand(o) /\ hand'.note = hand.note,
               InHand(o) /\ ResetNote(hand.note) => InHand(o)', route' = o => route = o,
               (Plain(wire) => Plain(wire')) /\ (route' = o => (Resets(wire) => Resets(wire')))
        PROVE  NoEnd(o)' \/ ResetQueued(o)' \/ ResetInHand(o)' \/ ResetOnWire(o)'
    <2>1. (HandPlain(o) => HandPlain(o)') /\ (WirePlain(o) => WirePlain(o)')
      BY <1>1 DEF HandPlain, WirePlain
    <2>2. CASE NoEnd(o)
      BY <1>0, <1>1, <2>1, <2>2 DEF NoEnd
    <2>3. CASE ResetQueued(o)
      BY <1>0, <1>1, <2>1, <2>3 DEF ResetQueued
    <2>4. CASE ResetInHand(o)
      BY <1>0, <1>1, <2>1, <2>4 DEF ResetInHand
    <2>5. CASE ResetOnWire(o)
      BY <1>0, <1>1, <2>1, <2>5 DEF ResetOnWire
    <2> QED BY <2>2, <2>3, <2>4, <2>5
  <1>2. CASE ReadResponse
    <2>1. /\ UNCHANGED <<route, queue, hand>> /\ Head(wire).kind = "response"
          /\ wire # <<>> /\ wire' = Tail(wire)
      BY <1>2 DEF ReadResponse, opVars
    <2>2. Shifted(wire, wire') /\ wire[1].kind = "response"
      BY <1>0, <2>1, WireShifts
    <2>3. (Plain(wire) => Plain(wire')) /\ (Resets(wire) => Resets(wire'))
      BY <2>2, EndsShift
    <2> QED BY <1>1, <2>1, <2>3 DEF InHand
  <1>3. CASE ReadNotification
    <2>1. /\ UNCHANGED <<route, queue>> /\ hand = None /\ wire # <<>> /\ wire' = Tail(wire)
          /\ hand' = IF route = NoOp THEN None ELSE [kind |-> "observe", op |-> route, note |-> Head(wire)]
      BY <1>3 DEF ReadNotification, opVars
    <2>2. Shifted(wire, wire') /\ Head(wire) = wire[1]
      BY <1>0, <2>1, WireShifts
    <2>3. /\ Plain(wire) => ~EndNote(wire[1]) /\ Plain(wire')
          /\ Resets(wire) => \/ ResetNote(wire[1]) /\ Plain(wire')
                             \/ wire[1].kind # "started" /\ Resets(wire')
      BY <2>2, EndsShift
    <2>4. /\ InHand(o)' <=> route = o
          /\ route = o => hand'.note = wire[1]
          /\ ~InHand(o)
      BY <1>0, <2>1, <2>2 DEF InHand, None
    <2>5. CASE NoEnd(o)
      BY <1>0, <2>1, <2>3, <2>4, <2>5 DEF NoEnd, HandPlain, WirePlain
    <2>6. CASE ResetQueued(o)
      BY <1>0, <2>1, <2>3, <2>4, <2>6 DEF ResetQueued, HandPlain, WirePlain
    <2>7. CASE ResetOnWire(o)
      BY <1>0, <2>1, <2>3, <2>4, <2>7 DEF ResetOnWire, ResetInHand, WirePlain
    <2> QED BY <2>4, <2>5, <2>6, <2>7 DEF ResetInHand
  <1>4. CASE Observe
    <2>1. UNCHANGED <<route, queue, wire>>
      BY <1>4 DEF Observe
    <2>2. /\ InHand(o)' => InHand(o) /\ hand'.note = hand.note
          /\ InHand(o) /\ ResetNote(hand.note) => InHand(o)'
      BY <1>0, <1>4, ObservedFields DEF InHand, None, ResetNote, TurnNote
    <2> QED BY <1>1, <2>1, <2>2
  <1>5. CASE PutObserved
    <2>1. UNCHANGED <<route, wire>> /\ ~InHand(o)' /\ (InHand(o) <=> hand.op = o)
      BY <1>0, <1>5, HandPut DEF PutObserved, InHand
    <2>2. CASE hand.op # o
      <3>1. queue'[o] = queue[o]
        BY <1>0, <1>5, <2>2, HandPut
      <3> QED BY <1>1, <2>1, <2>2, <3>1
    <2>3. CASE hand.op = o
      <3>1. queue'[o] = Append(queue[o], hand.note)
        BY <1>0, <1>5, <2>3, HandPut
      <3>2. /\ Grown(queue[o], queue'[o])
                 /\ \A i \in DOMAIN queue'[o] : i \notin DOMAIN queue[o] => queue'[o][i] = hand.note
            /\ \E i \in DOMAIN queue'[o] : queue'[o][i] = hand.note /\ i \notin DOMAIN queue[o]
        BY <1>0, <3>1, QueueGrows
      <3>3. ~EndNote(hand.note) => (Plain(queue[o]) => Plain(queue'[o])) /\ (Resets(queue[o]) => Resets(queue'[o]))
        BY <3>2, EndsGrow
      <3>4. hand.note.kind # "started" => (~Starts(queue[o]) => ~Starts(queue'[o]))
        BY <3>2, StartsGrow
      <3>5. ~Starts(queue[o]) /\ ResetNote(hand.note) => Resets(queue'[o])
        <4> SUFFICES ASSUME ~Starts(queue[o]), ResetNote(hand.note) PROVE Resets(queue'[o])
          OBVIOUS
        <4>1. PICK i \in DOMAIN queue'[o] : queue'[o][i] = hand.note /\ i \notin DOMAIN queue[o]
          BY <3>2
        <4>2. ~EndNote(hand.note) /\ hand.note.kind # "started"
          BY DEF ResetNote, EndNote
        <4>3. ASSUME NEW l \in DOMAIN queue'[o]
              PROVE  (l < i => queue'[o][l].kind # "started") /\ (l > i => ~EndNote(queue'[o][l]))
          <5>1. CASE l \notin DOMAIN queue[o]
            BY <3>2, <4>2, <5>1
          <5>2. CASE l \in DOMAIN queue[o]
            <6>1. l < i /\ l \in Nat /\ i \in Nat /\ queue'[o][l] = queue[o][l]
              BY <3>2, <4>1, <5>2 DEF Grown
            <6>2. queue[o][l].kind # "started"
              BY <5>2 DEF Starts
            <6> QED BY <6>1, <6>2
          <5> QED BY <5>1, <5>2
        <4> QED BY <4>1, <4>3 DEF Resets
      <3>6. (WirePlain(o) => WirePlain(o)') /\ HandPlain(o)'
        BY <2>1 DEF WirePlain, HandPlain
      <3>7. CASE NoEnd(o)
        BY <1>0, <2>1, <2>3, <3>3, <3>6, <3>7 DEF NoEnd, HandPlain
      <3>8. CASE ResetQueued(o)
        BY <1>0, <2>1, <2>3, <3>3, <3>6, <3>8 DEF ResetQueued, HandPlain
      <3>9. CASE ResetInHand(o)
        BY <1>0, <3>5, <3>6, <3>9 DEF ResetInHand, ResetQueued
      <3>10. CASE ResetOnWire(o)
        BY <1>0, <2>1, <2>3, <3>4, <3>10 DEF ResetOnWire
      <3> QED BY <3>7, <3>8, <3>9, <3>10
    <2> QED BY <2>2, <2>3
  <1>6. CASE ReaderReleases
    <2>1. UNCHANGED <<wire, queue>> /\ ~InHand(o)' /\ ~InHand(o) /\ (route' = o => route = o)
      BY <1>0, <1>6, HandIs DEF ReaderReleases, opVars, InHand, None, UnregisterGoal
    <2> QED BY <1>1, <2>1
  <1>7. CASE FailAll
    <2>1. queue' = queue /\ ~InHand(o)' /\ ~InHand(o) /\ route' # o /\ Plain(wire')
      BY <1>0, <1>7 DEF FailAll, opVars, InHand, None, Plain
    <2> QED BY <1>1, <2>1
  <1>8. CASE FailGoal
    <2>1. UNCHANGED <<wire, route>> /\ ~InHand(o)' /\ ~InHand(o)
      BY <1>0, <1>8 DEF FailGoal, InHand, None
    <2>2. CASE queue'[o] = queue[o]
      BY <1>1, <2>1, <2>2
    <2>3. CASE queue'[o] = Append(queue[o], Failure)
      <3>1. ~EndNote(Failure) /\ Failure.kind # "started"
        BY DEF Failure, Note, EndNote
      <3>2. Grown(queue[o], queue'[o])
              /\ \A i \in DOMAIN queue'[o] : i \notin DOMAIN queue[o] => queue'[o][i] = Failure
        BY <1>0, <2>3, QueueGrows
      <3>3. /\ Plain(queue[o]) => Plain(queue'[o])
            /\ Resets(queue[o]) => Resets(queue'[o])
            /\ ~Starts(queue[o]) => ~Starts(queue'[o])
        BY <3>1, <3>2, EndsGrow, StartsGrow
      <3> QED BY <1>0, <2>1, <3>3 DEF NoEnd, ResetQueued, ResetInHand, ResetOnWire, HandPlain, WirePlain
    <2> QED BY <1>0, <1>8, <2>2, <2>3, HandFail
  <1> QED BY <1>2, <1>3, <1>4, <1>5, <1>6, <1>7, <1>8 DEF ReaderAction, Reader

\* The stream takes it before the first turn it starts with.
LEMMA FreshThread ==
  ASSUME IInv, Outs, Setting, NEW o \in Ops, Fresh(o), NEW q \in Ops, ThreadAction(q)
  PROVE  Fresh(o)'
  <1>0. Types /\ Unclosed /\ NoOp \notin Ops
    BY OpsAssumption DEF IInv
  <1>1. Apart(q) /\ RouteAndLock(q)
    BY <1>0, ThreadApart, ThreadRoute
  <1>2. UNCHANGED <<wire, hand>> /\ (Active(o)' <=> Active(o)) /\ (InHand(o)' <=> InHand(o))
          /\ (HandPlain(o)' <=> HandPlain(o))
    BY <1>1 DEF Apart, serverVars, InHand, Active, HandPlain
  <1> SUFFICES ASSUME Active(o), NoEnd(o) \/ ResetQueued(o) \/ ResetInHand(o) \/ ResetOnWire(o)
               PROVE  NoEnd(o)' \/ ResetQueued(o)' \/ ResetInHand(o)' \/ ResetOnWire(o)'
    BY <1>2 DEF Fresh
  <1>3. at[o] \notin Early
    BY DEF Setting, SetsOnce, Unset, Active
  <1>4. (route' = o => route = o) /\ (WirePlain(o) => WirePlain(o)')
    BY <1>0, <1>1, <1>2, <1>3 DEF RouteAndLock, Early, WirePlain
  <1>5. CASE ~(q = o /\ Consume(o))
    <2>1. cursor'[o] = cursor[o] /\ (queue'[o] = queue[o] \/ queue'[o] = Append(queue[o], Closed))
      BY <1>0, <1>1, <1>5, ThreadStream DEF Apart
    <2>2. /\ Plain(queue[o]) => Plain(queue'[o])
          /\ Resets(queue[o]) => Resets(queue'[o])
          /\ ~Starts(queue[o]) => ~Starts(queue'[o])
      <3>1. CASE queue'[o] = queue[o]
        BY <3>1
      <3>2. CASE queue'[o] = Append(queue[o], Closed)
        <4>1. ~EndNote(Closed) /\ Closed.kind # "started"
          BY DEF Closed, Note, EndNote
        <4>2. Grown(queue[o], queue'[o])
                /\ \A i \in DOMAIN queue'[o] : i \notin DOMAIN queue[o] => queue'[o][i] = Closed
          BY <1>0, <3>2, QueueGrows
        <4> QED BY <4>1, <4>2, EndsGrow, StartsGrow
      <3> QED BY <2>1, <3>1, <3>2
    <2> QED BY <1>2, <1>4, <2>1, <2>2 DEF NoEnd, ResetQueued, ResetInHand, ResetOnWire
  <1>6. CASE q = o /\ Consume(o)
    <2>1. Shifted(queue[o], queue'[o]) /\ Took(o, queue[o][1])
      BY <1>0, <1>6, QueueShifts
    <2>2. /\ Plain(queue[o]) => ~EndNote(queue[o][1]) /\ Plain(queue'[o])
          /\ Resets(queue[o]) => \/ ResetNote(queue[o][1]) /\ Plain(queue'[o])
                                 \/ queue[o][1].kind # "started" /\ Resets(queue'[o])
          /\ ~Starts(queue[o]) => queue[o][1].kind # "started" /\ ~Starts(queue'[o])
      BY <2>1, EndsShift
    <2>3. /\ ~Ended(cursor[o]) /\ ~EndNote(queue[o][1]) => ~Ended(cursor'[o])
          /\ ResetNote(queue[o][1]) => ~Ended(cursor'[o])
          /\ ~cursor[o].started /\ queue[o][1].kind # "started" => ~cursor'[o].started
      BY <2>1 DEF Took, ResetNote, EndNote
    <2> QED BY <1>2, <1>4, <2>2, <2>3 DEF NoEnd, ResetQueued, ResetInHand, ResetOnWire
  <1> QED BY <1>5, <1>6

\* No step brings the end of an earlier goal to a stream whose goal is active.
LEMMA FreshStep ==
  ASSUME IInv, Types', Outs, Calls, Numbered, Setting, [Next]_vars, NEW o \in Ops, OwnNotes(o), Fresh(o)
  PROVE  Fresh(o)'
  <1>1. CASE UNCHANGED vars
    <2>1. (Active(o)' <=> Active(o)) /\ (InHand(o)' <=> InHand(o))
      BY <1>1 DEF vars, serverVars, Active, InHand
    <2>2. (HandPlain(o)' <=> HandPlain(o)) /\ (WirePlain(o)' <=> WirePlain(o))
      BY <1>1, <2>1 DEF vars, HandPlain, WirePlain
    <2> QED BY <1>1, <2>1, <2>2 DEF vars, opVars, streamVars, Fresh, NoEnd, ResetQueued, ResetInHand, ResetOnWire
  <1> QED BY <1>1, FreshServer, FreshReader, FreshThread, Steps

-----------------------------------------------------------------------------
(* What has been shown.                                                    *)

\* A stream closes by what it consumes, and stays closed.
LEMMA ClosingThread ==
  ASSUME IInv, NEW o \in Ops, ThreadAction(o), ~Consume(o)
  PROVE  at'[o] \in Closing <=> at[o] \in Closing
  <1>0. Types /\ Unclosed /\ at \in [Ops -> Places]
    BY Functions DEF IInv
  <1>1. CASE at[o] = "stream"
    <2>1. LeaveStream(o)
      BY <1>1 DEF ThreadAction, BeginStart, BeginTurn, StartTimesOut, RequestFails, AfterTurn, AfterRead,
         ReserveGoal, AfterClear, AfterSet, Started, Abandoned, AfterPause, AfterInterrupt, AfterRetry, Finish,
         Release, Answered, Blocked, Calling
    <2> QED BY <1>0, <1>1, <2>1 DEF LeaveStream, Go, Closing
  <1>2. CASE at[o] # "stream"
    BY <1>0, <1>2, ThreadMoves DEF Moves, Closing
  <1> QED BY <1>1, <1>2

\* What a stream has shown after it has consumed a notification.
LEMMA ToldConsume ==
  ASSUME IInv, Outs, Setting, NEW o \in Ops, Shown(o), Fresh(o), Told(o), Consume(o)
  PROVE  Told(o)'
  <1>0. Types /\ Unclosed /\ out[o] \in Seq(Events)
    BY DEF IInv, Outs
  <1> DEFINE n == queue[o][1]
  <1>1. Shifted(queue[o], queue'[o]) /\ Took(o, n) /\ at[o] = "stream"
    BY <1>0, QueueShifts
  <1>2. Active(o)' <=> Active(o)
    BY DEF Consume, serverVars, Active
  <1>3. n.kind = "completed" => cursor[o].started
    BY <1>1, StartsShift DEF Shown, Setting, SetsOnce
  <1>4. /\ at[o] \notin Closing
        /\ cursor[o].started => Len(out[o]) = 1 /\ out[o][1].kind = "started"
        /\ ~cursor[o].started => out[o] = <<>>
        /\ cursor[o].last # None => cursor[o].started
        /\ cursor[o].failed # None => cursor[o].last # None
    BY <1>1 DEF Told, Closing
  <1>5. Active(o) /\ cursor[o].started => ~Ended(cursor[o]) /\ Plain(queue[o])
    BY DEF Fresh, NoEnd, ResetQueued, ResetInHand, ResetOnWire
  <1>6. Active(o) /\ cursor[o].started => ~EndNote(n)
    BY <1>1, <1>5 DEF Plain, Shifted
  <1>7. ASSUME NEW e, out'[o] = Append(out[o], e), e.kind = "completed", cursor[o].started
        PROVE  Len(out'[o]) = 2 /\ out'[o][1].kind = "started" /\ out'[o][2].kind = "completed"
    <2>1. Len(out[o]) = 1 /\ out[o][1].kind = "started"
      BY <1>4, <1>7
    <2> QED BY <1>0, <1>7, <2>1
  <1>8. \A c, m : Completion(c, m).kind = "completed"
    BY DEF Completion, Note
  <1> HIDE DEF n
  <1>9. CASE n.kind = "started"
    <2>1. /\ cursor'[o].started /\ cursor'[o].last = cursor[o].last /\ cursor'[o].failed = cursor[o].failed
          /\ at'[o] = "stream"
          /\ IF cursor[o].started THEN out'[o] = out[o] ELSE out'[o] = Append(out[o], n)
      BY <1>1, <1>9 DEF Took
    <2>2. Len(out'[o]) = 1 /\ out'[o][1].kind = "started"
      <3>1. CASE cursor[o].started
        BY <1>4, <2>1, <3>1
      <3>2. CASE ~cursor[o].started
        <4>1. out'[o] = Append(<<>>, n)
          BY <1>4, <2>1, <3>2
        <4> QED BY <1>9, <4>1
      <3> QED BY <3>1, <3>2
    <2> QED BY <1>4, <2>1, <2>2 DEF Told, Closing
  <1>10. CASE n.kind = "completed"
    <2>1. /\ cursor'[o].started /\ cursor'[o].last = n /\ n # None
          /\ Ended(cursor'[o]) <=> Ended(cursor[o])
          /\ \/ /\ at'[o] = "close" /\ out'[o] = Append(out[o], Completion(cursor'[o], n))
                /\ n.status = "interrupted" \/ Ended(cursor'[o])
             \/ at'[o] \in {"stream", "finish"} /\ out'[o] = out[o]
      BY <1>1, <1>3, <1>10 DEF Took, None
    <2>2. CASE at'[o] = "close" /\ out'[o] = Append(out[o], Completion(cursor'[o], n))
                 /\ (n.status = "interrupted" \/ Ended(cursor'[o]))
      <3>1. Len(out'[o]) = 2 /\ out'[o][1].kind = "started" /\ out'[o][2].kind = "completed"
        BY <1>3, <1>7, <1>8, <1>10, <2>2
      <3>2. cursor'[o].last.status # "interrupted" => ~Active(o)'
        BY <1>2, <1>3, <1>5, <1>10, <2>1, <2>2
      <3> QED BY <2>1, <2>2, <3>1, <3>2 DEF Told, Closing
    <2>3. CASE at'[o] \in {"stream", "finish"} /\ out'[o] = out[o]
      BY <1>3, <1>4, <1>10, <2>1, <2>3 DEF Told, Closing
    <2> QED BY <2>1, <2>2, <2>3
  <1>11. CASE n.kind \in {"goal", "cleared"}
    <2>1. /\ cursor'[o].started = cursor[o].started /\ cursor'[o].last = cursor[o].last
               /\ cursor'[o].failed = cursor[o].failed
          /\ ~EndNote(n) => ~Ended(cursor'[o])
          /\ \/ /\ at'[o] = "close" /\ out'[o] = Append(out[o], Completion(cursor'[o], cursor'[o].last))
                /\ cursor'[o].last # None /\ Ended(cursor'[o])
             \/ at'[o] = "stream" /\ out'[o] = out[o]
      BY <1>1, <1>11 DEF Took
    <2>2. CASE at'[o] = "close" /\ out'[o] = Append(out[o], Completion(cursor'[o], cursor'[o].last))
               /\ cursor'[o].last # None /\ Ended(cursor'[o])
      <3>1. cursor[o].started
        BY <1>4, <2>1, <2>2
      <3>2. Len(out'[o]) = 2 /\ out'[o][1].kind = "started" /\ out'[o][2].kind = "completed"
        BY <1>7, <1>8, <2>2, <3>1
      <3>3. ~Active(o)'
        BY <1>2, <1>6, <2>1, <2>2, <3>1
      <3> QED BY <1>4, <2>1, <2>2, <3>2, <3>3 DEF Told, Closing
    <2>3. CASE at'[o] = "stream" /\ out'[o] = out[o]
      BY <1>4, <2>1, <2>3 DEF Told, Closing
    <2> QED BY <2>1, <2>2, <2>3
  <1>12. CASE n.kind = "failure"
    <2>1. cursor'[o] = cursor[o] /\ at'[o] = "finish" /\ out'[o] = out[o]
      BY <1>1, <1>12 DEF Took
    <2> QED BY <1>4, <2>1 DEF Told, Closing
  <1> QED BY <1>1, <1>9, <1>10, <1>11, <1>12 DEF Took

\* No other step changes what a stream has shown, or sets its goal again.
LEMMA ToldStep ==
  ASSUME IInv, Types', Outs, Calls, Numbered, Setting, [Next]_vars, NEW o \in Ops, Shown(o), Fresh(o), Told(o)
  PROVE  Told(o)'
  <1>0. Types
    BY DEF IInv
  <1>1. ASSUME cursor'[o] = cursor[o], out'[o] = out[o], at'[o] \in Closing <=> at[o] \in Closing,
               at[o] \in Closing => (Active(o)' => Active(o))
        PROVE  Told(o)'
    BY <1>1 DEF Told
  <1>2. CASE ServerAction
    <2>1. /\ UNCHANGED <<at, cursor, out>>
          /\ Worked \/ \E q \in Ops : Served(q) /\ request[q] # None
      BY <1>0, <1>2, ServerFrame
    <2>2. Active(o)' => Active(o) \/ (Served(o) /\ request[o].kind = "set")
      BY <1>0, <2>1, ServerGoal DEF ServerEffect
    <2>3. request[o].kind = "set" => at[o] = "set"
      BY RequestPlace DEF None
    <2> QED BY <1>1, <2>1, <2>2, <2>3 DEF Closing
  <1>3. CASE ReaderAction
    <2>1. UNCHANGED <<goal, goalOf, at, cursor, out>>
      BY <1>3 DEF ReaderAction, Reader, ReadResponse, ReadNotification, Observe, PutObserved, ReaderReleases,
                  FailGoal, FailAll, serverVars, streamVars
    <2> QED BY <1>1, <2>1 DEF Active
  <1>4. ASSUME NEW q \in Ops, ThreadAction(q) PROVE Told(o)'
    <2>1. Apart(q) /\ (Active(o)' <=> Active(o))
      BY <1>0, <1>4, ThreadApart DEF Apart, serverVars, Active
    <2>2. CASE q # o
      BY <1>1, <2>1, <2>2 DEF Apart
    <2>3. CASE q = o /\ Consume(o)
      BY <2>3, ToldConsume
    <2>4. CASE q = o /\ ~Consume(o)
      <3>1. cursor'[o] = cursor[o] /\ out'[o] = out[o]
        BY <1>0, <1>4, <2>4, ThreadStream
      <3> QED BY <1>1, <1>4, <2>1, <2>4, <3>1, ClosingThread
    <2> QED BY <2>2, <2>3, <2>4
  <1>5. CASE UNCHANGED vars
    BY <1>1, <1>5 DEF vars, serverVars, streamVars, Active
  <1> QED BY <1>2, <1>3, <1>4, <1>5, Steps

\* The stream's part of the invariant, for the operations no turn has overtaken.
LEMMA TellingStep ==
  ASSUME IInv, Types', Outs, Calls, Holds, Numbered, Setting, Own, Telling, [Next]_vars
  PROVE  Telling'
  <1> SUFFICES ASSUME NEW o \in Ops, o \notin overtaken'
               PROVE  (OwnNotes(o) /\ Shown(o) /\ Fresh(o) /\ Told(o))'
    BY DEF Telling
  <1>1. o \in Ops \ overtaken
    BY OvertakenStays DEF IInv
  <1>2. OwnNotes(o) /\ Shown(o) /\ Fresh(o) /\ Told(o)
    BY <1>1 DEF Telling
  <1>3. OwnNotes(o)' /\ Shown(o)'
    BY <1>1, <1>2, OwnNotesStep, ShownStep
  <1>4. Fresh(o)' /\ Told(o)'
    BY <1>1, <1>2, FreshStep, ToldStep
  <1> QED BY <1>3, <1>4

-----------------------------------------------------------------------------
(* The theorems.                                                           *)

\* Nothing is told at first.
LEMMA InitTelling == Init => Telling
  <1> SUFFICES ASSUME Init, NEW o \in Ops PROVE OwnNotes(o) /\ Shown(o) /\ Fresh(o) /\ Told(o)
    BY DEF Telling
  <1>1. /\ at[o] = "out" /\ queue[o] = <<>> /\ out[o] = <<>> /\ ~state[o].routing
        /\ ~cursor[o].started /\ cursor[o].last = None /\ cursor[o].failed = None
    BY DEF Init
  <1>2. OwnNotes(o)
    BY <1>1, OpsAssumption DEF Init, OwnNotes, Clean, HandDue, InHand, None
  <1>3. Shown(o) /\ Fresh(o)
    BY <1>1, OpsAssumption DEF Init, Shown, Fresh, Active
  <1>4. Told(o)
    BY <1>1 DEF Told, Closing
  <1> QED BY <1>2, <1>3, <1>4

\* What the streams are told is as Telling says in every reachable state.
THEOREM GoalTelling == Spec => []Telling
  <1>1. IInv /\ IInv' /\ Working /\ Telling /\ [Next]_vars => Telling'
    BY TellingStep DEF IInv, Working
  <1> QED BY GoalInvariant, GoalWorking, InitTelling, <1>1, PTL DEF Spec

\* A stream shows at most one start, then at most one completion, and both when it
\* ends by itself, unless a turn has overtaken the operation.
THEOREM StreamIsOneTurn == Spec => []OneLogicalTurn
  <1>1. Telling => OneLogicalTurn
    BY DEF Telling, Told, Closing, OneLogicalTurn
  <1> QED BY GoalTelling, <1>1, PTL

\* Its completion is made from a turn of its own goal, and unless the last turn was
\* interrupted that goal is not active any more.
THEOREM CompletionFollowsGoal == Spec => []CompletionIsTheGoals
  <1>1. Outs /\ Telling => CompletionIsTheGoals
    <2> SUFFICES ASSUME Outs, Telling, NEW o \in Ops \ overtaken, NEW i \in DOMAIN out[o],
                        out[o][i].kind = "completed"
                 PROVE  /\ turns[out[o][i].turn] = o
                        /\ cursor[o].last.status # "interrupted" => ~(goal = "active" /\ goalOf = o)
      BY DEF CompletionIsTheGoals
    <2>1. OwnNotes(o) /\ Told(o) /\ out[o] \in Seq(Events)
      BY DEF Telling, Outs
    <2>2. Mine(o, out[o][i])
      BY <2>1 DEF OwnNotes
    <2>3. at[o] \in Closing
      <3>1. Len(out[o]) = 1 => i = 1
        BY <2>1
      <3>2. out[o] = <<>> => i \notin DOMAIN out[o]
        OBVIOUS
      <3> QED BY <2>1, <3>1, <3>2 DEF Told
    <2>4. cursor[o].last.status # "interrupted" => ~Active(o)
      BY <2>1, <2>3 DEF Told
    <2> QED BY <2>2, <2>4 DEF Mine, Active
  <1> QED BY GoalWorking, GoalTelling, <1>1, PTL DEF Working
=============================================================================
