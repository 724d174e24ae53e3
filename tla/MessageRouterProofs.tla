-------------------------- MODULE MessageRouterProofs --------------------------
(* Proofs about MessageRouter, for any requests, turns, logins and handles. *)
EXTENDS MessageRouter, FiniteSetTheorems, TLAPS

\* A handle that replays or gets does so on a queue object it has looked up.
HandleHasItsQueue ==
    \A h \in Handles : user[h] \in {"replay", "get"} => held[h] \in Queues

\* How far a request is, seen from the tables: before its write nothing has been
\* sent; a registered waiter is empty; an idle request is unknown to the router.
RequestsInStep ==
    \A r \in Requests :
        /\ r \in response_waiters => waiter[r] = <<>> /\ caller[r] # "idle"
        /\ (\E put \in owedResponses : put[1] = r) => caller[r] # "idle"
        /\ caller[r] \in {"idle", "writing"} => r \notin sent
        /\ caller[r] = "idle" => waiter[r] = <<>>
        /\ caller[r] = "writing" =>
              \/ r \in response_waiters
              \/ waiter[r] # <<>>
              \/ \E put \in owedResponses : put[1] = r

Routing == TypeOK /\ HandleHasItsQueue
Requesting == RequestsInStep /\ ReaderNeverBlocksOnAWaiter /\ WaitingCallerIsReachable
Keeping == NothingPendingWhileRegistered /\ NothingPendingAfterCompletion
IInv == Routing /\ Requesting /\ Keeping

LEMMA GlobalQueueIsAQueue == GlobalQueue \in Queues
  BY DEF Queues

LEMMA InitIInv == Init => IInv
  <1> SUFFICES ASSUME Init PROVE IInv
    OBVIOUS
  <1> USE GlobalQueueIsAQueue DEF Init
  <1>1. Routing
    BY HandlesAssumption DEF Routing, TypeOK, HandleHasItsQueue, UserStates
  <1>2. Requesting
    BY DEF Requesting, RequestsInStep, ReaderNeverBlocksOnAWaiter, WaitingCallerIsReachable
  <1>3. Keeping
    BY DEF Keeping, NothingPendingWhileRegistered, NothingPendingAfterCompletion, Channels
  <1> QED BY <1>1, <1>2, <1>3 DEF IInv

-----------------------------------------------------------------------------
(* Steps that touch the tables of requests only.                           *)

LEMMA ChannelsUntouched ==
  ASSUME UNCHANGED channelVars
  PROVE  /\ UNCHANGED <<registered, pending, queue, user, held, replay, calls, owedItems, routed,
                        received, replayed, dropped>>
         /\ HandleHasItsQueue => HandleHasItsQueue'
         /\ Keeping => Keeping'
  BY DEF channelVars, userVars, historyVars, HandleHasItsQueue, Keeping,
         NothingPendingWhileRegistered, NothingPendingAfterCompletion

LEMMA RequestSteps ==
  ASSUME IInv, NEW r \in Requests, RequestStep(r)
  PROVE  IInv'
  <1> UNCHANGED channelVars
    BY DEF RequestStep, CreateResponseWaiter, WriteMessage, WriteRaises, DiscardResponseWaiter,
           ReceiveResponse
  <1>1. HandleHasItsQueue' /\ Keeping'
    BY ChannelsUntouched DEF IInv, Routing
  <1> USE DEF IInv, Routing, Requesting
  <1>2. CASE CreateResponseWaiter(r)
    <2>1. TypeOK'
      BY <1>2, ChannelsUntouched DEF TypeOK, CreateResponseWaiter
    <2>2. Requesting'
      BY <1>2 DEF TypeOK, RequestsInStep, ReaderNeverBlocksOnAWaiter, WaitingCallerIsReachable,
                  CreateResponseWaiter
    <2> QED BY <1>1, <2>1, <2>2
  <1>3. CASE WriteMessage(r)
    <2>1. TypeOK'
      BY <1>3, ChannelsUntouched DEF TypeOK, WriteMessage
    <2>2. Requesting'
      BY <1>3 DEF TypeOK, RequestsInStep, ReaderNeverBlocksOnAWaiter, WaitingCallerIsReachable,
                  WriteMessage
    <2> QED BY <1>1, <2>1, <2>2
  <1>4. CASE WriteRaises(r)
    <2>1. TypeOK'
      BY <1>4, ChannelsUntouched DEF TypeOK, WriteRaises
    <2>2. Requesting'
      BY <1>4 DEF TypeOK, RequestsInStep, ReaderNeverBlocksOnAWaiter, WaitingCallerIsReachable,
                  WriteRaises
    <2> QED BY <1>1, <2>1, <2>2
  <1>5. CASE DiscardResponseWaiter(r)
    <2>1. TypeOK'
      BY <1>5, ChannelsUntouched DEF TypeOK, DiscardResponseWaiter
    <2>2. Requesting'
      BY <1>5 DEF TypeOK, RequestsInStep, ReaderNeverBlocksOnAWaiter, WaitingCallerIsReachable,
                  DiscardResponseWaiter
    <2> QED BY <1>1, <2>1, <2>2
  <1>6. CASE ReceiveResponse(r)
    <2>1. TypeOK'
      BY <1>6, ChannelsUntouched DEF TypeOK, ReceiveResponse
    <2>2. Requesting'
      BY <1>6 DEF TypeOK, RequestsInStep, ReaderNeverBlocksOnAWaiter, WaitingCallerIsReachable,
                  ReceiveResponse
    <2> QED BY <1>1, <2>1, <2>2
  <1> QED BY <1>2, <1>3, <1>4, <1>5, <1>6 DEF RequestStep

\* The reader takes the waiter out of the table before it puts, so it owes a
\* put only to a waiter that nobody else can put into.
LEMMA ResponseSteps ==
  ASSUME IInv, NEW r \in Requests, NEW answer \in Answers,
         (answer # Failure /\ RouteResponse(r, answer)) \/ PutResponse(r, answer)
  PROVE  IInv'
  <1> UNCHANGED channelVars
    BY DEF RouteResponse, PutResponse
  <1>1. HandleHasItsQueue' /\ Keeping'
    BY ChannelsUntouched DEF IInv, Routing
  <1> USE DEF IInv, Routing, Requesting
  <1>2. CASE RouteResponse(r, answer)
    <2>1. TypeOK'
      BY <1>2, ChannelsUntouched DEF TypeOK, RouteResponse
    <2>2. /\ \A put \in owedResponses' : put[1] = r /\ put = <<r, answer>> /\ r \in response_waiters
          /\ r \in response_waiters => \E put \in owedResponses' : put[1] = r
      <3>1. owedResponses' = IF r \in response_waiters THEN {<<r, answer>>} ELSE {}
        BY <1>2 DEF RouteResponse
      <3>2. <<r, answer>>[1] = r
        OBVIOUS
      <3> QED BY <3>1, <3>2
    <2>3. /\ owedResponses = {} /\ reader' = reader /\ reader = "reading" /\ r \in sent
          /\ sent' = sent \ {r} /\ response_waiters' = response_waiters \ {r}
          /\ waiter' = waiter /\ caller' = caller
      BY <1>2 DEF RouteResponse, ReaderIsFree
    <2>4. RequestsInStep'
      BY <2>2, <2>3 DEF RequestsInStep
    <2>5. ReaderNeverBlocksOnAWaiter'
      BY <2>2, <2>3 DEF RequestsInStep, ReaderNeverBlocksOnAWaiter
    <2>6. WaitingCallerIsReachable'
      BY <2>2, <2>3 DEF WaitingCallerIsReachable
    <2> QED BY <1>1, <2>1, <2>4, <2>5, <2>6
  <1>3. CASE PutResponse(r, answer)
    <2>1. TypeOK'
      BY <1>3, ChannelsUntouched DEF TypeOK, PutResponse
    <2>2. waiter'[r] # <<>> /\ \A other \in Requests : other # r => waiter'[other] = waiter[other]
      <3>1. waiter' = [waiter EXCEPT ![r] = Append(<<>>, answer)]
        BY <1>3 DEF TypeOK, PutResponse
      <3>2. Append(<<>>, answer) # <<>>
        OBVIOUS
      <3> QED BY <3>1, <3>2 DEF TypeOK
    <2>3. /\ <<r, answer>> \in owedResponses /\ owedResponses' = owedResponses \ {<<r, answer>>}
          /\ UNCHANGED <<response_waiters, caller, sent, misread, reader>>
          /\ <<r, answer>>[1] = r
      BY <1>3 DEF PutResponse
    <2>4. \A put \in owedResponses' : put \in owedResponses /\ put[1] # r /\ put[1] \in Requests
      BY <2>3 DEF TypeOK, ReaderNeverBlocksOnAWaiter
    <2>5. \A put \in owedResponses : put[1] # r => put \in owedResponses'
      BY <2>3
    <2>6. RequestsInStep'
      BY <2>2, <2>3, <2>4, <2>5 DEF RequestsInStep, ReaderNeverBlocksOnAWaiter
    <2>7. ReaderNeverBlocksOnAWaiter'
      BY <2>2, <2>3, <2>4 DEF ReaderNeverBlocksOnAWaiter
    <2>8. WaitingCallerIsReachable'
      BY SMTT(30), <2>2, <2>3, <2>5 DEF WaitingCallerIsReachable
    <2> QED BY <1>1, <2>1, <2>6, <2>7, <2>8
  <1> QED BY <1>2, <1>3

\* A waiter that is lost is lost with its request on record, and the reader
\* does not read on.
LEMMA UnreadableErrorSteps ==
  ASSUME IInv, NEW r \in Requests, RouteUnreadableError(r)
  PROVE  IInv'
  <1> UNCHANGED channelVars
    BY DEF RouteUnreadableError
  <1>1. HandleHasItsQueue' /\ Keeping'
    BY ChannelsUntouched DEF IInv, Routing
  <1> USE DEF IInv, Routing, Requesting
  <1>2. TypeOK'
    BY ChannelsUntouched DEF TypeOK, RouteUnreadableError
  <1>3. /\ r \in response_waiters /\ response_waiters' = response_waiters \ {r}
        /\ sent' = sent \ {r} /\ misread' = misread \cup {r} /\ reader' = "raising"
        /\ UNCHANGED <<waiter, caller, owedResponses>>
        /\ caller[r] # "writing" /\ owedResponses = {}
    BY DEF RouteUnreadableError, ReaderIsFree, RequestsInStep
  <1>4. RequestsInStep'
    BY <1>3 DEF RequestsInStep
  <1>5. ReaderNeverBlocksOnAWaiter'
    BY <1>3 DEF ReaderNeverBlocksOnAWaiter
  <1>6. WaitingCallerIsReachable'
    BY <1>3 DEF WaitingCallerIsReachable
  <1> QED BY <1>1, <1>2, <1>4, <1>5, <1>6

-----------------------------------------------------------------------------
(* Steps that touch the tables of notifications only.                      *)

LEMMA RequestsUntouched ==
  ASSUME UNCHANGED requestVars, UNCHANGED reader
  PROVE  /\ UNCHANGED <<response_waiters, waiter, caller, sent, misread, owedResponses, reader>>
         /\ Requesting => Requesting'
  BY DEF requestVars, Requesting, RequestsInStep, ReaderNeverBlocksOnAWaiter,
         WaitingCallerIsReachable

LEMMA NotificationSteps ==
  ASSUME IInv, (\E ch \in Channels : RouteNotification(ch)) \/ (\E put \in owedItems : PutNotification(put[1], put[2]))
  PROVE  IInv'
  <1> UNCHANGED requestVars /\ UNCHANGED reader
    BY DEF RouteNotification, PutNotification
  <1>1. Requesting'
    BY RequestsUntouched DEF IInv
  <1> USE DEF IInv, Routing
  <1>2. ASSUME NEW ch \in Channels, RouteNotification(ch) PROVE Routing' /\ Keeping'
    <2> Last \in [Channels -> Nat]
      BY HandlesAssumption
    <2>1. Elements(pending[ch]) \subseteq Nat
      BY DEF TypeOK, Elements
    <2>a. routed[ch] + 1 \in Nat /\ routed[ch] + 1 \in Items
      BY DEF TypeOK, Items
    <2>b. routed' \in [Channels -> Nat] /\ pending' \in [Channels -> Seq(Nat)]
      <3>1. Append(pending[ch], routed[ch] + 1) \in Seq(Nat) /\ <<>> \in Seq(Nat)
        BY <2>a DEF TypeOK
      <3>2. routed' = [routed EXCEPT ![ch] = routed[ch] + 1]
        BY <1>2 DEF RouteNotification
      <3>3. \/ pending' = pending
            \/ pending' = [pending EXCEPT ![ch] = <<>>]
            \/ pending' = [pending EXCEPT ![ch] = Append(pending[ch], routed[ch] + 1)]
        BY <1>2 DEF RouteNotification
      <3>4. routed' \in [Channels -> Nat]
        BY <2>a, <3>2 DEF TypeOK
      <3>5. pending' \in [Channels -> Seq(Nat)]
        BY <3>1, <3>3 DEF TypeOK
      <3> QED BY <3>4, <3>5
    <2>c. owedItems' \subseteq Queues \X Items
      BY <1>2, <2>a DEF TypeOK, RouteNotification
    <2>d. dropped' \in [Channels -> SUBSET Nat]
      <3>1. \/ dropped' = dropped
            \/ dropped' = [dropped EXCEPT ![ch] = @ \cup Elements(pending[ch]) \cup {routed[ch] + 1}]
        BY <1>2 DEF RouteNotification
      <3>2. dropped[ch] \cup Elements(pending[ch]) \cup {routed[ch] + 1} \in SUBSET Nat
        BY <2>1, <2>a DEF TypeOK
      <3> QED BY <3>1, <3>2 DEF TypeOK
    <2>2. TypeOK'
      BY <1>2, <2>b, <2>c, <2>d, RequestsUntouched DEF TypeOK, RouteNotification, userVars
    <2>3. HandleHasItsQueue'
      BY <1>2 DEF HandleHasItsQueue, RouteNotification, userVars
    <2>4. NothingPendingWhileRegistered'
      BY <1>2 DEF TypeOK, Keeping, NothingPendingWhileRegistered, RouteNotification
    <2>5. NothingPendingAfterCompletion'
      BY <1>2 DEF TypeOK, Keeping, NothingPendingWhileRegistered, NothingPendingAfterCompletion,
                  RouteNotification, Channels
    <2> QED BY <2>2, <2>3, <2>4, <2>5 DEF Keeping
  <1>3. ASSUME NEW put \in owedItems, PutNotification(put[1], put[2]) PROVE Routing' /\ Keeping'
    <2>1. TypeOK'
      BY <1>3, RequestsUntouched DEF TypeOK, PutNotification, userVars, historyVars
    <2>2. HandleHasItsQueue'
      BY <1>3 DEF HandleHasItsQueue, PutNotification, userVars
    <2>3. Keeping'
      BY <1>3 DEF Keeping, NothingPendingWhileRegistered, NothingPendingAfterCompletion,
                  PutNotification
    <2> QED BY <2>1, <2>2, <2>3
  <1> QED BY <1>1, <1>2, <1>3

LEMMA HandleSteps ==
  ASSUME IInv, NEW h \in Handles, HandleStep(h)
  PROVE  IInv'
  <1> UNCHANGED requestVars /\ UNCHANGED reader
    BY DEF HandleStep, Register, ReplayPending, NextNotification, GetNotification, Abandon,
           Unregister, NextGlobalNotification
  <1>0. Requesting'
    BY RequestsUntouched DEF IInv
  <1>a. ChannelOf[h] \in Channels /\ MaxCalls \in Nat
    BY HandlesAssumption
  <1> USE DEF IInv, Routing, HandleHasItsQueue
  <1>1. ASSUME Register(h) PROVE Routing' /\ Keeping'
    <2>1. calls[h] + 1 \in 1..MaxCalls
      BY SMTT(30), <1>1, <1>a DEF TypeOK, Register
    <2>2. <<h, calls[h] + 1>> \in Queues
      BY <2>1 DEF Queues
    <2>3. Elements(pending[ChannelOf[h]]) \subseteq Nat
      BY <1>a DEF TypeOK, Elements
    <2>a. calls' \in [Handles -> 0..MaxCalls] /\ user' \in [Handles -> UserStates]
      <3>1. /\ calls' = [calls EXCEPT ![h] = calls[h] + 1]
            /\ \/ user' = [user EXCEPT ![h] = "next"]
               \/ user' = [user EXCEPT ![h] = "replay"]
        BY <1>1 DEF Register
      <3>2. calls[h] + 1 \in 0..MaxCalls
        BY <2>1
      <3> QED BY <3>1, <3>2 DEF TypeOK, UserStates
    <2>4. TypeOK'
      <3>1. CASE registered[ChannelOf[h]] # NoQueue
        <4>1. UNCHANGED <<registered, pending, held, replay, replayed>>
          BY <1>1, <3>1 DEF Register
        <4> QED BY <1>1, <2>a, <4>1, RequestsUntouched DEF TypeOK, Register
      <3>2. CASE registered[ChannelOf[h]] = NoQueue
        <4>1. /\ registered' = [registered EXCEPT ![ChannelOf[h]] = <<h, calls[h] + 1>>]
              /\ held' = [held EXCEPT ![h] = <<h, calls[h] + 1>>]
              /\ pending' = [pending EXCEPT ![ChannelOf[h]] = <<>>]
              /\ replay' = [replay EXCEPT ![h] = pending[ChannelOf[h]]]
              /\ replayed' = [replayed EXCEPT ![ChannelOf[h]] = @ \cup Elements(pending[ChannelOf[h]])]
          BY <1>1, <3>2 DEF Register
        <4>2. registered' \in [Channels -> Queues \cup {NoQueue}] /\ held' \in [Handles -> Queues \cup {NoQueue}]
          BY <4>1, <2>2 DEF TypeOK
        <4>3. pending' \in [Channels -> Seq(Nat)] /\ replay' \in [Handles -> Seq(Nat)]
          BY <4>1, <1>a DEF TypeOK
        <4>4. replayed' \in [Channels -> SUBSET Nat]
          BY <4>1, <2>3 DEF TypeOK
        <4> QED BY <1>1, <2>a, <4>2, <4>3, <4>4, RequestsUntouched DEF TypeOK, Register
      <3> QED BY <3>1, <3>2
    <2>5. HandleHasItsQueue'
      BY <1>1, <2>2 DEF TypeOK, Register
    <2>6. Keeping'
      BY SMTT(30), <1>1, <1>a DEF TypeOK, Keeping, NothingPendingWhileRegistered,
                        NothingPendingAfterCompletion, Register, Channels
    <2> QED BY <2>4, <2>5, <2>6
  <1>2. ASSUME ReplayPending(h) PROVE Routing' /\ Keeping'
    <2>a. replay[h] # <<>> => Head(replay[h]) \in Items /\ Tail(replay[h]) \in Seq(Nat)
      BY DEF TypeOK, Items
    <2>b. queue' \in [Queues -> Seq(Items)] /\ replay' \in [Handles -> Seq(Nat)]
      <3>1. CASE replay[h] # <<>>
        <4>1. /\ held[h] \in Queues
              /\ queue' = [queue EXCEPT ![held[h]] = Append(queue[held[h]], Head(replay[h]))]
              /\ replay' = [replay EXCEPT ![h] = Tail(replay[h])]
          BY <1>2, <3>1 DEF ReplayPending
        <4>2. Append(queue[held[h]], Head(replay[h])) \in Seq(Items)
          BY <2>a, <3>1, <4>1 DEF TypeOK
        <4> QED BY <2>a, <3>1, <4>1, <4>2 DEF TypeOK
      <3>2. CASE replay[h] = <<>>
        BY <1>2, <3>2 DEF TypeOK, ReplayPending
      <3> QED BY <3>1, <3>2
    <2>1. TypeOK'
      BY <1>2, <2>b, RequestsUntouched DEF TypeOK, UserStates, ReplayPending, historyVars
    <2>2. HandleHasItsQueue'
      BY <1>2 DEF TypeOK, ReplayPending
    <2>3. Keeping'
      BY <1>2 DEF Keeping, NothingPendingWhileRegistered, NothingPendingAfterCompletion,
                  ReplayPending
    <2> QED BY <2>1, <2>2, <2>3
  <1>3. ASSUME NextNotification(h) PROVE Routing' /\ Keeping'
    <2>1. TypeOK'
      BY <1>3, <1>a, RequestsUntouched DEF TypeOK, UserStates, NextNotification, historyVars
    <2>2. HandleHasItsQueue'
      BY <1>3, <1>a DEF TypeOK, NextNotification
    <2>3. Keeping'
      BY <1>3 DEF Keeping, NothingPendingWhileRegistered, NothingPendingAfterCompletion,
                  NextNotification
    <2> QED BY <2>1, <2>2, <2>3
  <1>4. ASSUME GetNotification(h) PROVE Routing' /\ Keeping'
    <2>1. held[h] \in Queues /\ queue[held[h]] \in Seq(Items) /\ queue[held[h]] # <<>>
      BY <1>4 DEF TypeOK, GetNotification
    <2>2. Head(queue[held[h]]) \in Items /\ Tail(queue[held[h]]) \in Seq(Items)
      BY <2>1
    <2>3. queue' \in [Queues -> Seq(Items)]
      BY <1>4, <2>2 DEF TypeOK, GetNotification
    <2>a. Head(queue[held[h]]) # Failure => Append(received[h], Head(queue[held[h]])) \in Seq(Nat)
      BY <2>2 DEF TypeOK, Items
    <2>4. received' \in [Handles -> Seq(Nat)]
      BY <1>4, <2>a DEF TypeOK, GetNotification
    <2>5. user' \in [Handles -> UserStates] /\ user'[h] \notin {"replay", "get"}
      BY <1>4 DEF TypeOK, UserStates, GetNotification
    <2>6. TypeOK'
      BY <1>4, <2>3, <2>4, <2>5, RequestsUntouched DEF TypeOK, GetNotification
    <2>7. HandleHasItsQueue'
      BY <1>4, <2>5 DEF TypeOK, GetNotification
    <2>8. Keeping'
      BY <1>4 DEF Keeping, NothingPendingWhileRegistered, NothingPendingAfterCompletion,
                  GetNotification
    <2> QED BY <2>6, <2>7, <2>8
  <1>5. ASSUME Abandon(h) PROVE Routing' /\ Keeping'
    <2>1. TypeOK'
      BY <1>5, RequestsUntouched DEF TypeOK, UserStates, Abandon, historyVars
    <2>2. HandleHasItsQueue'
      BY <1>5 DEF TypeOK, Abandon
    <2>3. Keeping'
      BY <1>5 DEF Keeping, NothingPendingWhileRegistered, NothingPendingAfterCompletion, Abandon
    <2> QED BY <2>1, <2>2, <2>3
  <1>6. ASSUME Unregister(h) PROVE Routing' /\ Keeping'
    <2>1. TypeOK'
      BY <1>6, <1>a, RequestsUntouched DEF TypeOK, UserStates, Unregister, historyVars
    <2>2. HandleHasItsQueue'
      BY <1>6 DEF TypeOK, Unregister
    <2>3. Keeping'
      BY <1>6, <1>a DEF TypeOK, Keeping, NothingPendingWhileRegistered,
                        NothingPendingAfterCompletion, Unregister
    <2> QED BY <2>1, <2>2, <2>3
  <1>7. ASSUME NextGlobalNotification(h) PROVE Routing' /\ Keeping'
    <2>a. calls[h] + 1 \in 0..MaxCalls
      BY <1>7, <1>a DEF TypeOK, NextGlobalNotification
    <2>1. TypeOK'
      BY <1>7, <2>a, GlobalQueueIsAQueue, RequestsUntouched
      DEF TypeOK, UserStates, NextGlobalNotification, historyVars
    <2>2. HandleHasItsQueue'
      BY <1>7, GlobalQueueIsAQueue DEF TypeOK, NextGlobalNotification
    <2>3. Keeping'
      BY <1>7 DEF Keeping, NothingPendingWhileRegistered, NothingPendingAfterCompletion,
                  NextGlobalNotification
    <2> QED BY <2>1, <2>2, <2>3
  <1> QED BY <1>0, <1>1, <1>2, <1>3, <1>4, <1>5, <1>6, <1>7 DEF HandleStep

-----------------------------------------------------------------------------
(* fail_all, and the theorems.                                             *)

LEMMA FailSteps ==
  ASSUME IInv, FailAll \/ ReaderExits
  PROVE  IInv'
  <1> USE DEF IInv, Routing
  <1>1. CASE FailAll
    <2>1. \A ch \in Channels : Elements(pending[ch]) \subseteq Nat
      BY DEF TypeOK, Elements
    <2>2. TypeOK'
      <3>1. owedResponses' \subseteq Requests \X Answers
        BY <1>1 DEF TypeOK, FailAll, Answers
      <3>2. owedItems' \subseteq Queues \X Items
        BY <1>1 DEF TypeOK, FailAll, Items
      <3>3. registered' \in [Channels -> Queues \cup {NoQueue}] /\ pending' \in [Channels -> Seq(Nat)]
        BY <1>1 DEF TypeOK, FailAll
      <3>4. dropped' \in [Channels -> SUBSET Nat]
        BY <1>1, <2>1 DEF TypeOK, FailAll
      <3> QED BY <1>1, <3>1, <3>2, <3>3, <3>4 DEF TypeOK, FailAll, userVars
    <2>3. HandleHasItsQueue'
      BY <1>1 DEF HandleHasItsQueue, FailAll, userVars
    <2>a. /\ owedResponses = {} /\ response_waiters' = {} /\ reader' = "failing"
          /\ owedResponses' = {<<r, Failure>> : r \in response_waiters}
          /\ UNCHANGED <<waiter, caller, sent, misread>>
      BY <1>1 DEF FailAll, ReaderLeaves
    <2>b. \A r \in response_waiters : \E put \in owedResponses' : put[1] = r
      <3> SUFFICES ASSUME NEW r \in response_waiters PROVE \E put \in owedResponses' : put[1] = r
        OBVIOUS
      <3>1. <<r, Failure>> \in owedResponses' /\ <<r, Failure>>[1] = r
        BY <2>a
      <3> QED BY <3>1
    <2>c. \A put \in owedResponses' : put[1] \in response_waiters /\ put = <<put[1], Failure>>
      BY <2>a
    <2>4. Requesting'
      <3>1. RequestsInStep'
        BY <2>a, <2>b, <2>c DEF Requesting, RequestsInStep
      <3>2. ReaderNeverBlocksOnAWaiter'
        BY <2>a, <2>c DEF TypeOK, Requesting, RequestsInStep, ReaderNeverBlocksOnAWaiter
      <3>3. WaitingCallerIsReachable'
        BY <2>a, <2>b DEF Requesting, WaitingCallerIsReachable
      <3> QED BY <3>1, <3>2, <3>3 DEF Requesting
    <2>5. Keeping'
      BY <1>1, ChannelsAreDistinct
      DEF Keeping, NothingPendingWhileRegistered, NothingPendingAfterCompletion, FailAll, Channels
    <2> QED BY <2>2, <2>3, <2>4, <2>5
  <1>2. CASE ReaderExits
    <2> UNCHANGED channelVars /\ UNCHANGED requestVars
      BY <1>2 DEF ReaderExits
    <2>1. TypeOK'
      BY <1>2, ChannelsUntouched DEF TypeOK, ReaderExits, requestVars
    <2>2. Requesting'
      BY <1>2 DEF Requesting, RequestsInStep, ReaderNeverBlocksOnAWaiter, WaitingCallerIsReachable,
                  ReaderExits, requestVars
    <2> QED BY <2>1, <2>2, ChannelsUntouched
  <1> QED BY <1>1, <1>2

\* Type correctness and the safety of the tables, as one inductive invariant.
THEOREM RouterInvariant == Spec => []IInv
  <1>1. IInv /\ [Next]_vars => IInv'
    <2> SUFFICES ASSUME IInv, [Next]_vars PROVE IInv'
      OBVIOUS
    <2>1. ASSUME NEW r \in Requests, RequestStep(r) PROVE IInv'
      BY <2>1, RequestSteps
    <2>2. ASSUME NEW r \in Requests, NEW answer \in {"result", "error"}, RouteResponse(r, answer)
          PROVE  IInv'
      BY <2>2, ResponseSteps, SentinelsAreDistinct DEF Answers
    <2>3. ASSUME NEW ch \in Channels, RouteNotification(ch) PROVE IInv'
      BY <2>3, NotificationSteps
    <2>4. ASSUME NEW put \in owedResponses, PutResponse(put[1], put[2]) PROVE IInv'
      <3>1. put[1] \in Requests /\ put[2] \in Answers
        BY DEF IInv, Routing, TypeOK
      <3> QED BY <2>4, <3>1, ResponseSteps
    <2>5. ASSUME NEW put \in owedItems, PutNotification(put[1], put[2]) PROVE IInv'
      BY <2>5, NotificationSteps
    <2>6. CASE FailAll \/ ReaderExits
      BY <2>6, FailSteps
    <2>7. ASSUME NEW h \in Handles, HandleStep(h) PROVE IInv'
      BY <2>7, HandleSteps
    <2>8. CASE UNCHANGED vars
      <3> UNCHANGED channelVars /\ UNCHANGED requestVars /\ UNCHANGED reader
        BY <2>8 DEF vars
      <3>1. TypeOK'
        BY ChannelsUntouched, RequestsUntouched DEF IInv, Routing, TypeOK
      <3> QED BY <3>1, ChannelsUntouched, RequestsUntouched DEF IInv, Routing
    <2>9. ASSUME NEW r \in Requests, RouteUnreadableError(r) PROVE IInv'
      BY <2>9, UnreadableErrorSteps
    <2> QED BY <2>1, <2>2, <2>3, <2>4, <2>5, <2>6, <2>7, <2>8, <2>9 DEF Next, ReaderPut
  <1> QED BY InitIInv, <1>1, PTL DEF Spec

\* Every variable keeps its type.
THEOREM RouterTypes == Spec => []TypeOK
  BY RouterInvariant, PTL DEF IInv, Routing

\* The reader thread is never blocked by a full response queue.
THEOREM ReaderNeverBlocks == Spec => []ReaderNeverBlocksOnAWaiter
  BY RouterInvariant, PTL DEF IInv, Requesting

\* The waiter of a thread that waits is in the table or about to be answered,
\* but for the one of an error response that route_response could not read.
THEOREM WaitersAreReachable == Spec => []WaitingCallerIsReachable
  BY RouterInvariant, PTL DEF IInv, Requesting

\* A turn, login or global queue never misses events kept on the side.
THEOREM RegisteredKeepsNothingPending == Spec => []NothingPendingWhileRegistered
  BY RouterInvariant, PTL DEF IInv, Keeping

\* A finished turn leaves nothing in the pending table.
THEOREM FinishedTurnKeepsNothing == Spec => []NothingPendingAfterCompletion
  BY RouterInvariant, PTL DEF IInv, Keeping

-----------------------------------------------------------------------------
(* Where the events are.  A home is a place together with the owner of it. *)

Homes(ch) ==
    ({"pending", "dropped"} \X {ch}) \cup ({"owed", "queue"} \X QueuesOf(ch))
    \cup ({"replay", "received"} \X HandlesOf(ch))

\* The events in a home.
Stored(x) ==
    CASE x[1] = "pending" -> Elements(pending[x[2]])
      [] x[1] = "dropped" -> dropped[x[2]]
      [] x[1] = "owed" -> {k \in Nat : <<x[2], k>> \in owedItems}
      [] x[1] = "queue" -> Elements(queue[x[2]]) \cap Nat
      [] x[1] = "replay" -> Elements(replay[x[2]])
      [] x[1] = "received" -> Elements(received[x[2]])
Stock(ch) == [x \in Homes(ch) |-> Stored(x)]

\* Every event up to n is in one of the homes, and nothing else is.
Placed(homes, stock, n) ==
    /\ \A x, y \in homes : \A k \in stock[x] \cap stock[y] : x = y
    /\ \A k : k \in 1..n <=> \E x \in homes : k \in stock[x]

Distinct(s) == \A i, j \in DOMAIN s : s[i] = s[j] /\ s[i] \in Nat => i = j

\* A handle looks only at queues of its channel, and replays only when it says so.
Housed ==
    /\ \A ch \in Channels : registered[ch] \in QueuesOf(ch) \cup {NoQueue}
    /\ \A h \in Handles : user[h] \in {"replay", "get"} => held[h] \in QueuesOf(ChannelOf[h])
    /\ \A h \in Handles : user[h] # "replay" => replay[h] = <<>>

NoneTwice ==
    /\ \A ch \in Channels : Distinct(pending[ch]) /\ \A q \in QueuesOf(ch) : Distinct(queue[q])
    /\ \A h \in Handles : Distinct(replay[h]) /\ Distinct(received[h])

Placing ==
    /\ Housed
    /\ NoneTwice
    /\ \A ch \in Channels : Placed(Homes(ch), Stock(ch), routed[ch])

\* Events may change their home, and the next ones may arrive in one.
LEMMA Moving ==
  ASSUME NEW homes, NEW old, NEW new, NEW n \in Nat, NEW m \in Nat, n <= m, Placed(homes, old, n),
         NEW a \in homes, NEW b \in homes, a # b, new[a] \subseteq old[a],
         new[b] = old[b] \cup (old[a] \ new[a]) \cup ((n + 1)..m),
         \A x \in homes : x # a /\ x # b => new[x] = old[x]
  PROVE  Placed(homes, new, m)
  <1>1. \A x \in homes : \A k \in new[x] :
          \/ x = b /\ k \in (n + 1)..m
          \/ x = b /\ k \in old[a] \ new[a]
          \/ k \in old[x] /\ (k \in old[a] \ new[a] => x = b)
    BY DEF Placed
  <1>2. \A k : k \in 1..m <=> k \in 1..n \/ k \in (n + 1)..m
    OBVIOUS
  <1>3. \A k \in (n + 1)..m : k \notin 1..n
    OBVIOUS
  <1>4. ASSUME NEW x \in homes, NEW y \in homes, NEW k \in new[x] \cap new[y] PROVE x = y
    BY <1>1, <1>3 DEF Placed
  <1>5. ASSUME NEW k, k \in 1..m PROVE \E x \in homes : k \in new[x]
    BY <1>2, <1>5 DEF Placed
  <1>6. ASSUME NEW x \in homes, NEW k \in new[x] PROVE k \in 1..m
    BY <1>1, <1>2 DEF Placed
  <1> QED BY <1>4, <1>5, <1>6 DEF Placed

LEMMA Appended ==
  ASSUME NEW A, NEW s \in Seq(A), NEW e \in A
  PROVE  /\ Elements(Append(s, e)) = Elements(s) \cup {e}
         /\ Distinct(s) /\ e \notin Elements(s) \cap Nat => Distinct(Append(s, e))
  <1>1. /\ DOMAIN Append(s, e) = 1..(Len(s) + 1) /\ DOMAIN s = 1..Len(s) /\ Len(s) \in Nat
        /\ \A i \in 1..Len(s) : Append(s, e)[i] = s[i]
        /\ Append(s, e)[Len(s) + 1] = e
    OBVIOUS
  <1>2. \A i \in 1..(Len(s) + 1) : i \in 1..Len(s) \/ i = Len(s) + 1
    BY <1>1
  <1>3. Elements(Append(s, e)) = Elements(s) \cup {e}
    BY <1>1, <1>2 DEF Elements
  <1>4. ASSUME Distinct(s), e \notin Elements(s) \cap Nat PROVE Distinct(Append(s, e))
    BY <1>1, <1>2, <1>4 DEF Distinct, Elements
  <1> QED BY <1>3, <1>4

LEMMA Headed ==
  ASSUME NEW A, NEW s \in Seq(A), s # <<>>, Distinct(s)
  PROVE  /\ Head(s) \in Elements(s) /\ Tail(s) \in Seq(A)
         /\ Distinct(Tail(s))
         /\ Elements(Tail(s)) \cap Nat = (Elements(s) \cap Nat) \ {Head(s)}
  <1>1. /\ Len(s) \in Nat \ {0} /\ DOMAIN s = 1..Len(s) /\ Head(s) = s[1] /\ Tail(s) \in Seq(A)
        /\ DOMAIN Tail(s) = 1..(Len(s) - 1)
        /\ \A i \in 1..(Len(s) - 1) : Tail(s)[i] = s[i + 1]
    OBVIOUS
  <1>2. Distinct(Tail(s))
    BY <1>1 DEF Distinct
  <1>3. ASSUME NEW k \in Nat PROVE k \in Elements(Tail(s)) <=> k \in Elements(s) /\ k # Head(s)
    <2>1. ASSUME NEW i \in 1..(Len(s) - 1), k = Tail(s)[i] PROVE k \in Elements(s) /\ k # Head(s)
      BY <1>1, <2>1 DEF Elements, Distinct
    <2>2. ASSUME NEW i \in 1..Len(s), k = s[i], k # s[1] PROVE k \in Elements(Tail(s))
      <3>1. i - 1 \in 1..(Len(s) - 1) /\ Tail(s)[i - 1] = s[i]
        BY <1>1, <2>2
      <3> QED BY <1>1, <2>2, <3>1 DEF Elements
    <2> QED BY <1>1, <2>1, <2>2 DEF Elements
  <1> QED BY <1>1, <1>2, <1>3 DEF Elements

LEMMA QueuesApart ==
  ASSUME NEW c \in Channels, NEW ch \in Channels, c # ch
  PROVE  QueuesOf(c) \cap QueuesOf(ch) = {} /\ HandlesOf(c) \cap HandlesOf(ch) = {}
  BY SentinelsAreDistinct DEF QueuesOf, HandlesOf, GlobalQueue

LEMMA QueuesTyped ==
  ASSUME NEW ch \in Channels PROVE QueuesOf(ch) \subseteq Queues
  BY DEF QueuesOf, HandlesOf, Queues

\* A home whose owner a step leaves alone keeps its events.
LEMMA Elsewhere ==
  ASSUME NEW ch \in Channels, NEW x \in Homes(ch),
         x[1] = "pending" => pending'[ch] = pending[ch],
         x[1] = "dropped" => dropped'[ch] = dropped[ch],
         x[1] = "owed" => \A k \in Nat : <<x[2], k>> \in owedItems' <=> <<x[2], k>> \in owedItems,
         x[1] = "queue" => Elements(queue'[x[2]]) \cap Nat = Elements(queue[x[2]]) \cap Nat,
         x[1] = "replay" => replay'[x[2]] = replay[x[2]],
         x[1] = "received" => received'[x[2]] = received[x[2]]
  PROVE  Stock(ch)'[x] = Stock(ch)[x]
  <1>1. Stored(x)' = Stored(x)
    <2>1. x[1] = "queue" => Stored(x)' = Elements(queue'[x[2]]) \cap Nat
      BY DEF Stored, Elements
    <2>2. x[1] = "queue" => Stored(x) = Elements(queue[x[2]]) \cap Nat
      BY DEF Stored
    <2>3. CASE x[1] = "owed"
      BY <2>3 DEF Stored
    <2>4. CASE x[1] \in {"pending", "dropped"}
      <3>1. x[2] = ch
        BY <2>4 DEF Homes
      <3> QED BY <2>4, <3>1 DEF Stored, Elements
    <2>5. CASE x[1] \in {"replay", "received"}
      BY <2>5 DEF Stored, Elements
    <2>6. x[1] \in {"pending", "dropped", "owed", "queue", "replay", "received"}
      BY DEF Homes
    <2> QED BY <2>1, <2>2, <2>3, <2>4, <2>5, <2>6
  <1> QED BY <1>1 DEF Stock, Homes, QueuesOf, HandlesOf

\* A channel that a step leaves alone keeps its events where they are.
LEMMA ChannelUntouched ==
  ASSUME NEW ch \in Channels, Placed(Homes(ch), Stock(ch), routed[ch]), routed[ch] \in Nat,
         pending'[ch] = pending[ch], dropped'[ch] = dropped[ch], routed'[ch] = routed[ch],
         \A q \in QueuesOf(ch) :
            /\ Elements(queue'[q]) \cap Nat = Elements(queue[q]) \cap Nat
            /\ \A k \in Nat : <<q, k>> \in owedItems' <=> <<q, k>> \in owedItems,
         \A h \in HandlesOf(ch) : replay'[h] = replay[h] /\ received'[h] = received[h]
  PROVE  Placed(Homes(ch), Stock(ch), routed[ch])'
  <1>1. \A x \in Homes(ch) : Stock(ch)'[x] = Stock(ch)[x]
    BY Elsewhere DEF Homes
  <1>2. Homes(ch)' = Homes(ch)
    BY DEF Homes, QueuesOf, HandlesOf
  <1> QED BY <1>1, <1>2 DEF Placed

\* What the homes of channel ch hold, one by one.
Laid(ch) ==
    /\ Stock(ch)[<<"pending", ch>>] = Elements(pending[ch])
    /\ Stock(ch)[<<"dropped", ch>>] = dropped[ch]
    /\ \A q \in QueuesOf(ch) :
          /\ Stock(ch)[<<"owed", q>>] = {k \in Nat : <<q, k>> \in owedItems}
          /\ Stock(ch)[<<"queue", q>>] = Elements(queue[q]) \cap Nat
    /\ \A h \in HandlesOf(ch) :
          /\ Stock(ch)[<<"replay", h>>] = Elements(replay[h])
          /\ Stock(ch)[<<"received", h>>] = Elements(received[h])

LEMMA HomesOfChannel ==
  ASSUME NEW ch \in Channels
  PROVE  /\ <<"pending", ch>> \in Homes(ch) /\ <<"dropped", ch>> \in Homes(ch)
         /\ \A q \in QueuesOf(ch) : <<"owed", q>> \in Homes(ch) /\ <<"queue", q>> \in Homes(ch)
         /\ \A h \in HandlesOf(ch) : <<"replay", h>> \in Homes(ch) /\ <<"received", h>> \in Homes(ch)
         /\ Laid(ch) /\ Laid(ch)'
  <1>1. /\ <<"pending", ch>> \in Homes(ch) /\ <<"dropped", ch>> \in Homes(ch)
        /\ \A q \in QueuesOf(ch) : <<"owed", q>> \in Homes(ch) /\ <<"queue", q>> \in Homes(ch)
        /\ \A h \in HandlesOf(ch) : <<"replay", h>> \in Homes(ch) /\ <<"received", h>> \in Homes(ch)
    BY DEF Homes
  <1>2. \A x \in Homes(ch) : Stock(ch)[x] = Stored(x) /\ Stock(ch)'[x] = Stored(x)'
    BY DEF Stock, Homes, QueuesOf, HandlesOf
  <1>3. Laid(ch)
    BY <1>1, <1>2 DEF Laid, Stored
  <1>4. Laid(ch)'
    <2>1. /\ Stock(ch)'[<<"pending", ch>>] = Elements(pending'[ch])
          /\ Stock(ch)'[<<"dropped", ch>>] = dropped'[ch]
      BY <1>1, <1>2, ZenonT(40) DEF Stored, Elements
    <2>2. ASSUME NEW q \in QueuesOf(ch)
          PROVE  /\ Stock(ch)'[<<"owed", q>>] = {k \in Nat : <<q, k>> \in owedItems'}
                 /\ Stock(ch)'[<<"queue", q>>] = Elements(queue'[q]) \cap Nat
      <3>1. Stored(<<"owed", q>>)' = {k \in Nat : <<q, k>> \in owedItems'}
        BY DEF Stored
      <3>2. Stored(<<"queue", q>>)' = Elements(queue'[q]) \cap Nat
        BY DEF Stored, Elements
      <3> QED BY <1>1, <1>2, <3>1, <3>2
    <2>3. ASSUME NEW h \in HandlesOf(ch)
          PROVE  /\ Stock(ch)'[<<"replay", h>>] = Elements(replay'[h])
                 /\ Stock(ch)'[<<"received", h>>] = Elements(received'[h])
      <3>1. Stored(<<"replay", h>>)' = Elements(replay'[h])
        BY DEF Stored, Elements
      <3>2. Stored(<<"received", h>>)' = Elements(received'[h])
        BY DEF Stored, Elements
      <3> QED BY <1>1, <1>2, <3>1, <3>2
    <2> QED BY <2>1, <2>2, <2>3 DEF Laid, Elements, QueuesOf, HandlesOf
  <1> QED BY <1>1, <1>3, <1>4

\* What is placed has a number that was routed.
LEMMA PlacedRange ==
  ASSUME NEW ch \in Channels, Placing, NEW x \in Homes(ch), NEW k \in Stock(ch)[x]
  PROVE  k \in 1..routed[ch] /\ \A y \in Homes(ch) : k \in Stock(ch)[y] => x = y
  BY DEF Placing, Placed

LEMMA PlacedInit == Init => Placing
  <1> SUFFICES ASSUME Init PROVE Placing
    OBVIOUS
  <1>1. Housed
    BY DEF Init, Housed, QueuesOf
  <1>2. NoneTwice
    <2>1. ASSUME NEW ch \in Channels, NEW q \in QueuesOf(ch) PROVE queue[q] = <<>>
      BY QueuesTyped DEF Init
    <2> QED BY <2>1 DEF Init, NoneTwice, Distinct
  <1>3. ASSUME NEW ch \in Channels PROVE Placed(Homes(ch), Stock(ch), routed[ch])
    <2>1. ASSUME NEW x \in Homes(ch) PROVE Stored(x) = {}
      <3>1. \A q \in QueuesOf(ch) : queue[q] = <<>>
        BY QueuesTyped DEF Init
      <3> QED BY <3>1 DEF Init, Stored, Homes, Elements, HandlesOf
    <2>2. routed[ch] = 0
      BY DEF Init
    <2> QED BY <2>1, <2>2 DEF Placed, Stock
  <1> QED BY <1>1, <1>2, <1>3 DEF Placing

\* route_notification: the next event arrives in the reader's hand, or is kept, or is
\* discarded with what was kept.
LEMMA RoutePlaces ==
  ASSUME IInv, Placing, NEW c \in Channels, RouteNotification(c)
  PROVE  Placing'
  <1>1. /\ routed[c] \in Nat /\ routed'[c] = routed[c] + 1 /\ owedItems = {}
        /\ UNCHANGED <<registered, queue, user, held, replay, received>>
        /\ \A ch \in Channels \ {c} : routed'[ch] = routed[ch] /\ pending'[ch] = pending[ch] /\ dropped'[ch] = dropped[ch]
    BY DEF IInv, Routing, TypeOK, RouteNotification, ReaderIsFree, userVars
  <1>2. PICK k \in Nat : k = routed[c] + 1 /\ k..k = {k} /\ (k..routed'[c]) = {k}
    BY <1>1
  <1>3. pending[c] \in Seq(Nat) /\ Distinct(pending[c]) /\ k \notin Elements(pending[c])
    <2>1. \A e \in Elements(pending[c]) : e \in 1..routed[c]
      <3>1. <<"pending", c>> \in Homes(c) /\ Stock(c)[<<"pending", c>>] = Elements(pending[c])
        BY HomesOfChannel DEF Laid
      <3> QED BY <3>1, PlacedRange
    <2> QED BY <1>1, <1>2, <2>1 DEF Placing, NoneTwice, IInv, Routing, TypeOK
  <1>4. \/ /\ registered[c] \in QueuesOf(c) /\ owedItems' = {<<registered[c], k>>}
           /\ pending'[c] = pending[c] /\ dropped'[c] = dropped[c]
        \/ /\ owedItems' = {} /\ pending'[c] = <<>>
           /\ dropped'[c] = dropped[c] \cup Elements(pending[c]) \cup {k}
        \/ /\ owedItems' = {} /\ pending'[c] = Append(pending[c], k) /\ dropped'[c] = dropped[c]
    BY <1>1, <1>2 DEF RouteNotification, Placing, Housed, IInv, Routing, TypeOK
  <1>5. Housed'
    BY <1>1 DEF Placing, Housed, QueuesOf, HandlesOf
  <1>6. NoneTwice'
    <2>1. Distinct(Append(pending[c], k))
      BY <1>3, Appended
    <2>2. Distinct(<<>>)
      BY DEF Distinct
    <2>3. Distinct(pending'[c])
      BY <1>3, <1>4, <2>1, <2>2
    <2> QED BY <1>1, <2>3 DEF Placing, NoneTwice
  <1>7. ASSUME NEW ch \in Channels, ch # c PROVE Placed(Homes(ch), Stock(ch), routed[ch])'
    <2>1. \A q \in QueuesOf(ch), n \in Nat : <<q, n>> \notin owedItems /\ <<q, n>> \notin owedItems'
      BY <1>1, <1>4, <1>7, QueuesApart
    <2>2. Placed(Homes(ch), Stock(ch), routed[ch]) /\ routed[ch] \in Nat
      BY DEF Placing, IInv, Routing, TypeOK
    <2> QED BY <1>1, <1>7, <2>1, <2>2, ChannelUntouched
  <1>8. Placed(Homes(c), Stock(c), routed[c])'
    <2>0. PICK homes, old, new, p, d :
            /\ homes = Homes(c) /\ homes = Homes(c)' /\ old = Stock(c) /\ new = Stock(c)'
            /\ p = <<"pending", c>> /\ d = <<"dropped", c>>
      BY DEF Homes, QueuesOf, HandlesOf
    <2>1. /\ Placed(homes, old, routed[c]) /\ Laid(c) /\ Laid(c)'
          /\ p \in homes /\ d \in homes /\ p # d
          /\ old[p] = Elements(pending[c]) /\ old[d] = dropped[c]
          /\ new[p] = Elements(pending'[c]) /\ new[d] = dropped'[c]
      BY <2>0, HomesOfChannel DEF Placing, Laid
    <2>2. CASE owedItems' = {} /\ pending'[c] = <<>> /\ dropped'[c] = dropped[c] \cup Elements(pending[c]) \cup {k}
      <3>1. \A x \in homes : x # p /\ x # d => new[x] = old[x]
        BY <1>1, <2>0, <2>2, Elsewhere DEF Homes
      <3>2. new[p] = {} /\ new[d] = old[d] \cup (old[p] \ new[p]) \cup {k}
        BY <2>1, <2>2 DEF Elements
      <3>3. Placed(homes, new, routed'[c])
        BY <1>1, <1>2, <2>1, <3>1, <3>2, Moving, SMTT(30)
      <3> QED BY <2>0, <3>3
    <2>3. CASE owedItems' = {} /\ pending'[c] = Append(pending[c], k) /\ dropped'[c] = dropped[c]
      <3>1. \A x \in homes : x # p /\ x # d => new[x] = old[x]
        BY <1>1, <2>0, <2>3, Elsewhere DEF Homes
      <3>2. new[d] = old[d] /\ new[p] = old[p] \cup (old[d] \ new[d]) \cup {k}
        BY <1>3, <2>1, <2>3, Appended
      <3>3. Placed(homes, new, routed'[c])
        BY <1>1, <1>2, <2>1, <3>1, <3>2, Moving
      <3> QED BY <2>0, <3>3
    <2>4. CASE registered[c] \in QueuesOf(c) /\ owedItems' = {<<registered[c], k>>}
               /\ pending'[c] = pending[c] /\ dropped'[c] = dropped[c]
      <3>0. PICK q, o : q \in QueuesOf(c) /\ q = registered[c] /\ o = <<"owed", q>> /\ o \in homes /\ o # p
        <4>1. <<"owed", registered[c]>> \in Homes(c)
          BY <2>4, HomesOfChannel
        <4> QED BY <2>0, <2>4, <4>1
      <3>1. \A x \in homes : x # p /\ x # o => new[x] = old[x]
        BY <1>1, <2>0, <2>4, <3>0, Elsewhere DEF Homes
      <3>2. new[p] = old[p] /\ new[o] = old[o] \cup (old[p] \ new[p]) \cup {k}
        <4>1. old[o] = {} /\ new[o] = {k}
          <5>1. old[o] = {n \in Nat : <<q, n>> \in owedItems}
            BY <2>0, <2>1, <3>0 DEF Laid
          <5>2. new[o] = {n \in Nat : <<q, n>> \in owedItems'}
            BY <2>0, <2>1, <3>0, ZenonT(40) DEF Laid, QueuesOf, HandlesOf
          <5>3. owedItems = {} /\ owedItems' = {<<q, k>>}
            BY <1>1, <2>4, <3>0
          <5> QED BY <5>1, <5>2, <5>3
        <4> QED BY <2>1, <2>4, <4>1
      <3>3. Placed(homes, new, routed'[c])
        <4>1. PICK m \in Nat, n \in Nat : m = routed'[c] /\ n = routed[c] /\ n <= m /\ (n + 1)..m = {k}
          BY <1>1, <1>2
        <4>2. /\ p \in homes /\ o \in homes /\ p # o /\ new[p] \subseteq old[p]
              /\ new[o] = old[o] \cup (old[p] \ new[p]) \cup ((n + 1)..m)
              /\ Placed(homes, old, n)
          BY <2>1, <3>0, <3>2, <4>1
        <4>3. Placed(homes, new, m)
          BY <3>1, <4>1, <4>2, Moving
        <4> QED BY <4>1, <4>3
      <3> QED BY <2>0, <3>3
    <2> QED BY <1>4, <2>2, <2>3, <2>4
  <1> QED BY <1>5, <1>6, <1>7, <1>8 DEF Placing

\* A step that takes events of a channel from one home to another.
LEMMA SameHomes ==
  ASSUME NEW c PROVE Homes(c)' = Homes(c) /\ QueuesOf(c)' = QueuesOf(c) /\ HandlesOf(c)' = HandlesOf(c)
  BY DEF Homes, QueuesOf, HandlesOf

LEMMA Moved ==
  ASSUME NEW c \in Channels, Placed(Homes(c), Stock(c), routed[c]), routed[c] \in Nat,
         routed'[c] = routed[c], NEW a \in Homes(c), NEW b \in Homes(c), a # b,
         Stock(c)'[a] \subseteq Stock(c)[a],
         Stock(c)'[b] = Stock(c)[b] \cup (Stock(c)[a] \ Stock(c)'[a]),
         \A x \in Homes(c) : x # a /\ x # b => Stock(c)'[x] = Stock(c)[x]
  PROVE  Placed(Homes(c), Stock(c), routed[c])'
  <1>n. PICK n \in Nat : n = routed[c] /\ n = routed'[c] /\ (n + 1)..n = {}
    OBVIOUS
  <1>1. PICK homes, old, new : homes = Homes(c) /\ homes = Homes(c)' /\ old = Stock(c) /\ new = Stock(c)'
    BY SameHomes
  <1>2. /\ a \in homes /\ b \in homes /\ new[a] \subseteq old[a] /\ Placed(homes, old, n)
        /\ new[b] = old[b] \cup (old[a] \ new[a]) \cup ((n + 1)..n)
        /\ \A x \in homes : x # a /\ x # b => new[x] = old[x]
    BY <1>n, <1>1
  <1>3. Placed(homes, new, n)
    BY <1>2, Moving
  <1> QED BY <1>n, <1>1, <1>3

\* The put after the unlock: from the reader's hand into the queue.
LEMMA PutPlaces ==
  ASSUME IInv, Placing, NEW q \in Queues, NEW e \in Items, PutNotification(q, e)
  PROVE  Placing'
  <1>1. /\ <<q, e>> \in owedItems /\ owedItems' = owedItems \ {<<q, e>>}
        /\ queue \in [Queues -> Seq(Items)] /\ queue' = [queue EXCEPT ![q] = Append(queue[q], e)]
        /\ UNCHANGED <<registered, pending, user, held, replay, routed, received, dropped>>
    BY DEF IInv, Routing, TypeOK, PutNotification, userVars, historyVars
  <1>2. queue'[q] = Append(queue[q], e) /\ \A u \in Queues \ {q} : queue'[u] = queue[u]
    BY <1>1
  <1>3. Housed'
    BY <1>1 DEF Placing, Housed, QueuesOf, HandlesOf
  <1>4. ASSUME NEW ch \in Channels, q \in QueuesOf(ch), e \in Nat PROVE e \notin Elements(queue[q])
    <2>1. <<"owed", q>> \in Homes(ch) /\ <<"queue", q>> \in Homes(ch) /\ Laid(ch)
      BY <1>4, HomesOfChannel
    <2>2. e \in Stock(ch)[<<"owed", q>>]
      BY <1>1, <1>4, <2>1 DEF Laid
    <2>3. e \notin Stock(ch)[<<"queue", q>>]
      BY <2>1, <2>2, PlacedRange
    <2> QED BY <1>4, <2>1, <2>3 DEF Laid
  <1>5. ASSUME NEW ch \in Channels PROVE Placed(Homes(ch), Stock(ch), routed[ch])'
    <2>1. Placed(Homes(ch), Stock(ch), routed[ch]) /\ routed[ch] \in Nat /\ routed'[ch] = routed[ch]
      BY <1>1 DEF Placing, IInv, Routing, TypeOK
    <2>2. CASE q \notin QueuesOf(ch) \/ e = Failure
      <3>1. \A u \in QueuesOf(ch), k \in Nat : <<u, k>> \in owedItems' <=> <<u, k>> \in owedItems
        BY <1>1, <2>2, SentinelsAreDistinct
      <3>2. \A u \in QueuesOf(ch) : Elements(queue'[u]) \cap Nat = Elements(queue[u]) \cap Nat
        <4>1. \A u \in QueuesOf(ch) : u # q => queue'[u] = queue[u]
          BY <1>2, QueuesTyped
        <4>2. q \in QueuesOf(ch) => Elements(queue'[q]) = Elements(queue[q]) \cup {Failure}
          BY <1>1, <1>2, <2>2, Appended
        <4> QED BY <4>1, <4>2, SentinelsAreDistinct
      <3> QED BY <1>1, <2>1, <3>1, <3>2, ChannelUntouched
    <2>3. CASE q \in QueuesOf(ch) /\ e # Failure
      <3>1. PICK a \in Homes(ch), b \in Homes(ch) : a = <<"owed", q>> /\ b = <<"queue", q>> /\ a # b
        BY <2>3, HomesOfChannel
      <3>2. /\ Stock(ch)[a] = {k \in Nat : <<q, k>> \in owedItems}
            /\ Stock(ch)'[a] = {k \in Nat : <<q, k>> \in owedItems'}
            /\ Stock(ch)[b] = Elements(queue[q]) \cap Nat
            /\ Stock(ch)'[b] = Elements(queue'[q]) \cap Nat
        BY <2>3, <3>1, HomesOfChannel, SameHomes DEF Laid
      <3>3. e \in Nat /\ Elements(queue'[q]) = Elements(queue[q]) \cup {e}
        BY <1>1, <1>2, <2>3, Appended DEF Items
      <3>4. Stock(ch)'[a] = Stock(ch)[a] \ {e} /\ e \in Stock(ch)[a]
        BY <1>1, <3>2, <3>3
      <3>5. Stock(ch)'[b] = Stock(ch)[b] \cup {e}
        BY <3>2, <3>3
      <3>6. ASSUME NEW x \in Homes(ch), x # a, x # b PROVE Stock(ch)'[x] = Stock(ch)[x]
        <4>1. x[1] = "queue" => queue'[x[2]] = queue[x[2]]
          BY <1>2, <3>1, <3>6, QueuesTyped DEF Homes
        <4>2. x[1] = "owed" => \A k \in Nat : <<x[2], k>> \in owedItems' <=> <<x[2], k>> \in owedItems
          BY <1>1, <3>1, <3>6 DEF Homes
        <4> QED BY <1>1, <4>1, <4>2, Elsewhere DEF Homes
      <3>7. /\ Stock(ch)'[a] \subseteq Stock(ch)[a]
            /\ Stock(ch)'[b] = Stock(ch)[b] \cup (Stock(ch)[a] \ Stock(ch)'[a])
        BY <3>4, <3>5
      <3> QED BY <2>1, <3>1, <3>6, <3>7, Moved
    <2> QED BY <1>1, <2>2, <2>3
  <1>6. NoneTwice'
    <2>1. ASSUME NEW ch \in Channels, NEW u \in QueuesOf(ch) PROVE Distinct(queue'[u])
      <3>1. CASE u = q
        BY <1>1, <1>2, <1>4, <2>1, <3>1, Appended DEF Placing, NoneTwice, Items
      <3>2. CASE u # q
        BY <1>2, <2>1, <3>2, QueuesTyped DEF Placing, NoneTwice
      <3> QED BY <3>1, <3>2
    <2> QED BY <1>1, <2>1 DEF Placing, NoneTwice, QueuesOf, HandlesOf
  <1> QED BY <1>3, <1>5, <1>6 DEF Placing

\* Steps that leave every event where it is.
LEMMA EventsUntouched ==
  ASSUME IInv, Placing, UNCHANGED <<pending, queue, replay, owedItems, routed, received, dropped>>
  PROVE  NoneTwice' /\ \A ch \in Channels : Placed(Homes(ch), Stock(ch), routed[ch])'
  <1>1. NoneTwice'
    BY DEF Placing, NoneTwice, QueuesOf, HandlesOf
  <1>2. ASSUME NEW ch \in Channels PROVE Placed(Homes(ch), Stock(ch), routed[ch])'
    <2>1. Placed(Homes(ch), Stock(ch), routed[ch]) /\ routed[ch] \in Nat
      BY DEF Placing, IInv, Routing, TypeOK
    <2> QED BY <2>1, ChannelUntouched
  <1> QED BY <1>1, <1>2

\* fail_all: what was kept is discarded, and the failure is no event.
LEMMA FailPlaces ==
  ASSUME IInv, Placing, FailAll
  PROVE  Placing'
  <1>1. /\ owedItems = {} /\ \A put \in owedItems' : put[2] = Failure
        /\ UNCHANGED <<queue, user, held, replay, routed, received>>
        /\ \A ch \in Channels :
              /\ pending'[ch] = <<>> /\ dropped'[ch] = dropped[ch] \cup Elements(pending[ch])
              /\ registered'[ch] \in {registered[ch], NoQueue}
    BY DEF FailAll, ReaderLeaves, userVars
  <1>2. Housed'
    BY <1>1 DEF Placing, Housed, QueuesOf, HandlesOf
  <1>3. NoneTwice'
    BY <1>1 DEF Placing, NoneTwice, Distinct, QueuesOf, HandlesOf
  <1>4. ASSUME NEW ch \in Channels PROVE Placed(Homes(ch), Stock(ch), routed[ch])'
    <2>1. PICK a \in Homes(ch), b \in Homes(ch) : a = <<"pending", ch>> /\ b = <<"dropped", ch>> /\ a # b
      BY HomesOfChannel
    <2>2. /\ Stock(ch)[a] = Elements(pending[ch]) /\ Stock(ch)'[a] = Elements(pending'[ch])
          /\ Stock(ch)[b] = dropped[ch] /\ Stock(ch)'[b] = dropped'[ch]
      BY <2>1, HomesOfChannel DEF Laid
    <2>3. Stock(ch)'[a] = {}
      BY <1>1, <2>2 DEF Elements
    <2>4. /\ Stock(ch)'[a] \subseteq Stock(ch)[a]
          /\ Stock(ch)'[b] = Stock(ch)[b] \cup (Stock(ch)[a] \ Stock(ch)'[a])
      BY <1>1, <2>2, <2>3
    <2>5. ASSUME NEW x \in Homes(ch), x # a, x # b PROVE Stock(ch)'[x] = Stock(ch)[x]
      <3>1. \A k \in Nat : <<x[2], k>> \notin owedItems /\ <<x[2], k>> \notin owedItems'
        BY <1>1, SentinelsAreDistinct
      <3> QED BY <1>1, <2>1, <2>5, <3>1, Elsewhere DEF Homes
    <2>6. Placed(Homes(ch), Stock(ch), routed[ch]) /\ routed[ch] \in Nat /\ routed'[ch] = routed[ch]
      BY <1>1 DEF Placing, IInv, Routing, TypeOK
    <2> QED BY <2>1, <2>4, <2>5, <2>6, Moved
  <1> QED BY <1>2, <1>3, <1>4 DEF Placing

\* register_turn / register_login: what was kept is taken for replay.
LEMMA RegisterPlaces ==
  ASSUME IInv, Placing, NEW h \in Handles, Register(h)
  PROVE  Placing'
  <1> DEFINE c == ChannelOf[h]
  <1>0. c \in Channels /\ h \in HandlesOf(c)
    BY HandlesAssumption DEF HandlesOf
  <1>1. CASE registered[c] # NoQueue
    <2>1. UNCHANGED <<registered, pending, queue, held, replay, owedItems, routed, received, dropped>>
          /\ replay[h] = <<>> /\ user' = [user EXCEPT ![h] = "next"]
      BY <1>1 DEF Register, Placing, Housed
    <2>2. Housed'
      BY <2>1 DEF Placing, Housed, QueuesOf, HandlesOf, IInv, Routing, TypeOK
    <2> QED BY <2>1, <2>2, EventsUntouched DEF Placing
  <1>2. CASE registered[c] = NoQueue
    <2>1. PICK q : /\ q = <<h, calls[h] + 1>> /\ q \in QueuesOf(c)
                   /\ registered' = [registered EXCEPT ![c] = q] /\ held' = [held EXCEPT ![h] = q]
      <3>1. /\ c # Global /\ calls[h] + 1 \in 1..MaxCalls
        BY HandlesAssumption DEF Register, IInv, Routing, TypeOK
      <3>2. <<h, calls[h] + 1>> \in QueuesOf(c)
        BY <1>0, <3>1 DEF QueuesOf
      <3> QED BY <1>2, <3>2 DEF Register
    <2>2. /\ user' = [user EXCEPT ![h] = "replay"] /\ replay[h] = <<>>
          /\ pending' = [pending EXCEPT ![c] = <<>>] /\ replay' = [replay EXCEPT ![h] = pending[c]]
          /\ UNCHANGED <<queue, owedItems, routed, received, dropped>>
      BY <1>2 DEF Register, Placing, Housed
    <2>3. /\ pending'[c] = <<>> /\ \A ch \in Channels \ {c} : pending'[ch] = pending[ch]
          /\ replay'[h] = pending[c] /\ \A d \in Handles \ {h} : replay'[d] = replay[d]
      BY <1>0, <2>2 DEF IInv, Routing, TypeOK
    <2>4. Housed'
      BY <1>0, <2>1, <2>2 DEF Placing, Housed, QueuesOf, HandlesOf, IInv, Routing, TypeOK
    <2>5. NoneTwice'
      BY <1>0, <2>2, <2>3 DEF Placing, NoneTwice, Distinct, QueuesOf, HandlesOf
    <2>6. ASSUME NEW ch \in Channels PROVE Placed(Homes(ch), Stock(ch), routed[ch])'
      <3>1. Placed(Homes(ch), Stock(ch), routed[ch]) /\ routed[ch] \in Nat /\ routed'[ch] = routed[ch]
        BY <2>2 DEF Placing, IInv, Routing, TypeOK
      <3>2. CASE ch # c
        <4>1. \A d \in HandlesOf(ch) : d \in Handles /\ d # h
          BY <3>2 DEF HandlesOf
        <4> QED BY <2>2, <2>3, <3>1, <3>2, <4>1, ChannelUntouched
      <3>3. CASE ch = c
        <4>1. PICK a \in Homes(ch), b \in Homes(ch) : a = <<"pending", ch>> /\ b = <<"replay", h>> /\ a # b
          BY <1>0, <3>3, HomesOfChannel
        <4>2. /\ Stock(ch)[a] = Elements(pending[c]) /\ Stock(ch)'[a] = Elements(<<>>)
              /\ Stock(ch)[b] = Elements(<<>>) /\ Stock(ch)'[b] = Elements(pending[c])
          <5>1. Laid(ch) /\ Laid(ch)' /\ h \in HandlesOf(ch) /\ h \in HandlesOf(ch)'
            BY <1>0, <3>3, HomesOfChannel, SameHomes
          <5>2. /\ Stock(ch)[a] = Elements(pending[ch]) /\ Stock(ch)'[a] = Elements(pending'[ch])
                /\ Stock(ch)[b] = Elements(replay[h]) /\ Stock(ch)'[b] = Elements(replay'[h])
            BY <4>1, <5>1 DEF Laid
          <5> QED BY <2>2, <2>3, <3>3, <5>2
        <4>3. Elements(<<>>) = {}
          BY DEF Elements
        <4>4. ASSUME NEW x \in Homes(ch), x # a, x # b PROVE Stock(ch)'[x] = Stock(ch)[x]
          <5>1. x[1] = "replay" => x[2] \in Handles /\ x[2] # h
            BY <4>1, <4>4 DEF Homes, HandlesOf
          <5> QED BY <2>2, <2>3, <3>3, <4>1, <4>4, <5>1, Elsewhere DEF Homes
        <4>5. /\ Stock(ch)'[a] \subseteq Stock(ch)[a]
              /\ Stock(ch)'[b] = Stock(ch)[b] \cup (Stock(ch)[a] \ Stock(ch)'[a])
          BY <4>2, <4>3
        <4> QED BY <3>1, <4>1, <4>4, <4>5, Moved
      <3> QED BY <3>2, <3>3
    <2> QED BY <2>4, <2>5, <2>6 DEF Placing
  <1> QED BY <1>1, <1>2

\* A put of register_* after the unlock: the next event goes from the replay into the queue.
LEMMA ReplayPlaces ==
  ASSUME IInv, Placing, NEW h \in Handles, ReplayPending(h)
  PROVE  Placing'
  <1>1. CASE replay[h] = <<>>
    <2>1. UNCHANGED <<registered, pending, queue, held, replay, owedItems, routed, received, dropped>>
          /\ user' = [user EXCEPT ![h] = "next"]
      BY <1>1 DEF ReplayPending, historyVars
    <2>2. Housed'
      BY <1>1, <2>1 DEF Placing, Housed, QueuesOf, HandlesOf, IInv, Routing, TypeOK
    <2> QED BY <2>1, <2>2, EventsUntouched DEF Placing
  <1>2. CASE replay[h] # <<>>
    <2>h. PICK c \in Channels : c = ChannelOf[h]
      BY HandlesAssumption
    <2>1. PICK q, e, s : c = ChannelOf[h] /\ q = held[h] /\ e = Head(replay[h]) /\ s = Tail(replay[h])
      BY <2>h
    <2>2. /\ q \in QueuesOf(c) /\ q \in Queues /\ h \in HandlesOf(c)
          /\ e \in Nat /\ e \in Elements(replay[h]) /\ s \in Seq(Nat) /\ Distinct(s)
          /\ Elements(s) = Elements(replay[h]) \ {e}
      <3>1. user[h] = "replay"
        BY DEF ReplayPending
      <3>2. q \in QueuesOf(c) /\ h \in HandlesOf(c)
        BY <2>1, <3>1 DEF Placing, Housed, HandlesOf
      <3>3. replay[h] \in Seq(Nat) /\ Distinct(replay[h])
        BY DEF IInv, Routing, TypeOK, Placing, NoneTwice
      <3>4. /\ Head(replay[h]) \in Elements(replay[h]) /\ Tail(replay[h]) \in Seq(Nat)
            /\ Distinct(Tail(replay[h]))
            /\ Elements(Tail(replay[h])) \cap Nat = (Elements(replay[h]) \cap Nat) \ {Head(replay[h])}
        BY <1>2, <3>3, Headed
      <3>5. Elements(replay[h]) \subseteq Nat /\ Elements(Tail(replay[h])) \subseteq Nat
        BY <3>3, <3>4, SMTT(30) DEF Elements
      <3> QED BY <2>1, <3>2, <3>4, <3>5, QueuesTyped
    <2>3. /\ queue' = [queue EXCEPT ![q] = Append(queue[q], e)] /\ replay' = [replay EXCEPT ![h] = s]
          /\ UNCHANGED <<registered, pending, user, held, owedItems, routed, received, dropped>>
      BY <1>2, <2>1 DEF ReplayPending, historyVars
    <2>4. /\ queue'[q] = Append(queue[q], e) /\ \A u \in Queues \ {q} : queue'[u] = queue[u]
          /\ replay'[h] = s /\ \A d \in Handles \ {h} : replay'[d] = replay[d]
      BY <2>2, <2>3 DEF IInv, Routing, TypeOK
    <2>5. Housed'
      BY <2>3, <2>4, <1>2 DEF Placing, Housed, QueuesOf, HandlesOf
    <2>6. PICK a \in Homes(c), b \in Homes(c) : a = <<"replay", h>> /\ b = <<"queue", q>> /\ a # b
      BY <2>2, HomesOfChannel
    <2>7. /\ Stock(c)[a] = Elements(replay[h]) /\ Stock(c)'[a] = Elements(replay'[h])
          /\ Stock(c)[b] = Elements(queue[q]) \cap Nat /\ Stock(c)'[b] = Elements(queue'[q]) \cap Nat
      <3>1. Laid(c) /\ Laid(c)' /\ h \in HandlesOf(c)' /\ q \in QueuesOf(c)'
        BY <2>2, HomesOfChannel, SameHomes
      <3> QED BY <2>2, <2>6, <3>1 DEF Laid
    <2>8. queue[q] \in Seq(Items) /\ Distinct(queue[q]) /\ e \in Items /\ e \notin Elements(queue[q]) \cap Nat
      <3>1. e \notin Stock(c)[b]
        BY <2>2, <2>6, <2>7, PlacedRange
      <3> QED BY <2>2, <2>7, <3>1 DEF IInv, Routing, TypeOK, Items, Placing, NoneTwice
    <2>9. Distinct(queue'[q]) /\ Elements(queue'[q]) = Elements(queue[q]) \cup {e}
      BY <2>4, <2>8, Appended
    <2>10. NoneTwice'
      <3>1. ASSUME NEW ch \in Channels, NEW u \in QueuesOf(ch) PROVE Distinct(queue'[u])
        BY <2>4, <2>9, QueuesTyped DEF Placing, NoneTwice
      <3>2. \A d \in Handles : Distinct(replay'[d])
        BY <2>2, <2>4 DEF Placing, NoneTwice
      <3> QED BY <2>3, <3>1, <3>2 DEF Placing, NoneTwice, QueuesOf, HandlesOf
    <2>11. ASSUME NEW ch \in Channels PROVE Placed(Homes(ch), Stock(ch), routed[ch])'
      <3>1. Placed(Homes(ch), Stock(ch), routed[ch]) /\ routed[ch] \in Nat /\ routed'[ch] = routed[ch]
        BY <2>3 DEF Placing, IInv, Routing, TypeOK
      <3>2. CASE ch # c
        <4>1. \A d \in HandlesOf(ch) : d \in Handles /\ d # h
          BY <2>1, <3>2 DEF HandlesOf
        <4>2. \A u \in QueuesOf(ch) : u \in Queues /\ u # q
          BY <2>2, <3>2, QueuesApart, QueuesTyped
        <4> QED BY <2>3, <2>4, <3>1, <4>1, <4>2, ChannelUntouched
      <3>3. CASE ch = c
        <4>1. ASSUME NEW x \in Homes(c), x # a, x # b PROVE Stock(c)'[x] = Stock(c)[x]
          <5>1. x[1] = "replay" => x[2] \in Handles /\ x[2] # h
            BY <2>6, <4>1 DEF Homes, HandlesOf
          <5>2. x[1] = "queue" => x[2] \in Queues /\ x[2] # q
            BY <2>6, <4>1, QueuesTyped DEF Homes
          <5> QED BY <2>3, <2>4, <5>1, <5>2, Elsewhere DEF Homes
        <4>2. /\ Stock(c)'[a] \subseteq Stock(c)[a]
              /\ Stock(c)'[b] = Stock(c)[b] \cup (Stock(c)[a] \ Stock(c)'[a])
          BY <2>2, <2>4, <2>7, <2>9
        <4> QED BY <2>6, <3>1, <3>3, <4>1, <4>2, Moved
      <3> QED BY <3>2, <3>3
    <2> QED BY <2>5, <2>10, <2>11 DEF Placing
  <1> QED BY <1>1, <1>2

\* The blocking get: from the queue object the thread has looked up to its caller.
LEMMA GetPlaces ==
  ASSUME IInv, Placing, NEW h \in Handles, GetNotification(h)
  PROVE  Placing'
  <1>h. PICK c \in Channels : c = ChannelOf[h]
    BY HandlesAssumption
  <1>1. PICK q, e, s : c = ChannelOf[h] /\ q = held[h] /\ e = Head(queue[q]) /\ s = Tail(queue[q])
    BY <1>h
  <1>2. /\ q \in QueuesOf(c) /\ q \in Queues /\ h \in HandlesOf(c) /\ user[h] = "get"
        /\ e \in Items /\ s \in Seq(Items) /\ Distinct(s) /\ e \in Elements(queue[q])
        /\ Elements(s) \cap Nat = (Elements(queue[q]) \cap Nat) \ {e}
    <2>1. user[h] = "get" /\ queue[held[h]] # <<>>
      BY DEF GetNotification
    <2>2. q \in QueuesOf(c) /\ h \in HandlesOf(c)
      BY <1>1, <2>1 DEF Placing, Housed, HandlesOf
    <2>3. q \in Queues /\ queue[q] \in Seq(Items) /\ queue[q] # <<>> /\ Distinct(queue[q])
      BY <1>1, <2>1, <2>2, QueuesTyped DEF IInv, Routing, TypeOK, Placing, NoneTwice
    <2>4. e \in Items
      BY <1>1, <2>3
    <2> QED BY <1>1, <2>1, <2>2, <2>3, <2>4, Headed
  <1>3. /\ queue' = [queue EXCEPT ![q] = s] /\ replay[h] = <<>>
        /\ \/ e = Failure /\ received' = received
           \/ e # Failure /\ received' = [received EXCEPT ![h] = Append(received[h], e)]
        /\ \E u : user' = [user EXCEPT ![h] = u] /\ u \notin {"replay", "get"}
        /\ UNCHANGED <<registered, pending, held, replay, owedItems, routed, dropped>>
    <2>1. \E u : user' = [user EXCEPT ![h] = u] /\ u \notin {"replay", "get"}
      <3>1. PICK v, w :
              /\ v = IF ChannelOf[h] = Global THEN "raised" ELSE "leaving raised"
              /\ w = CASE ChannelOf[h] = Global -> "idle"
                       [] IsCompletion(ChannelOf[h], Head(queue[held[h]])) -> "leaving completed"
                       [] OTHER -> "next"
        OBVIOUS
      <3>2. user' = [user EXCEPT ![h] = v] \/ user' = [user EXCEPT ![h] = w]
        BY <3>1 DEF GetNotification
      <3>3. v \notin {"replay", "get"} /\ w \notin {"replay", "get"}
        BY <3>1
      <3> QED BY <3>2, <3>3
    <2> QED BY <1>1, <1>2, <2>1 DEF GetNotification, Placing, Housed
  <1>4. /\ queue'[q] = s /\ \A u \in Queues \ {q} : queue'[u] = queue[u]
        /\ \A d \in Handles \ {h} : received'[d] = received[d]
        /\ received'[h] = IF e = Failure THEN received[h] ELSE Append(received[h], e)
    BY <1>2, <1>3 DEF IInv, Routing, TypeOK
  <1>5. Housed'
    BY <1>3 DEF Placing, Housed, QueuesOf, HandlesOf, IInv, Routing, TypeOK
  <1>6. PICK a \in Homes(c), b \in Homes(c) : a = <<"queue", q>> /\ b = <<"received", h>> /\ a # b
    BY <1>2, HomesOfChannel
  <1>7. /\ Stock(c)[a] = Elements(queue[q]) \cap Nat /\ Stock(c)'[a] = Elements(queue'[q]) \cap Nat
        /\ Stock(c)[b] = Elements(received[h]) /\ Stock(c)'[b] = Elements(received'[h])
    <2>1. Laid(c) /\ Laid(c)' /\ h \in HandlesOf(c)' /\ q \in QueuesOf(c)'
      BY <1>2, HomesOfChannel, SameHomes
    <2> QED BY <1>2, <1>6, <2>1 DEF Laid
  <1>8. /\ Distinct(received'[h])
        /\ Elements(received'[h]) = Elements(received[h]) \cup (IF e = Failure THEN {} ELSE {e})
    <2>1. received[h] \in Seq(Nat) /\ Distinct(received[h])
      BY DEF IInv, Routing, TypeOK, Placing, NoneTwice
    <2>2. CASE e = Failure
      BY <1>4, <2>1, <2>2
    <2>3. CASE e # Failure
      <3>1. e \in Nat
        BY <1>2, <2>3 DEF Items
      <3>2. e \notin Elements(received[h])
        BY <1>2, <1>6, <1>7, <3>1, PlacedRange
      <3> QED BY <1>4, <2>1, <2>3, <3>1, <3>2, Appended
    <2> QED BY <2>2, <2>3
  <1>9. NoneTwice'
    <2>1. ASSUME NEW ch \in Channels, NEW u \in QueuesOf(ch) PROVE Distinct(queue'[u])
      BY <1>2, <1>4, QueuesTyped DEF Placing, NoneTwice
    <2>2. \A d \in Handles : Distinct(received'[d])
      BY <1>4, <1>8 DEF Placing, NoneTwice
    <2> QED BY <1>3, <2>1, <2>2 DEF Placing, NoneTwice, QueuesOf, HandlesOf
  <1>10. ASSUME NEW ch \in Channels PROVE Placed(Homes(ch), Stock(ch), routed[ch])'
    <2>1. Placed(Homes(ch), Stock(ch), routed[ch]) /\ routed[ch] \in Nat /\ routed'[ch] = routed[ch]
      BY <1>3 DEF Placing, IInv, Routing, TypeOK
    <2>2. CASE ch # c
      <3>1. \A d \in HandlesOf(ch) : d \in Handles /\ d # h
        BY <1>1, <2>2 DEF HandlesOf
      <3>2. \A u \in QueuesOf(ch) : u \in Queues /\ u # q
        BY <1>2, <2>2, QueuesApart, QueuesTyped
      <3> QED BY <1>3, <1>4, <2>1, <3>1, <3>2, ChannelUntouched
    <2>3. CASE ch = c
      <3>1. ASSUME NEW x \in Homes(c), x # a, x # b PROVE Stock(c)'[x] = Stock(c)[x]
        <4>1. x[1] = "received" => x[2] \in Handles /\ x[2] # h
          BY <1>6, <3>1 DEF Homes, HandlesOf
        <4>2. x[1] = "queue" => x[2] \in Queues /\ x[2] # q
          BY <1>6, <3>1, QueuesTyped DEF Homes
        <4> QED BY <1>3, <1>4, <4>1, <4>2, Elsewhere DEF Homes
      <3>2. /\ Stock(c)'[a] \subseteq Stock(c)[a]
            /\ Stock(c)'[b] = Stock(c)[b] \cup (Stock(c)[a] \ Stock(c)'[a])
        BY <1>2, <1>4, <1>7, <1>8, SentinelsAreDistinct DEF Items
      <3> QED BY <2>1, <2>3, <1>6, <3>1, <3>2, Moved
    <2> QED BY <2>2, <2>3
  <1> QED BY <1>5, <1>9, <1>10 DEF Placing

LEMMA PlacedNext ==
  ASSUME IInv, Placing, [Next]_vars
  PROVE  Placing'
  <1> DEFINE Still == UNCHANGED <<pending, queue, replay, owedItems, routed, received, dropped>>
  <1>1. ASSUME Still, UNCHANGED <<registered, user, held>> PROVE Placing'
    BY <1>1, EventsUntouched DEF Placing, Housed, QueuesOf, HandlesOf
  <1>2. CASE UNCHANGED channelVars
    BY <1>1, <1>2, ChannelsUntouched
  <1>3. ASSUME NEW r \in Requests, RequestStep(r) PROVE UNCHANGED channelVars
    BY <1>3 DEF RequestStep, CreateResponseWaiter, WriteMessage, WriteRaises, DiscardResponseWaiter,
                ReceiveResponse
  <1>4. ASSUME NEW r, NEW answer, RouteResponse(r, answer) \/ PutResponse(r, answer) \/ RouteUnreadableError(r)
        PROVE  UNCHANGED channelVars
    BY <1>4 DEF RouteResponse, PutResponse, RouteUnreadableError
  <1>5. CASE ReaderExits \/ UNCHANGED vars
    BY <1>2, <1>5 DEF ReaderExits, vars
  <1>6. ASSUME NEW h \in Handles, NextNotification(h) PROVE Placing'
    <2>1. Still /\ UNCHANGED registered /\ replay[h] = <<>>
      BY <1>6 DEF NextNotification, historyVars, Placing, Housed
    <2>2. /\ held' = [held EXCEPT ![h] = registered[ChannelOf[h]]]
          /\ user' = [user EXCEPT ![h] = IF registered[ChannelOf[h]] = NoQueue THEN "leaving raised" ELSE "get"]
      BY <1>6 DEF NextNotification
    <2>3. Housed'
      BY <2>1, <2>2, HandlesAssumption, ZenonT(40) DEF Placing, Housed, QueuesOf, HandlesOf, IInv, Routing, TypeOK
    <2> QED BY <2>1, <2>3, EventsUntouched DEF Placing
  <1>7. ASSUME NEW h \in Handles, Abandon(h) \/ Unregister(h) PROVE Placing'
    <2>1. /\ Still /\ replay[h] = <<>> /\ UNCHANGED held
          /\ \A ch \in Channels : registered'[ch] \in {registered[ch], NoQueue}
      BY <1>7 DEF Abandon, Unregister, historyVars, Placing, Housed, IInv, Routing, TypeOK
    <2>2. \E u : user' = [user EXCEPT ![h] = u] /\ u \notin {"replay", "get"}
      BY <1>7 DEF Abandon, Unregister
    <2>3. Housed'
      BY <2>1, <2>2 DEF Placing, Housed, QueuesOf, HandlesOf, IInv, Routing, TypeOK
    <2> QED BY <2>1, <2>3, EventsUntouched DEF Placing
  <1>8. ASSUME NEW h \in Handles, NextGlobalNotification(h) PROVE Placing'
    <2>1. /\ Still /\ UNCHANGED registered /\ replay[h] = <<>> /\ GlobalQueue \in QueuesOf(ChannelOf[h])
          /\ held' = [held EXCEPT ![h] = GlobalQueue] /\ user' = [user EXCEPT ![h] = "get"]
      BY <1>8 DEF NextGlobalNotification, historyVars, Placing, Housed, QueuesOf
    <2>2. Housed'
      BY <2>1 DEF Placing, Housed, QueuesOf, HandlesOf, IInv, Routing, TypeOK
    <2> QED BY <2>1, <2>2, EventsUntouched DEF Placing
  <1>9. ASSUME NEW put \in owedItems, PutNotification(put[1], put[2]) PROVE Placing'
    <2>1. put[1] \in Queues /\ put[2] \in Items
      BY DEF IInv, Routing, TypeOK
    <2> QED BY <1>9, <2>1, PutPlaces
  <1>10. ASSUME NEW ch \in Channels, RouteNotification(ch) PROVE Placing'
    BY <1>10, RoutePlaces
  <1>11. ASSUME FailAll PROVE Placing'
    BY <1>11, FailPlaces
  <1>12. ASSUME NEW h \in Handles, HandleStep(h) PROVE Placing'
    BY <1>6, <1>7, <1>8, <1>12, RegisterPlaces, ReplayPlaces, GetPlaces DEF HandleStep
  <1> QED BY <1>2, <1>3, <1>4, <1>5, <1>9, <1>10, <1>11, <1>12 DEF Next, ReaderPut

\* The forms of a place.
IsPlace(ch, p) ==
    \/ p[1] = "pending" /\ p[2] = ch /\ p[3] \in DOMAIN pending[ch] /\ p[4] = pending[ch][p[3]]
    \/ p[1] = "dropped" /\ p[2] = ch /\ p[3] = 0 /\ p[4] \in dropped[ch]
    \/ p[1] = "owed" /\ p[2] \in QueuesOf(ch) /\ p[3] = 0 /\ <<p[2], p[4]>> \in owedItems
    \/ p[1] = "queue" /\ p[2] \in QueuesOf(ch) /\ p[3] \in DOMAIN queue[p[2]] /\ p[4] = queue[p[2]][p[3]]
    \/ p[1] = "replay" /\ p[2] \in HandlesOf(ch) /\ p[3] \in DOMAIN replay[p[2]] /\ p[4] = replay[p[2]][p[3]]
    \/ p[1] = "received" /\ p[2] \in HandlesOf(ch) /\ p[3] \in DOMAIN received[p[2]] /\ p[4] = received[p[2]][p[3]]

LEMMA PlaceForms ==
  ASSUME NEW ch \in Channels, TypeOK
  PROVE  /\ \A p \in Places(ch) : p = <<p[1], p[2], p[3], p[4]>> /\ IsPlace(ch, p)
         /\ \A a, b, c, d : IsPlace(ch, <<a, b, c, d>>) => <<a, b, c, d>> \in Places(ch)
  <1>1. ASSUME NEW p \in Owed(ch) PROVE p = <<p[1], p[2], p[3], p[4]>> /\ IsPlace(ch, p)
    <2>1. PICK put \in owedItems : put[1] \in QueuesOf(ch) /\ p = <<"owed", put[1], 0, put[2]>>
      BY <1>1 DEF Owed
    <2>2. put = <<put[1], put[2]>>
      BY DEF TypeOK
    <2> QED BY <2>1, <2>2 DEF IsPlace
  <1>2. ASSUME NEW p \in Queued(ch) PROVE p = <<p[1], p[2], p[3], p[4]>> /\ IsPlace(ch, p)
    BY <1>2 DEF Queued, Slots, IsPlace
  <1>3. ASSUME NEW p \in WithHandles(ch) PROVE p = <<p[1], p[2], p[3], p[4]>> /\ IsPlace(ch, p)
    BY <1>3 DEF WithHandles, Slots, IsPlace
  <1>4. ASSUME NEW p \in Dropped(ch) \cup Slots("pending", ch, pending[ch])
        PROVE  p = <<p[1], p[2], p[3], p[4]>> /\ IsPlace(ch, p)
    BY <1>4 DEF Dropped, Slots, IsPlace
  <1>5. ASSUME NEW a, NEW b, NEW c, NEW d, IsPlace(ch, <<a, b, c, d>>) PROVE <<a, b, c, d>> \in Places(ch)
    <2>1. CASE a = "owed" /\ b \in QueuesOf(ch) /\ c = 0 /\ <<b, d>> \in owedItems
      <3>1. <<a, b, c, d>> = <<"owed", <<b, d>>[1], 0, <<b, d>>[2]>> /\ <<b, d>>[1] \in QueuesOf(ch)
        BY <2>1
      <3>2. <<a, b, c, d>> \in Owed(ch)
        BY <2>1, <3>1 DEF Owed
      <3> QED BY <3>2 DEF Places
    <2>2. CASE a = "queue" /\ b \in QueuesOf(ch) /\ c \in DOMAIN queue[b] /\ d = queue[b][c]
      <3>1. <<a, b, c, d>> \in Slots("queue", b, queue[b])
        BY <2>2 DEF Slots
      <3> QED BY <2>2, <3>1 DEF Places, Queued
    <2>3. CASE a = "replay" /\ b \in HandlesOf(ch) /\ c \in DOMAIN replay[b] /\ d = replay[b][c]
      <3>1. <<a, b, c, d>> \in Slots("replay", b, replay[b])
        BY <2>3 DEF Slots
      <3> QED BY <2>3, <3>1 DEF Places, WithHandles
    <2>4. CASE a = "received" /\ b \in HandlesOf(ch) /\ c \in DOMAIN received[b] /\ d = received[b][c]
      <3>1. <<a, b, c, d>> \in Slots("received", b, received[b])
        BY <2>4 DEF Slots
      <3> QED BY <2>4, <3>1 DEF Places, WithHandles
    <2>5. CASE a = "dropped" /\ b = ch /\ c = 0 /\ d \in dropped[ch]
      BY <2>5 DEF Places, Dropped
    <2>6. CASE a = "pending" /\ b = ch /\ c \in DOMAIN pending[ch] /\ d = pending[ch][c]
      <3>1. <<a, b, c, d>> \in Slots("pending", ch, pending[ch])
        BY <2>6 DEF Slots
      <3> QED BY <3>1 DEF Places
    <2> QED BY <1>5, <2>1, <2>2, <2>3, <2>4, <2>5, <2>6 DEF IsPlace
  <1>6. ASSUME NEW p \in Places(ch) PROVE p = <<p[1], p[2], p[3], p[4]>> /\ IsPlace(ch, p)
    BY <1>1, <1>2, <1>3, <1>4, <1>6 DEF Places
  <1> QED BY <1>5, <1>6

\* The places of EveryEventIsInOnePlace are the homes, position by position.
LEMMA PlacesAreHomes ==
  ASSUME Placing, TypeOK, NEW ch \in Channels
  PROVE  /\ \A p \in Places(ch) : p[4] # Failure =>
               \E x \in Homes(ch) : x = <<p[1], p[2]>> /\ p[4] \in Stock(ch)[x]
         /\ \A x \in Homes(ch) : \A k \in Stock(ch)[x] : \E p \in Places(ch) : p[4] = k /\ p[4] # Failure
         /\ \A p, q \in Places(ch) :
               p[4] = q[4] /\ p[4] # Failure /\ p[1] = q[1] /\ p[2] = q[2] => p = q
  <1>0. /\ pending[ch] \in Seq(Nat) /\ dropped[ch] \subseteq Nat
        /\ \A q \in QueuesOf(ch) : queue[q] \in Seq(Items) /\ Distinct(queue[q])
        /\ \A h \in HandlesOf(ch) : replay[h] \in Seq(Nat) /\ received[h] \in Seq(Nat)
        /\ \A h \in HandlesOf(ch) : Distinct(replay[h]) /\ Distinct(received[h])
        /\ Distinct(pending[ch]) /\ owedItems \subseteq Queues \X Items
        /\ Laid(ch)
    BY QueuesTyped, HomesOfChannel DEF TypeOK, Placing, NoneTwice, HandlesOf
  <1>1. ASSUME NEW p \in Places(ch), p[4] # Failure
        PROVE  \E x \in Homes(ch) : x = <<p[1], p[2]>> /\ p[4] \in Stock(ch)[x]
    <2>1. IsPlace(ch, p)
      BY PlaceForms
    <2>2. CASE p[1] = "pending"
      <3>1. p[2] = ch /\ p[4] \in Elements(pending[ch])
        BY <2>1, <2>2 DEF IsPlace, Elements
      <3>2. <<"pending", ch>> \in Homes(ch) /\ p[4] \in Stock(ch)[<<"pending", ch>>]
        BY <1>0, <3>1, HomesOfChannel DEF Laid
      <3> QED BY <2>2, <3>1, <3>2
    <2>3. CASE p[1] = "dropped"
      BY <1>0, <2>1, <2>3, HomesOfChannel DEF IsPlace, Laid
    <2>4. CASE p[1] = "owed"
      <3>1. p[2] \in QueuesOf(ch) /\ p[4] \in Nat /\ <<p[2], p[4]>> \in owedItems
        BY <1>0, <1>1, <2>1, <2>4 DEF IsPlace, Items
      <3>2. <<"owed", p[2]>> \in Homes(ch) /\ p[4] \in Stock(ch)[<<"owed", p[2]>>]
        BY <1>0, <3>1, HomesOfChannel DEF Laid
      <3> QED BY <2>4, <3>2
    <2>5. CASE p[1] = "queue"
      <3>1. p[2] \in QueuesOf(ch) /\ p[4] \in Elements(queue[p[2]]) \cap Nat
        BY <1>0, <1>1, <2>1, <2>5 DEF IsPlace, Items, Elements
      <3>2. <<"queue", p[2]>> \in Homes(ch) /\ p[4] \in Stock(ch)[<<"queue", p[2]>>]
        BY <1>0, <3>1, HomesOfChannel DEF Laid
      <3> QED BY <2>5, <3>2
    <2>6. CASE p[1] = "replay"
      <3>1. p[2] \in HandlesOf(ch) /\ p[4] \in Elements(replay[p[2]])
        BY <2>1, <2>6 DEF IsPlace, Elements
      <3>2. <<"replay", p[2]>> \in Homes(ch) /\ p[4] \in Stock(ch)[<<"replay", p[2]>>]
        BY <1>0, <3>1, HomesOfChannel DEF Laid
      <3> QED BY <2>6, <3>2
    <2>7. CASE p[1] = "received"
      <3>1. p[2] \in HandlesOf(ch) /\ p[4] \in Elements(received[p[2]])
        BY <2>1, <2>7 DEF IsPlace, Elements
      <3>2. <<"received", p[2]>> \in Homes(ch) /\ p[4] \in Stock(ch)[<<"received", p[2]>>]
        BY <1>0, <3>1, HomesOfChannel DEF Laid
      <3> QED BY <2>7, <3>2
    <2> QED BY <2>1, <2>2, <2>3, <2>4, <2>5, <2>6, <2>7 DEF IsPlace
  <1>2. ASSUME NEW x \in Homes(ch), NEW k \in Stock(ch)[x]
        PROVE  \E p \in Places(ch) : p[4] = k /\ p[4] # Failure
    <2>0. k # Failure
      BY <1>2, PlacedRange, SentinelsAreDistinct
    <2>1. \E i : IsPlace(ch, <<x[1], x[2], i, k>>)
      <3>1. CASE x = <<"pending", ch>>
        BY <1>0, <3>1 DEF Laid, Elements, IsPlace
      <3>2. CASE x = <<"dropped", ch>>
        BY <1>0, <3>2 DEF Laid, IsPlace
      <3>3. ASSUME NEW q \in QueuesOf(ch), x = <<"owed", q>> PROVE IsPlace(ch, <<x[1], x[2], 0, k>>)
        BY <1>0, <3>3 DEF Laid, IsPlace
      <3>4. ASSUME NEW q \in QueuesOf(ch), x = <<"queue", q>> PROVE \E i : IsPlace(ch, <<x[1], x[2], i, k>>)
        <4>1. k \in Elements(queue[q])
          BY <1>0, <1>2, <3>4 DEF Laid
        <4>2. PICK i \in DOMAIN queue[q] : k = queue[q][i]
          BY <4>1 DEF Elements
        <4> QED BY <3>4, <4>2 DEF IsPlace
      <3>5. ASSUME NEW h \in HandlesOf(ch), x = <<"replay", h>> PROVE \E i : IsPlace(ch, <<x[1], x[2], i, k>>)
        <4>1. k \in Elements(replay[h])
          BY <1>0, <1>2, <3>5 DEF Laid
        <4>2. PICK i \in DOMAIN replay[h] : k = replay[h][i]
          BY <4>1 DEF Elements
        <4> QED BY <3>5, <4>2 DEF IsPlace
      <3>6. ASSUME NEW h \in HandlesOf(ch), x = <<"received", h>> PROVE \E i : IsPlace(ch, <<x[1], x[2], i, k>>)
        <4>1. k \in Elements(received[h])
          BY <1>0, <1>2, <3>6 DEF Laid
        <4>2. PICK i \in DOMAIN received[h] : k = received[h][i]
          BY <4>1 DEF Elements
        <4> QED BY <3>6, <4>2 DEF IsPlace
      <3>7. \/ x = <<"pending", ch>> \/ x = <<"dropped", ch>>
            \/ \E q \in QueuesOf(ch) : x = <<"owed", q>> \/ x = <<"queue", q>>
            \/ \E h \in HandlesOf(ch) : x = <<"replay", h>> \/ x = <<"received", h>>
        BY DEF Homes
      <3> QED BY <3>1, <3>2, <3>3, <3>4, <3>5, <3>6, <3>7
    <2>2. PICK i : <<x[1], x[2], i, k>> \in Places(ch)
      BY <2>1, PlaceForms
    <2>3. <<x[1], x[2], i, k>>[4] = k
      OBVIOUS
    <2> QED BY <2>0, <2>2, <2>3
  <1>3. ASSUME NEW p \in Places(ch), NEW q \in Places(ch),
               p[4] = q[4], p[4] # Failure, p[1] = q[1], p[2] = q[2]
        PROVE  p = q
    <2>1. /\ p = <<p[1], p[2], p[3], p[4]>> /\ IsPlace(ch, p)
          /\ q = <<q[1], q[2], q[3], q[4]>> /\ IsPlace(ch, q)
      BY PlaceForms
    <2>2. p[3] = q[3]
      <3>1. CASE p[1] \in {"owed", "dropped"}
        BY <1>3, <2>1, <3>1 DEF IsPlace
      <3>2. CASE p[1] = "pending"
        <4>1. /\ p[3] \in DOMAIN pending[ch] /\ q[3] \in DOMAIN pending[ch]
              /\ pending[ch][p[3]] = pending[ch][q[3]] /\ pending[ch][p[3]] \in Nat
          BY <1>0, <1>3, <2>1, <3>2 DEF IsPlace
        <4>2. Distinct(pending[ch])
          BY <1>0, <2>1, <3>2 DEF IsPlace
        <4> QED BY <4>1, <4>2 DEF Distinct
      <3>3. CASE p[1] = "queue"
        <4>1. p[4] \in Nat
          BY <1>0, <1>3, <2>1, <3>3 DEF IsPlace, Items
        <4> QED BY <1>0, <1>3, <2>1, <3>3, <4>1 DEF IsPlace, Distinct
      <3>4. CASE p[1] = "replay"
        <4>1. /\ p[3] \in DOMAIN replay[p[2]] /\ q[3] \in DOMAIN replay[p[2]]
              /\ replay[p[2]][p[3]] = replay[p[2]][q[3]] /\ replay[p[2]][p[3]] \in Nat
          BY <1>0, <1>3, <2>1, <3>4 DEF IsPlace
        <4>2. Distinct(replay[p[2]])
          BY <1>0, <2>1, <3>4 DEF IsPlace
        <4> QED BY <4>1, <4>2 DEF Distinct
      <3>5. CASE p[1] = "received"
        <4>1. /\ p[3] \in DOMAIN received[p[2]] /\ q[3] \in DOMAIN received[p[2]]
              /\ received[p[2]][p[3]] = received[p[2]][q[3]] /\ received[p[2]][p[3]] \in Nat
          BY <1>0, <1>3, <2>1, <3>5 DEF IsPlace
        <4>2. Distinct(received[p[2]])
          BY <1>0, <2>1, <3>5 DEF IsPlace
        <4> QED BY <4>1, <4>2 DEF Distinct
      <3> QED BY <2>1, <3>1, <3>2, <3>3, <3>4, <3>5 DEF IsPlace
    <2> QED BY <1>3, <2>1, <2>2
  <1> QED BY <1>1, <1>2, <1>3

\* A set of tuples with each of 1..n once in fourth position has n members.
LEMMA CountedByEvent ==
  ASSUME NEW S, NEW n \in Nat, \A p \in S : p[4] \in 1..n,
         \A p, q \in S : p[4] = q[4] => p = q, \A k \in 1..n : \E p \in S : p[4] = k
  PROVE  {p[4] : p \in S} = 1..n /\ Cardinality(S) = n
  <1> DEFINE f == [k \in 1..n |-> CHOOSE p \in S : p[4] = k]
  <1>1. \A k \in 1..n : f[k] \in S /\ f[k][4] = k
    OBVIOUS
  <1>2. f \in Injection(1..n, S)
    <2>1. f \in [1..n -> S]
      BY <1>1
    <2>2. \A i, j \in 1..n : f[i] = f[j] => i = j
      BY <1>1
    <2> QED BY <2>1, <2>2 DEF Injection, IsInjective
  <1>3. f \in Surjection(1..n, S)
    BY <1>1 DEF Surjection
  <1>4. ExistsBijection(1..n, S)
    BY <1>2, <1>3 DEF ExistsBijection, Bijection
  <1> QED BY <1>4, FS_CountingElements

LEMMA PlacedCounts == Placing /\ TypeOK => EveryEventIsInOnePlace
  <1> SUFFICES ASSUME Placing, TypeOK, NEW ch \in Channels, NEW S, S = {p \in Places(ch) : p[4] # Failure}
               PROVE  {p[4] : p \in S} = 1..routed[ch] /\ Cardinality(S) = routed[ch]
    BY DEF EveryEventIsInOnePlace
  <1>1. routed[ch] \in Nat
    BY DEF TypeOK
  <1>2. \A p \in S : p[4] \in 1..routed[ch]
    BY PlacesAreHomes, PlacedRange
  <1>3. ASSUME NEW p \in S, NEW q \in S, p[4] = q[4] PROVE p = q
    <2>1. PICK x \in Homes(ch), y \in Homes(ch) :
            /\ x = <<p[1], p[2]>> /\ p[4] \in Stock(ch)[x]
            /\ y = <<q[1], q[2]>> /\ q[4] \in Stock(ch)[y]
      BY PlacesAreHomes
    <2>2. x = y
      BY <1>3, <2>1, PlacedRange
    <2> QED BY <1>3, <2>1, <2>2, PlacesAreHomes
  <1>4. ASSUME NEW k \in 1..routed[ch] PROVE \E p \in S : p[4] = k
    <2>1. PICK x \in Homes(ch) : k \in Stock(ch)[x]
      BY <1>4 DEF Placing, Placed
    <2> QED BY <2>1, PlacesAreHomes
  <1> QED BY <1>1, <1>2, <1>3, <1>4, CountedByEvent

\* Routing, replay, re-registration and failure neither lose nor duplicate an event.
THEOREM EventsAreInOnePlace == Spec => []EveryEventIsInOnePlace
  <1>1. Spec => []Placing
    <2>1. Init => Placing
      BY PlacedInit
    <2>2. IInv /\ Placing /\ [Next]_vars => Placing'
      BY PlacedNext
    <2> QED BY <2>1, <2>2, RouterInvariant, PTL DEF Spec
  <1> QED BY <1>1, RouterTypes, PlacedCounts, PTL

-----------------------------------------------------------------------------
(* The order in which a handle receives the events of its channel.         *)

\* x may be received before y: it is older, or y is replayed and overtaken.
InOrder(c, x, y) == x < y \/ (y \in replayed[c] /\ x \notin replayed[c])

Ascending(s) == \A i, j \in DOMAIN s : i < j => s[i] < s[j]

\* The events that are in a queue object or on their way into it.
Bound(q) ==
    (Elements(queue[q]) \cap Nat) \cup {k \in Nat : <<q, k>> \in owedItems}
    \cup UNION {Elements(replay[h]) : h \in {d \in Handles : held[d] = q}}

\* Queue objects are used only once a register call has made them, the replay goes into
\* the caller's own, and the global queue is always there.
Made(q) == q = GlobalQueue \/ q[2] <= calls[q[1]]
QueuesAreMade ==
    /\ \A ch \in Channels : registered[ch] # NoQueue => Made(registered[ch])
    /\ \A h \in Handles : held[h] # NoQueue => Made(held[h])
    /\ \A q \in Queues : Bound(q) # {} => Made(q)
    /\ \A h \in Handles : user[h] = "replay" => held[h] = <<h, calls[h]>>
    /\ registered[Global] = GlobalQueue
    /\ \A h \in Handles : ChannelOf[h] = Global => user[h] \in {"idle", "get", "raised"}

\* What is kept is the newest; what the reader holds is the very newest.
Newest(c) ==
    /\ Ascending(pending[c])
    /\ \A q \in QueuesOf(c) : \A x \in Bound(q), y \in Elements(pending[c]) : x < y
    /\ \A h \in HandlesOf(c) : \A x \in Elements(received[h]), y \in Elements(pending[c]) : x < y
    /\ \A q \in QueuesOf(c), k \in Nat : <<q, k>> \in owedItems => k = routed[c] /\ k \notin replayed[c]
    /\ \A h \in HandlesOf(c) : Ascending(replay[h]) /\ Elements(replay[h]) \subseteq replayed[c]
    /\ replayed[c] \subseteq 1..routed[c]

\* Within a queue, and between a queue and what is replayed into it, only replayed
\* events are overtaken.
Within(c) ==
    \A q \in QueuesOf(c) :
        /\ \A i, j \in DOMAIN queue[q] :
              i < j /\ queue[q][i] \in Nat /\ queue[q][j] \in Nat => InOrder(c, queue[q][i], queue[q][j])
        /\ \A h \in HandlesOf(c) : held[h] = q =>
              \A x \in Elements(queue[q]) \cap Nat, y \in Elements(replay[h]) : InOrder(c, x, y)

\* What is bound for a queue no longer registered is older than what is bound for the
\* one that is.
Between(c) ==
    \A u, q \in QueuesOf(c) : u # q /\ registered[c] = q => \A x \in Bound(u), y \in Bound(q) : x < y

\* What a handle has received, and what the queue holds that it looks at, or will.
Onward(c) ==
    \A h \in HandlesOf(c) : \A q \in QueuesOf(c) :
        registered[c] = q \/ (user[h] = "get" /\ held[h] = q) =>
            \A x \in Elements(received[h]), y \in Bound(q) : InOrder(c, x, y)

Received(c) ==
    \A h \in HandlesOf(c) : \A i, j \in DOMAIN received[h] :
        i < j => InOrder(c, received[h][i], received[h][j])

Ordered ==
    /\ QueuesAreMade
    /\ \A c \in Channels : Newest(c) /\ Within(c) /\ Between(c) /\ Onward(c) /\ Received(c)

\* What is bound for a queue of channel c was routed for c, and is kept or received nowhere.
LEMMA BoundPlaced ==
  ASSUME Placing, IInv, NEW c \in Channels, NEW q \in QueuesOf(c)
  PROVE  /\ \A h \in Handles : held[h] = q /\ replay[h] # <<>> => h \in HandlesOf(c) /\ user[h] = "replay"
         /\ \A x \in Bound(q) :
               /\ x \in 1..routed[c] /\ x \in Nat
               /\ x \notin Elements(pending[c])
               /\ \A h \in HandlesOf(c) : x \notin Elements(received[h])
  <1>1. ASSUME NEW h \in Handles, held[h] = q, replay[h] # <<>> PROVE h \in HandlesOf(c) /\ user[h] = "replay"
    <2>1. user[h] = "replay" /\ held[h] \in QueuesOf(ChannelOf[h]) /\ ChannelOf[h] \in Channels
      BY <1>1, HandlesAssumption DEF Placing, Housed
    <2> QED BY <1>1, <2>1, QueuesApart DEF HandlesOf
  <1>2. ASSUME NEW x \in Bound(q) PROVE \E y \in Homes(c) : y[1] \in {"queue", "owed", "replay"} /\ x \in Stock(c)[y]
    <2>0. Laid(c) /\ <<"queue", q>> \in Homes(c) /\ <<"owed", q>> \in Homes(c)
          /\ \A h \in HandlesOf(c) : <<"replay", h>> \in Homes(c)
      BY HomesOfChannel
    <2>1. CASE x \in Elements(queue[q]) \cap Nat
      <3>1. x \in Stock(c)[<<"queue", q>>]
        BY <2>0, <2>1 DEF Laid
      <3> QED BY <2>0, <3>1
    <2>2. CASE x \in {k \in Nat : <<q, k>> \in owedItems}
      <3>1. x \in Stock(c)[<<"owed", q>>]
        BY <2>0, <2>2 DEF Laid
      <3> QED BY <2>0, <3>1
    <2>3. ASSUME NEW h \in Handles, held[h] = q, x \in Elements(replay[h])
          PROVE \E y \in Homes(c) : y[1] \in {"queue", "owed", "replay"} /\ x \in Stock(c)[y]
      <3>1. h \in HandlesOf(c)
        BY <1>1, <2>3 DEF Elements
      <3>2. x \in Stock(c)[<<"replay", h>>]
        BY <2>0, <2>3, <3>1 DEF Laid
      <3> QED BY <2>0, <3>1, <3>2
    <2> QED BY <2>1, <2>2, <2>3 DEF Bound
  <1>3. ASSUME NEW x \in Bound(q)
        PROVE  /\ x \in 1..routed[c]
               /\ x \notin Elements(pending[c])
               /\ \A h \in HandlesOf(c) : x \notin Elements(received[h])
    <2>1. PICK y \in Homes(c) : y[1] \in {"queue", "owed", "replay"} /\ x \in Stock(c)[y]
      BY <1>2
    <2>2. x \in 1..routed[c] /\ \A z \in Homes(c) : x \in Stock(c)[z] => z = y
      BY <2>1, PlacedRange
    <2>3. x \notin Stock(c)[<<"pending", c>>]
      <3>1. <<"pending", c>> \in Homes(c) /\ <<"pending", c>>[1] = "pending"
        BY HomesOfChannel
      <3> QED BY <2>1, <2>2, <3>1
    <2>4. ASSUME NEW h \in HandlesOf(c) PROVE x \notin Stock(c)[<<"received", h>>]
      <3>1. <<"received", h>> \in Homes(c) /\ <<"received", h>>[1] = "received"
        BY HomesOfChannel
      <3> QED BY <2>1, <2>2, <3>1
    <2>5. x \notin Elements(pending[c])
      BY <2>3, HomesOfChannel DEF Laid
    <2>6. ASSUME NEW h \in HandlesOf(c) PROVE x \notin Elements(received[h])
      BY <2>4, HomesOfChannel DEF Laid
    <2> QED BY <2>2, <2>5, <2>6
  <1> QED BY <1>1, <1>3

\* A step that neither routes nor registers on channel c keeps its order, if it keeps the
\* order within the queues.
LEMMA QuietOrder ==
  ASSUME IInv, Placing, NEW c \in Channels, Newest(c), Between(c),
         routed'[c] = routed[c], replayed'[c] = replayed[c],
         pending'[c] \in {pending[c], <<>>}, registered'[c] \in {registered[c], NoQueue},
         \A q \in QueuesOf(c) : Bound(q)' \subseteq Bound(q),
         \A q \in QueuesOf(c), k \in Nat : <<q, k>> \in owedItems' => <<q, k>> \in owedItems,
         \A h \in HandlesOf(c) :
            /\ Ascending(replay'[h]) /\ Elements(replay'[h]) \subseteq Elements(replay[h])
            /\ \A x \in Elements(received'[h]) :
                  x \in Elements(received[h]) \/ \E q \in QueuesOf(c) : x \in Bound(q)
  PROVE  Newest(c)' /\ Between(c)'
  <1>0. NoQueue \notin QueuesOf(c) /\ Elements(<<>>) = {} /\ Ascending(<<>>)
    BY SentinelsAreDistinct, QueuesTyped DEF Elements, Ascending
  <1>1. Ascending(pending'[c]) /\ Elements(pending'[c]) \subseteq Elements(pending[c])
    BY <1>0 DEF Newest
  <1>2. \A q \in QueuesOf(c) : \A x \in Bound(q)', y \in Elements(pending'[c]) : x < y
    BY <1>1 DEF Newest
  <1>3. \A h \in HandlesOf(c) : \A x \in Elements(received'[h]), y \in Elements(pending'[c]) : x < y
    BY <1>1 DEF Newest
  <1>4. \A q \in QueuesOf(c), k \in Nat : <<q, k>> \in owedItems' => k = routed'[c] /\ k \notin replayed'[c]
    BY DEF Newest
  <1>5. \A h \in HandlesOf(c) : Ascending(replay'[h]) /\ Elements(replay'[h]) \subseteq replayed'[c]
    BY DEF Newest
  <1>6. Newest(c)'
    BY <1>1, <1>2, <1>3, <1>4, <1>5, SameHomes DEF Newest, Elements, Ascending
  <1>7. Between(c)'
    BY <1>0, SameHomes DEF Between
  <1> QED BY <1>6, <1>7

LEMMA QuietOnward ==
  ASSUME NEW c \in Channels, Onward(c), Received(c),
         replayed'[c] = replayed[c], registered'[c] \in {registered[c], NoQueue},
         \A q \in QueuesOf(c) : Bound(q)' \subseteq Bound(q),
         \A h \in HandlesOf(c) :
            /\ received'[h] = received[h]
            /\ user'[h] = "get" => held'[h] = registered[c] \/ (user[h] = "get" /\ held[h] = held'[h])
  PROVE  Onward(c)' /\ Received(c)'
  <1>0. NoQueue \notin QueuesOf(c)
    BY SentinelsAreDistinct, QueuesTyped
  <1>1. \A x, y : InOrder(c, x, y)' <=> InOrder(c, x, y)
    BY DEF InOrder
  <1>2. Received(c)'
    BY <1>1, SameHomes DEF Received
  <1>3. ASSUME NEW h \in HandlesOf(c), NEW q \in QueuesOf(c),
               registered'[c] = q \/ (user'[h] = "get" /\ held'[h] = q),
               NEW x \in Elements(received'[h]), NEW y \in Bound(q)'
        PROVE  InOrder(c, x, y)'
    BY <1>0, <1>1, <1>3 DEF Onward, Elements
  <1>4. Onward(c)'
    BY <1>3, SameHomes DEF Onward, Elements
  <1> QED BY <1>2, <1>4

LEMMA BoundShrinks ==
  ASSUME NEW q, Elements(queue'[q]) \cap Nat \subseteq Bound(q),
         \A k \in Nat : <<q, k>> \in owedItems' => k \in Bound(q),
         \A h \in Handles : held'[h] = q => Elements(replay'[h]) \subseteq Bound(q)
  PROVE  Bound(q)' \subseteq Bound(q)
  <1> SUFFICES ASSUME NEW x \in Bound(q)', x \notin Bound(q) PROVE FALSE
    OBVIOUS
  <1>1. \/ x \in Elements(queue'[q]) \cap Nat
        \/ x \in Nat /\ <<q, x>> \in owedItems'
        \/ \E h \in Handles : held'[h] = q /\ x \in Elements(replay'[h])
    BY DEF Bound, Elements
  <1> QED BY <1>1

LEMMA BoundParts ==
  ASSUME NEW q
  PROVE  /\ Elements(queue[q]) \cap Nat \subseteq Bound(q)
         /\ \A k \in Nat : <<q, k>> \in owedItems => k \in Bound(q)
         /\ \A h \in Handles : held[h] = q => Elements(replay[h]) \subseteq Bound(q)
  BY DEF Bound

\* No queue is used before it is made, in steps that make none.
LEMMA QuietMade ==
  ASSUME IInv, Placing, QueuesAreMade, UNCHANGED calls \/ \E d \in Handles : calls' = [calls EXCEPT ![d] = @ + 1],
         \A q \in Queues : Bound(q)' \subseteq Bound(q),
         \A ch \in Channels : registered'[ch] \in {registered[ch], NoQueue},
         registered'[Global] = registered[Global],
         \A h \in Handles : held'[h] \in {held[h], GlobalQueue} \/ \E ch \in Channels : held'[h] = registered[ch],
         \A h \in Handles : user'[h] = "replay" => user[h] = "replay" /\ held'[h] = held[h] /\ calls'[h] = calls[h],
         \A h \in Handles : ChannelOf[h] = Global => user'[h] \in {"idle", "get", "raised"}
  PROVE  QueuesAreMade'
  <1>1. \A h \in Handles : calls[h] \in Nat /\ calls'[h] \in Nat /\ calls[h] <= calls'[h]
    <2>1. calls \in [Handles -> 0..MaxCalls] /\ MaxCalls \in Nat
      BY HandlesAssumption DEF IInv, Routing, TypeOK
    <2>2. \A h \in Handles : calls[h] \in Nat
      BY <2>1
    <2>3. \A h \in Handles : calls'[h] = calls[h] \/ calls'[h] = calls[h] + 1
      BY <2>1
    <2> QED BY <2>2, <2>3
  <1>2. ASSUME NEW q \in Queues, Made(q) PROVE Made(q)'
    <2>1. CASE q = GlobalQueue
      BY <2>1 DEF Made, GlobalQueue
    <2>2. CASE q # GlobalQueue
      <3>1. q[1] \in Handles /\ q[2] \in Nat
        BY <2>2, HandlesAssumption DEF Queues
      <3> QED BY <1>1, <1>2, <2>2, <3>1 DEF Made
    <2> QED BY <2>1, <2>2
  <1>3. \A ch \in Channels : registered[ch] \in Queues \cup {NoQueue}
    BY DEF IInv, Routing, TypeOK
  <1>4. \A h \in Handles : held[h] \in Queues \cup {NoQueue}
    BY DEF IInv, Routing, TypeOK
  <1>5. Made(GlobalQueue) /\ GlobalQueue \in Queues /\ NoQueue \notin Queues /\ GlobalQueue' = GlobalQueue
    BY SentinelsAreDistinct, GlobalQueueIsAQueue DEF Made, GlobalQueue
  <1>6. ASSUME NEW ch \in Channels, NEW q, q = registered'[ch], q # NoQueue PROVE Made(q)'
    <2>1. q \in Queues /\ Made(q)
      BY <1>3, <1>6 DEF QueuesAreMade
    <2> QED BY <1>2, <2>1
  <1>7. ASSUME NEW h \in Handles, NEW q, q = held'[h], q # NoQueue PROVE Made(q)'
    <2>1. q \in Queues /\ Made(q)
      BY <1>3, <1>4, <1>5, <1>7 DEF QueuesAreMade
    <2> QED BY <1>2, <2>1
  <1>8. \A q \in Queues : Bound(q)' # {} => Made(q)'
    BY <1>2 DEF QueuesAreMade
  <1>9. /\ \A ch \in Channels : registered'[ch] # NoQueue => Made(registered[ch])'
        /\ \A h \in Handles : held'[h] # NoQueue => Made(held[h])'
    BY <1>6, <1>7 DEF Made
  <1>10. \A h \in Handles : user'[h] = "replay" => held'[h] = <<h, calls'[h]>>
    BY DEF QueuesAreMade
  <1>11. registered'[Global] = GlobalQueue /\ Queues' = Queues
    BY DEF QueuesAreMade, Queues
  <1> QED BY <1>5, <1>8, <1>9, <1>10, <1>11 DEF QueuesAreMade

\* Steps that leave every event where it is.
LEMMA QuietOrdered ==
  ASSUME IInv, Placing, Ordered,
         UNCHANGED <<pending, queue, replay, owedItems, routed, received, replayed>>,
         UNCHANGED calls \/ \E d \in Handles : calls' = [calls EXCEPT ![d] = @ + 1],
         \A ch \in Channels : registered'[ch] \in {registered[ch], NoQueue},
         registered'[Global] = registered[Global],
         \A h \in Handles :
            \/ held'[h] = held[h]
            \/ replay[h] = <<>> /\ held'[h] = registered[ChannelOf[h]],
         \A h \in Handles : user'[h] = "replay" => user[h] = "replay" /\ held'[h] = held[h] /\ calls'[h] = calls[h],
         \A h \in Handles : user'[h] = "get" =>
            held'[h] = registered[ChannelOf[h]] \/ (user[h] = "get" /\ held'[h] = held[h]),
         \A h \in Handles : ChannelOf[h] = Global => user'[h] \in {"idle", "get", "raised"}
  PROVE  Ordered'
  <1>0. \A h \in Handles : ChannelOf[h] \in Channels
    BY HandlesAssumption
  <1>1. ASSUME NEW q PROVE Bound(q)' \subseteq Bound(q)
    <2>1. \A h \in Handles : held'[h] = q => Elements(replay'[h]) \subseteq Bound(q)
      BY BoundParts DEF Elements
    <2> QED BY <2>1, BoundParts, BoundShrinks
  <1>2. QueuesAreMade'
    BY <1>0, <1>1, QuietMade DEF Ordered
  <1>3. ASSUME NEW c \in Channels PROVE Newest(c)' /\ Within(c)' /\ Between(c)' /\ Onward(c)' /\ Received(c)'
    <2>0. \A h \in HandlesOf(c) : h \in Handles /\ ChannelOf[h] = c
      BY DEF HandlesOf
    <2>1. Newest(c)' /\ Between(c)'
      <3>1. \A h \in HandlesOf(c) : Ascending(replay'[h])
        BY DEF Ordered, Newest
      <3> QED BY <1>1, <1>3, <3>1, QuietOrder DEF Ordered
    <2>2. Within(c)'
      <3>1. \A x, y : InOrder(c, x, y)' <=> InOrder(c, x, y)
        BY DEF InOrder
      <3>2. ASSUME NEW q \in QueuesOf(c), NEW h \in HandlesOf(c), held'[h] = q,
                   NEW x \in Elements(queue[q]) \cap Nat, NEW y \in Elements(replay[h])
            PROVE  InOrder(c, x, y)'
        <4>1. held[h] = q
          BY <2>0, <3>2 DEF Elements
        <4> QED BY <3>1, <3>2, <4>1 DEF Ordered, Within
      <3> QED BY <3>1, <3>2, SameHomes DEF Ordered, Within, Elements
    <2>3. Onward(c)' /\ Received(c)'
      BY <1>1, <1>3, <2>0, QuietOnward DEF Ordered
    <2> QED BY <2>1, <2>2, <2>3
  <1> QED BY <1>2, <1>3 DEF Ordered

\* The put after the unlock: the item is the newest that was routed.
LEMMA PutOrdered ==
  ASSUME IInv, Placing, Ordered, NEW u \in Queues, NEW e \in Items, PutNotification(u, e)
  PROVE  Ordered'
  <1>1. /\ <<u, e>> \in owedItems /\ owedItems' = owedItems \ {<<u, e>>}
        /\ queue[u] \in Seq(Items) /\ queue'[u] = Append(queue[u], e)
        /\ \A q \in Queues \ {u} : queue'[q] = queue[q]
        /\ UNCHANGED <<registered, pending, user, held, calls, replay, routed, received, replayed>>
    BY DEF IInv, Routing, TypeOK, PutNotification, userVars, historyVars
  <1>a. Elements(queue'[u]) = Elements(queue[u]) \cup {e}
    <2>1. Elements(Append(queue[u], e)) = Elements(queue[u]) \cup {e}
      BY <1>1, Appended
    <2> QED BY <1>1, <2>1
  <1>2. ASSUME NEW q \in Queues PROVE Bound(q)' \subseteq Bound(q)
    <2>1. Elements(queue'[q]) \cap Nat \subseteq Bound(q)
      <3>1. CASE q = u
        <4>1. Elements(queue'[q]) = Elements(queue[q]) \cup {e}
          BY <1>a, <3>1
        <4>2. e \in Nat => e \in Bound(q)
          BY <1>1, <3>1, BoundParts
        <4> QED BY <4>1, <4>2, BoundParts
      <3>2. CASE q # u
        <4>1. queue'[q] = queue[q]
          BY <1>1, <3>2
        <4> QED BY <4>1, BoundParts
      <3> QED BY <3>1, <3>2
    <2>2. \A k \in Nat : <<q, k>> \in owedItems' => k \in Bound(q)
      BY <1>1, BoundParts
    <2>3. \A h \in Handles : held'[h] = q => Elements(replay'[h]) \subseteq Bound(q)
      BY <1>1, BoundParts
    <2> QED BY <2>1, <2>2, <2>3, BoundShrinks
  <1>3. QueuesAreMade'
    BY <1>1, <1>2, QuietMade DEF Ordered, QueuesAreMade
  <1>4. ASSUME NEW c \in Channels PROVE Newest(c)' /\ Within(c)' /\ Between(c)' /\ Onward(c)' /\ Received(c)'
    <2>0. /\ \A q \in QueuesOf(c) : q \in Queues /\ Bound(q)' \subseteq Bound(q)
          /\ \A h \in HandlesOf(c) : h \in Handles
          /\ Newest(c) /\ Within(c) /\ Between(c) /\ Onward(c) /\ Received(c)
      BY <1>2, <1>4, QueuesTyped DEF HandlesOf, Ordered
    <2>1. Newest(c)' /\ Between(c)'
      <3>1. \A h \in HandlesOf(c) : Ascending(replay'[h])
        BY <1>1, <2>0 DEF Newest
      <3> QED BY <1>1, <2>0, <3>1, QuietOrder
    <2>2. Onward(c)' /\ Received(c)'
      <3>1. \A h \in HandlesOf(c) : user'[h] = "get" => held'[h] = registered[c] \/ (user[h] = "get" /\ held[h] = held'[h])
        BY <1>1
      <3> QED BY <1>1, <2>0, <3>1, QuietOnward
    <2>3. Within(c)'
      <3>1. \A x, y : InOrder(c, x, y)' <=> InOrder(c, x, y)
        BY <1>1 DEF InOrder
      <3>2. ASSUME NEW q \in QueuesOf(c), q = u, e \in Nat
            PROVE  /\ \A x \in Elements(queue[q]) \cap Nat : InOrder(c, x, e)
                   /\ \A h \in HandlesOf(c) : \A y \in Elements(replay[h]) : InOrder(c, e, y)
        <4>1. e = routed[c] /\ e \notin replayed[c]
          BY <1>1, <2>0, <3>2 DEF Newest
        <4>2. ASSUME NEW x \in Elements(queue[q]) \cap Nat PROVE InOrder(c, x, e)
          <5>1. Laid(c) /\ <<"queue", q>> \in Homes(c) /\ <<"owed", q>> \in Homes(c)
            BY HomesOfChannel
          <5>2. x \in Stock(c)[<<"queue", q>>] /\ e \in Stock(c)[<<"owed", q>>]
            BY <1>1, <3>2, <5>1 DEF Laid
          <5>3. x # e /\ x \in 1..routed[c] /\ routed[c] \in Nat
            BY <5>1, <5>2, PlacedRange DEF IInv, Routing, TypeOK
          <5> QED BY <4>1, <5>3 DEF InOrder
        <4>3. \A h \in HandlesOf(c) : \A y \in Elements(replay[h]) : InOrder(c, e, y)
          BY <2>0, <4>1 DEF Newest, InOrder
        <4> QED BY <4>2, <4>3
      <3>3. ASSUME NEW q \in QueuesOf(c), NEW i \in DOMAIN queue'[q], NEW j \in DOMAIN queue'[q],
                   i < j, queue'[q][i] \in Nat, queue'[q][j] \in Nat
            PROVE  InOrder(c, queue'[q][i], queue'[q][j])
        <4>1. CASE q # u
          <5>1. queue'[q] = queue[q]
            BY <1>1, <2>0, <4>1
          <5> QED BY <2>0, <3>3, <5>1 DEF Within
        <4>2. CASE q = u
          <5>1. /\ DOMAIN queue'[q] = 1..(Len(queue[q]) + 1) /\ Len(queue[q]) \in Nat
                /\ queue'[q][Len(queue[q]) + 1] = e
                /\ \A m \in 1..Len(queue[q]) : m \in DOMAIN queue[q] /\ queue'[q][m] = queue[q][m]
            BY <1>1, <4>2
          <5>2. i \in 1..Len(queue[q])
            BY <3>3, <5>1
          <5>3. CASE j \in 1..Len(queue[q])
            BY <2>0, <3>3, <5>1, <5>2, <5>3 DEF Within
          <5>4. CASE j = Len(queue[q]) + 1
            <6>1. queue[q][i] \in Elements(queue[q]) \cap Nat
              BY <3>3, <5>1, <5>2 DEF Elements
            <6> QED BY <3>2, <3>3, <4>2, <5>1, <5>2, <5>4, <6>1
          <5> QED BY <3>3, <5>1, <5>3, <5>4
        <4> QED BY <4>1, <4>2
      <3>4. ASSUME NEW q \in QueuesOf(c), NEW h \in HandlesOf(c), held'[h] = q,
                   NEW x \in Elements(queue'[q]) \cap Nat, NEW y \in Elements(replay'[h])
            PROVE  InOrder(c, x, y)'
        <4>1. CASE x \in Elements(queue[q])
          BY <1>1, <2>0, <3>1, <3>4, <4>1 DEF Within
        <4>2. CASE x \notin Elements(queue[q])
          <5>1. q = u /\ x = e
            <6>1. q # u => queue'[q] = queue[q]
              BY <1>1, <2>0
            <6>2. q = u => Elements(queue'[q]) = Elements(queue[q]) \cup {e}
              BY <1>a
            <6> QED BY <3>4, <4>2, <6>1, <6>2
          <5> QED BY <1>1, <3>1, <3>2, <3>4, <5>1
        <4> QED BY <4>1, <4>2
      <3>5. ASSUME NEW q \in QueuesOf(c), NEW i \in DOMAIN queue'[q], NEW j \in DOMAIN queue'[q],
                   i < j, queue'[q][i] \in Nat, queue'[q][j] \in Nat
            PROVE  InOrder(c, queue[q][i], queue[q][j])'
        BY <1>1, <3>3, <3>5 DEF InOrder
      <3> QED BY <3>4, <3>5, SameHomes DEF Within, Elements
    <2> QED BY <2>1, <2>2, <2>3
  <1> QED BY <1>3, <1>4 DEF Ordered

LEMMA AscendingTail ==
  ASSUME NEW s \in Seq(Nat), s # <<>>, Ascending(s)
  PROVE  Ascending(Tail(s)) /\ \A y \in Elements(Tail(s)) : Head(s) < y
  <1>1. /\ Len(s) \in Nat \ {0} /\ DOMAIN s = 1..Len(s) /\ Head(s) = s[1]
        /\ DOMAIN Tail(s) = 1..(Len(s) - 1)
        /\ \A i \in 1..(Len(s) - 1) : Tail(s)[i] = s[i + 1] /\ i + 1 \in 1..Len(s) /\ 1 < i + 1
    OBVIOUS
  <1>2. Ascending(Tail(s))
    BY <1>1, SMTT(30) DEF Ascending
  <1>3. ASSUME NEW i \in 1..(Len(s) - 1) PROVE Head(s) < Tail(s)[i]
    <2>1. 1 \in DOMAIN s /\ i + 1 \in DOMAIN s /\ 1 < i + 1
      BY <1>1
    <2> QED BY <1>1, <2>1 DEF Ascending
  <1> QED BY <1>1, <1>2, <1>3 DEF Elements

\* A put of register_* after the unlock: the oldest of the replay goes into the queue.
LEMMA ReplayOrdered ==
  ASSUME IInv, Placing, Ordered, NEW h \in Handles, ReplayPending(h), replay[h] # <<>>
  PROVE  Ordered'
  <1>h. PICK c \in Channels : c = ChannelOf[h]
    BY HandlesAssumption
  <1>0. PICK u, e, s : c = ChannelOf[h] /\ u = held[h] /\ e = Head(replay[h]) /\ s = Tail(replay[h])
    BY <1>h
  <1>1. /\ user[h] = "replay" /\ h \in HandlesOf(c) /\ u \in QueuesOf(c) /\ u \in Queues
        /\ queue[u] \in Seq(Items) /\ e \in Items /\ e \in Elements(replay[h])
        /\ Elements(s) \subseteq Elements(replay[h]) /\ Ascending(s) /\ \A y \in Elements(s) : e < y
    <2>1. user[h] = "replay" /\ replay[h] \in Seq(Nat)
      BY DEF ReplayPending, IInv, Routing, TypeOK
    <2>2. h \in HandlesOf(c) /\ u \in QueuesOf(c) /\ u \in Queues
      BY <1>0, <2>1, QueuesTyped DEF Placing, Housed, HandlesOf
    <2>3. Ascending(replay[h]) /\ Distinct(replay[h])
      BY <2>2 DEF Ordered, Newest, Placing, NoneTwice
    <2>4. Head(replay[h]) \in Elements(replay[h]) /\ Elements(Tail(replay[h])) \cap Nat \subseteq Elements(replay[h])
          /\ Tail(replay[h]) \in Seq(Nat)
      BY <2>1, <2>3, Headed
    <2>5. Elements(Tail(replay[h])) \subseteq Nat /\ Elements(replay[h]) \subseteq Nat
      BY <2>1, <2>4, SMTT(30) DEF Elements
    <2>6. Ascending(Tail(replay[h])) /\ \A y \in Elements(Tail(replay[h])) : Head(replay[h]) < y
      BY <2>1, <2>3, AscendingTail
    <2> QED BY <1>0, <2>1, <2>2, <2>4, <2>5, <2>6 DEF IInv, Routing, TypeOK, Items
  <1>2. /\ queue'[u] = Append(queue[u], e) /\ \A q \in Queues \ {u} : queue'[q] = queue[q]
        /\ replay'[h] = s /\ \A d \in Handles \ {h} : replay'[d] = replay[d]
        /\ UNCHANGED <<registered, pending, user, held, calls, owedItems, routed, received, replayed>>
    BY <1>0, <1>1 DEF ReplayPending, historyVars, IInv, Routing, TypeOK
  <1>a. Elements(queue'[u]) = Elements(queue[u]) \cup {e}
    <2>1. Elements(Append(queue[u], e)) = Elements(queue[u]) \cup {e}
      BY <1>1, Appended
    <2> QED BY <1>2, <2>1
  <1>b. \A d \in Handles : Elements(replay'[d]) \subseteq Elements(replay[d])
    BY <1>1, <1>2
  <1>3. ASSUME NEW q \in Queues PROVE Bound(q)' \subseteq Bound(q)
    <2>1. Elements(queue'[q]) \cap Nat \subseteq Bound(q)
      <3>1. CASE q = u
        <4>1. e \in Bound(q)
          BY <1>0, <1>1, <3>1, BoundParts
        <4> QED BY <1>a, <3>1, <4>1, BoundParts
      <3>2. CASE q # u
        <4>1. queue'[q] = queue[q]
          BY <1>2, <3>2
        <4> QED BY <4>1, BoundParts
      <3> QED BY <3>1, <3>2
    <2>2. \A k \in Nat : <<q, k>> \in owedItems' => k \in Bound(q)
      BY <1>2, BoundParts
    <2>3. ASSUME NEW d \in Handles, held'[d] = q PROVE Elements(replay'[d]) \subseteq Bound(q)
      BY <1>2, <1>b, <2>3, BoundParts
    <2> QED BY <2>1, <2>2, <2>3, BoundShrinks
  <1>4. QueuesAreMade'
    BY <1>2, <1>3, QuietMade DEF Ordered, QueuesAreMade
  <1>5. ASSUME NEW ch \in Channels
        PROVE  Newest(ch)' /\ Within(ch)' /\ Between(ch)' /\ Onward(ch)' /\ Received(ch)'
    <2>0. /\ \A q \in QueuesOf(ch) : q \in Queues /\ Bound(q)' \subseteq Bound(q)
          /\ \A d \in HandlesOf(ch) : d \in Handles
          /\ Newest(ch) /\ Within(ch) /\ Between(ch) /\ Onward(ch) /\ Received(ch)
      BY <1>3, <1>5, QueuesTyped DEF HandlesOf, Ordered
    <2>1. Newest(ch)' /\ Between(ch)'
      <3>1. \A d \in HandlesOf(ch) : Ascending(replay'[d])
        BY <1>1, <1>2, <2>0 DEF Newest
      <3> QED BY <1>2, <1>b, <2>0, <3>1, QuietOrder
    <2>2. Onward(ch)' /\ Received(ch)'
      <3>1. \A d \in HandlesOf(ch) : user'[d] = "get" => held'[d] = registered[ch] \/ (user[d] = "get" /\ held[d] = held'[d])
        BY <1>2
      <3> QED BY <1>2, <2>0, <3>1, QuietOnward
    <2>3. Within(ch)'
      <3>1. \A x, y : InOrder(ch, x, y)' <=> InOrder(ch, x, y)
        BY <1>2 DEF InOrder
      <3>2. ASSUME NEW q \in QueuesOf(ch), q = u
            PROVE  /\ h \in HandlesOf(ch)
                   /\ \A x \in Elements(queue[q]) \cap Nat : InOrder(ch, x, e)
                   /\ \A d \in HandlesOf(ch) : held[d] = q => \A y \in Elements(replay'[d]) : InOrder(ch, e, y)
        <4>1. ch = c /\ h \in HandlesOf(ch)
          BY <1>1, <3>2, QueuesApart
        <4>2. \A x \in Elements(queue[q]) \cap Nat : InOrder(ch, x, e)
          BY <1>0, <1>1, <2>0, <3>2, <4>1 DEF Within
        <4>3. ASSUME NEW d \in HandlesOf(ch), held[d] = q, NEW y \in Elements(replay'[d]) PROVE InOrder(ch, e, y)
          <5>1. CASE d = h
            BY <1>1, <1>2, <4>3, <5>1 DEF InOrder
          <5>2. CASE d # h
            <6>1. d \in Handles /\ replay[d] # <<>>
              BY <1>2, <2>0, <4>3, <5>2 DEF Elements
            <6>2. user[d] = "replay"
              BY <6>1 DEF Placing, Housed
            <6>3. held[d] = <<d, calls[d]>> /\ held[h] = <<h, calls[h]>>
              BY <1>1, <6>1, <6>2 DEF Ordered, QueuesAreMade
            <6>4. <<d, calls[d]>> = <<h, calls[h]>>
              BY <1>0, <3>2, <4>3, <6>3
            <6> QED BY <5>2, <6>4
          <5> QED BY <5>1, <5>2
        <4> QED BY <4>1, <4>2, <4>3
      <3>3. ASSUME NEW q \in QueuesOf(ch), NEW i \in DOMAIN queue'[q], NEW j \in DOMAIN queue'[q],
                   i < j, queue'[q][i] \in Nat, queue'[q][j] \in Nat
            PROVE  InOrder(ch, queue'[q][i], queue'[q][j])
        <4>1. CASE q # u
          <5>1. queue'[q] = queue[q]
            BY <1>2, <2>0, <4>1
          <5> QED BY <2>0, <3>3, <5>1 DEF Within
        <4>2. CASE q = u
          <5>1. /\ DOMAIN queue'[q] = 1..(Len(queue[q]) + 1) /\ Len(queue[q]) \in Nat
                /\ queue'[q][Len(queue[q]) + 1] = e
                /\ \A m \in 1..Len(queue[q]) : m \in DOMAIN queue[q] /\ queue'[q][m] = queue[q][m]
            BY <1>1, <1>2, <4>2
          <5>2. i \in 1..Len(queue[q])
            BY <3>3, <5>1
          <5>3. CASE j \in 1..Len(queue[q])
            BY <2>0, <3>3, <5>1, <5>2, <5>3 DEF Within
          <5>4. CASE j = Len(queue[q]) + 1
            <6>1. queue[q][i] \in Elements(queue[q]) \cap Nat
              BY <3>3, <5>1, <5>2 DEF Elements
            <6> QED BY <3>2, <3>3, <4>2, <5>1, <5>2, <5>4, <6>1
          <5> QED BY <3>3, <5>1, <5>3, <5>4
        <4> QED BY <4>1, <4>2
      <3>4. ASSUME NEW q \in QueuesOf(ch), NEW d \in HandlesOf(ch), held'[d] = q,
                   NEW x \in Elements(queue'[q]) \cap Nat, NEW y \in Elements(replay'[d])
            PROVE  InOrder(ch, x, y)'
        <4>1. CASE x \in Elements(queue[q])
          BY <1>2, <1>b, <2>0, <3>1, <3>4, <4>1 DEF Within
        <4>2. CASE x \notin Elements(queue[q])
          <5>1. q = u /\ x = e
            <6>1. q # u => queue'[q] = queue[q]
              BY <1>2, <2>0
            <6>2. q = u => Elements(queue'[q]) = Elements(queue[q]) \cup {e}
              BY <1>a
            <6> QED BY <3>4, <4>2, <6>1, <6>2
          <5> QED BY <1>2, <3>1, <3>2, <3>4, <5>1
        <4> QED BY <4>1, <4>2
      <3>5. ASSUME NEW q \in QueuesOf(ch), NEW i \in DOMAIN queue'[q], NEW j \in DOMAIN queue'[q],
                   i < j, queue'[q][i] \in Nat, queue'[q][j] \in Nat
            PROVE  InOrder(ch, queue[q][i], queue[q][j])'
        BY <1>2, <3>3, <3>5 DEF InOrder
      <3> QED BY <3>4, <3>5, SameHomes DEF Within, Elements
    <2> QED BY <2>1, <2>2, <2>3
  <1> QED BY <1>4, <1>5 DEF Ordered

\* What is received or kept was routed, and is in no other place.
LEMMA KeptPlaced ==
  ASSUME Placing, NEW c \in Channels
  PROVE  /\ Elements(pending[c]) \subseteq 1..routed[c]
         /\ \A h \in HandlesOf(c) :
               /\ Elements(received[h]) \subseteq 1..routed[c]
               /\ Elements(received[h]) \cap Elements(pending[c]) = {}
         /\ \A q \in QueuesOf(c), k \in Nat : <<q, k>> \in owedItems => k \notin Elements(queue[q])
  <1>0. /\ Laid(c) /\ <<"pending", c>> \in Homes(c) /\ <<"pending", c>>[1] = "pending"
        /\ \A h \in HandlesOf(c) : <<"received", h>> \in Homes(c) /\ <<"received", h>>[1] = "received"
        /\ \A q \in QueuesOf(c) :
              /\ <<"owed", q>> \in Homes(c) /\ <<"owed", q>>[1] = "owed"
              /\ <<"queue", q>> \in Homes(c) /\ <<"queue", q>>[1] = "queue"
    BY HomesOfChannel
  <1>1. \A x \in Homes(c) : \A k \in Stock(c)[x] : k \in 1..routed[c] /\ \A y \in Homes(c) : k \in Stock(c)[y] => x = y
    BY PlacedRange
  <1>2. Elements(pending[c]) \subseteq 1..routed[c]
    BY <1>0, <1>1 DEF Laid
  <1>3. ASSUME NEW h \in HandlesOf(c)
        PROVE  Elements(received[h]) \subseteq 1..routed[c] /\ Elements(received[h]) \cap Elements(pending[c]) = {}
    <2>1. Stock(c)[<<"received", h>>] = Elements(received[h]) /\ Stock(c)[<<"pending", c>>] = Elements(pending[c])
      BY <1>0 DEF Laid
    <2>2. <<"received", h>> # <<"pending", c>>
      BY <1>0
    <2> QED BY <1>0, <1>1, <2>1, <2>2
  <1>4. ASSUME NEW q \in QueuesOf(c), NEW k \in Nat, <<q, k>> \in owedItems PROVE k \notin Elements(queue[q])
    <2>1. k \in Stock(c)[<<"owed", q>>] /\ (k \in Elements(queue[q]) => k \in Stock(c)[<<"queue", q>>])
      BY <1>0, <1>4 DEF Laid
    <2>2. <<"owed", q>> # <<"queue", q>>
      BY <1>0
    <2> QED BY <1>0, <1>1, <2>1, <2>2
  <1> QED BY <1>2, <1>3, <1>4

\* The get of a handle: the oldest item of its queue is handed to the caller.
LEMMA GetOrdered ==
  ASSUME IInv, Placing, Ordered, NEW h \in Handles, GetNotification(h)
  PROVE  Ordered'
  <1>h. PICK c \in Channels : c = ChannelOf[h]
    BY HandlesAssumption
  <1>0. PICK u, e : c = ChannelOf[h] /\ u = held[h] /\ e = Head(queue[held[h]])
    BY <1>h
  <1>1. /\ user[h] = "get" /\ h \in HandlesOf(c) /\ u \in QueuesOf(c) /\ u \in Queues
        /\ queue[u] \in Seq(Items) /\ queue[u] # <<>> /\ received[h] \in Seq(Nat)
        /\ e \in Items /\ e \in Elements(queue[u])
    <2>1. user[h] = "get" /\ queue[held[h]] # <<>>
      BY DEF GetNotification
    <2>2. h \in HandlesOf(c) /\ u \in QueuesOf(c) /\ u \in Queues
      BY <1>0, <2>1, QueuesTyped DEF Placing, Housed, HandlesOf
    <2>3. queue[u] \in Seq(Items) /\ received[h] \in Seq(Nat)
      BY <2>2 DEF IInv, Routing, TypeOK
    <2>4. 1 \in DOMAIN queue[u] /\ e = queue[u][1] /\ queue[u][1] \in Items
      BY <1>0, <2>1, <2>3
    <2> QED BY <1>0, <2>1, <2>2, <2>3, <2>4 DEF Elements
  <1>2. /\ queue'[u] = Tail(queue[u]) /\ \A q \in Queues \ {u} : queue'[q] = queue[q]
        /\ UNCHANGED <<registered, pending, held, replay, calls, owedItems, routed, replayed>>
        /\ \A d \in Handles \ {h} : received'[d] = received[d] /\ user'[d] = user[d]
        /\ user'[h] \notin {"get", "replay"}
        /\ c = Global => user'[h] \in {"idle", "get", "raised"}
        /\ \/ e \notin Nat /\ received'[h] = received[h]
           \/ e \in Nat /\ received'[h] = Append(received[h], e)
    BY <1>0, <1>1, SentinelsAreDistinct DEF GetNotification, IInv, Routing, TypeOK, Items, IsCompletion
  <1>a. /\ DOMAIN queue[u] = 1..Len(queue[u]) /\ Len(queue[u]) \in Nat \ {0} /\ e = queue[u][1]
        /\ DOMAIN queue'[u] = 1..(Len(queue[u]) - 1)
        /\ \A i \in 1..(Len(queue[u]) - 1) : queue'[u][i] = queue[u][i + 1] /\ i + 1 \in 1..Len(queue[u])
    BY <1>0, <1>1, <1>2
  <1>b. Elements(queue'[u]) \subseteq Elements(queue[u])
    BY <1>a DEF Elements
  <1>3. ASSUME NEW q \in Queues PROVE Bound(q)' \subseteq Bound(q)
    <2>1. Elements(queue'[q]) \subseteq Elements(queue[q])
      <3>1. q # u => queue'[q] = queue[q]
        BY <1>2
      <3> QED BY <1>b, <3>1
    <2>2. \A k \in Nat : <<q, k>> \in owedItems' => k \in Bound(q)
      BY <1>2, BoundParts
    <2>3. \A d \in Handles : held'[d] = q => Elements(replay'[d]) \subseteq Bound(q)
      BY <1>2, BoundParts
    <2>4. Elements(queue'[q]) \cap Nat \subseteq Bound(q)
      BY <2>1, BoundParts
    <2> QED BY <2>2, <2>3, <2>4, BoundShrinks
  <1>4. QueuesAreMade'
    <2>1. \A d \in Handles : user'[d] = "replay" => user[d] = "replay" /\ held'[d] = held[d] /\ calls'[d] = calls[d]
      BY <1>2
    <2>2. \A d \in Handles : ChannelOf[d] = Global => user'[d] \in {"idle", "get", "raised"}
      BY <1>0, <1>2 DEF Ordered, QueuesAreMade
    <2> QED BY <1>2, <1>3, <2>1, <2>2, QuietMade DEF Ordered, QueuesAreMade
  <1>5. ASSUME NEW ch \in Channels
        PROVE  Newest(ch)' /\ Within(ch)' /\ Between(ch)' /\ Onward(ch)' /\ Received(ch)'
    <2>0. /\ \A q \in QueuesOf(ch) : q \in Queues /\ Bound(q)' \subseteq Bound(q)
          /\ \A d \in HandlesOf(ch) : d \in Handles
          /\ Newest(ch) /\ Within(ch) /\ Between(ch) /\ Onward(ch) /\ Received(ch)
      BY <1>3, <1>5, QueuesTyped DEF HandlesOf, Ordered
    <2>a. \A x, y : InOrder(ch, x, y)' <=> InOrder(ch, x, y)
      BY <1>2 DEF InOrder
    <2>b. e \in Nat => e \in Bound(u)
      BY <1>1, BoundParts
    <2>c. h \in HandlesOf(ch) => ch = c
      BY <1>1, QueuesApart
    <2>d. u \in QueuesOf(ch) => ch = c
      BY <1>1, QueuesApart
    <2>e. \A d \in HandlesOf(ch) : \A x \in Elements(received'[d]) :
             x \in Elements(received[d]) \/ (d = h /\ ch = c /\ x = e /\ e \in Nat)
      <3>1. e \in Nat => Elements(Append(received[h], e)) = Elements(received[h]) \cup {e}
        BY <1>1, Appended
      <3>2. Elements(received'[h]) = Elements(received[h]) \/ (e \in Nat /\ Elements(received'[h]) = Elements(received[h]) \cup {e})
        BY <1>2, <3>1
      <3>3. \A d \in HandlesOf(ch) : d # h => received'[d] = received[d]
        BY <1>2, <2>0
      <3> QED BY <2>c, <3>2, <3>3
    <2>1. Newest(ch)' /\ Between(ch)'
      <3>1. \A d \in HandlesOf(ch) :
               /\ Ascending(replay'[d]) /\ Elements(replay'[d]) \subseteq Elements(replay[d])
               /\ \A x \in Elements(received'[d]) :
                     x \in Elements(received[d]) \/ \E q \in QueuesOf(ch) : x \in Bound(q)
        BY <1>1, <1>2, <2>0, <2>b, <2>e DEF Newest
      <3> QED BY <1>2, <2>0, <3>1, QuietOrder
    <2>2. Within(ch)'
      <3>1. ASSUME NEW q \in QueuesOf(ch), NEW i \in DOMAIN queue'[q], NEW j \in DOMAIN queue'[q],
                   i < j, queue'[q][i] \in Nat, queue'[q][j] \in Nat
            PROVE  InOrder(ch, queue'[q][i], queue'[q][j])
        <4>1. CASE q # u
          <5>1. queue'[q] = queue[q]
            BY <1>2, <2>0, <4>1
          <5> QED BY <2>0, <3>1, <5>1 DEF Within
        <4>2. CASE q = u
          <5>0. i \in 1..(Len(queue[u]) - 1) /\ j \in 1..(Len(queue[u]) - 1)
            BY <1>a, <3>1, <4>2
          <5>1. /\ i + 1 \in DOMAIN queue[q] /\ j + 1 \in DOMAIN queue[q] /\ i + 1 < j + 1
                /\ queue'[q][i] = queue[q][i + 1] /\ queue'[q][j] = queue[q][j + 1]
            <6>1. /\ i + 1 \in DOMAIN queue[u] /\ j + 1 \in DOMAIN queue[u]
                  /\ queue'[u][i] = queue[u][i + 1] /\ queue'[u][j] = queue[u][j + 1]
              BY <1>a, <5>0
            <6>2. i + 1 < j + 1
              BY <1>a, <3>1, <5>0
            <6> QED BY <4>2, <6>1, <6>2
          <5> QED BY <2>0, <3>1, <5>1 DEF Within
        <4> QED BY <4>1, <4>2
      <3>2. ASSUME NEW q \in QueuesOf(ch), NEW d \in HandlesOf(ch), held'[d] = q,
                   NEW x \in Elements(queue'[q]) \cap Nat, NEW y \in Elements(replay'[d])
            PROVE  InOrder(ch, x, y)'
        <4>1. x \in Elements(queue[q])
          <5>1. q # u => queue'[q] = queue[q]
            BY <1>2, <2>0
          <5> QED BY <1>b, <3>2, <5>1
        <4> QED BY <1>2, <2>0, <2>a, <3>2, <4>1 DEF Within
      <3>3. ASSUME NEW q \in QueuesOf(ch), NEW i \in DOMAIN queue'[q], NEW j \in DOMAIN queue'[q],
                   i < j, queue'[q][i] \in Nat, queue'[q][j] \in Nat
            PROVE  InOrder(ch, queue[q][i], queue[q][j])'
        BY <1>2, <3>1, <3>3 DEF InOrder
      <3> QED BY <3>2, <3>3, SameHomes DEF Within, Elements
    <2>3. Received(ch)'
      <3>1. ASSUME NEW d \in HandlesOf(ch), NEW i \in DOMAIN received'[d], NEW j \in DOMAIN received'[d], i < j
            PROVE  InOrder(ch, received'[d][i], received'[d][j])
        <4>1. CASE received'[d] = received[d]
          BY <2>0, <3>1, <4>1 DEF Received
        <4>2. CASE received'[d] # received[d]
          <5>1. d = h /\ ch = c /\ e \in Nat /\ received'[h] = Append(received[h], e)
            BY <1>2, <2>0, <2>c, <4>2
          <5>2. /\ DOMAIN received'[h] = 1..(Len(received[h]) + 1) /\ Len(received[h]) \in Nat
                /\ received'[h][Len(received[h]) + 1] = e
                /\ \A m \in 1..Len(received[h]) : m \in DOMAIN received[h] /\ received'[h][m] = received[h][m]
            BY <1>1, <5>1
          <5>3. i \in 1..Len(received[h])
            BY <3>1, <5>1, <5>2
          <5>4. CASE j \in 1..Len(received[h])
            BY <2>0, <3>1, <5>1, <5>2, <5>3, <5>4 DEF Received
          <5>5. CASE j = Len(received[h]) + 1
            <6>1. received[h][i] \in Elements(received[h])
              BY <5>2, <5>3 DEF Elements
            <6>2. InOrder(c, received[h][i], e)
              BY <1>0, <1>1, <2>0, <2>b, <5>1, <6>1 DEF Onward
            <6> QED BY <5>1, <5>2, <5>3, <5>5, <6>2
          <5> QED BY <3>1, <5>1, <5>2, <5>4, <5>5
        <4> QED BY <4>1, <4>2
      <3>2. ASSUME NEW d \in HandlesOf(ch), NEW i \in DOMAIN received'[d], NEW j \in DOMAIN received'[d], i < j
            PROVE  InOrder(ch, received[d][i], received[d][j])'
        BY <1>2, <3>1, <3>2 DEF InOrder
      <3> QED BY <3>2, SameHomes DEF Received
    <2>4. Onward(ch)'
      <3>1. ASSUME NEW q \in QueuesOf(ch), ch = c, e \in Nat, registered[c] = q, NEW y \in Bound(q)'
            PROVE  InOrder(c, e, y)
        <4>1. CASE q # u
          BY <1>1, <2>0, <2>b, <3>1, <4>1 DEF Between, InOrder
        <4>2. CASE q = u /\ y \in Elements(queue'[u]) \cap Nat
          <5>1. PICK j \in 1..(Len(queue[u]) - 1) : y = queue'[u][j]
            BY <1>a, <4>2 DEF Elements
          <5>2. /\ 1 \in DOMAIN queue[u] /\ j + 1 \in DOMAIN queue[u] /\ 1 < j + 1
                /\ y = queue[u][j + 1] /\ y \in Nat /\ e = queue[u][1]
            BY <1>a, <4>2, <5>1
          <5> QED BY <2>0, <3>1, <4>2, <5>2 DEF Within
        <4>3. CASE q = u /\ y \in Nat /\ <<q, y>> \in owedItems'
          <5>1. <<q, y>> \in owedItems /\ y = routed[c]
            BY <1>2, <2>0, <3>1, <4>3 DEF Newest
          <5>2. y # e
            BY <1>1, <3>1, <4>3, <5>1, KeptPlaced
          <5>3. e \in 1..routed[c] /\ routed[c] \in Nat
            BY <1>1, <2>b, <3>1, BoundPlaced DEF IInv, Routing, TypeOK
          <5> QED BY <5>1, <5>2, <5>3 DEF InOrder
        <4>4. ASSUME q = u, NEW d \in Handles, held'[d] = q, y \in Elements(replay'[d]) PROVE InOrder(c, e, y)
          <5>1. held[d] = u /\ y \in Elements(replay[d]) /\ replay[d] # <<>>
            BY <1>2, <4>4 DEF Elements
          <5>2. d \in HandlesOf(c)
            BY <1>1, <5>1, BoundPlaced
          <5> QED BY <1>1, <2>0, <3>1, <5>1, <5>2 DEF Within
        <4>5. \/ y \in Elements(queue'[q]) \cap Nat
              \/ y \in Nat /\ <<q, y>> \in owedItems'
              \/ \E d \in Handles : held'[d] = q /\ y \in Elements(replay'[d])
          BY <3>1 DEF Bound, Elements
        <4> QED BY <4>1, <4>2, <4>3, <4>4, <4>5
      <3>2. ASSUME NEW d \in HandlesOf(ch), NEW q \in QueuesOf(ch),
                   registered'[ch] = q \/ (user'[d] = "get" /\ held'[d] = q),
                   NEW x \in Elements(received'[d]), NEW y \in Bound(q)'
            PROVE  InOrder(ch, x, y)'
        <4>1. CASE x \in Elements(received[d])
          <5>1. registered[ch] = q \/ (user[d] = "get" /\ held[d] = q)
            BY <1>2, <2>0, <3>2
          <5> QED BY <2>0, <2>a, <3>2, <4>1, <5>1 DEF Onward
        <4>2. CASE x \notin Elements(received[d])
          <5>1. d = h /\ ch = c /\ x = e /\ e \in Nat
            BY <2>e, <3>2, <4>2
          <5>2. registered[c] = q
            BY <1>2, <3>2, <5>1
          <5> QED BY <2>a, <3>1, <3>2, <5>1, <5>2
        <4> QED BY <4>1, <4>2
      <3> QED BY <3>2, SameHomes DEF Onward, Elements
    <2> QED BY <2>1, <2>2, <2>3, <2>4
  <1> QED BY <1>4, <1>5 DEF Ordered

\* A channel on which a step moves no event keeps its order.
LEMMA QuietChannel ==
  ASSUME IInv, Placing, Ordered, NEW c \in Channels,
         routed'[c] = routed[c], replayed'[c] = replayed[c],
         pending'[c] \in {pending[c], <<>>}, registered'[c] \in {registered[c], NoQueue},
         \A q \in QueuesOf(c) : queue'[q] = queue[q] /\ Bound(q)' \subseteq Bound(q),
         \A q \in QueuesOf(c), k \in Nat : <<q, k>> \in owedItems' => <<q, k>> \in owedItems,
         \A h \in HandlesOf(c) :
            /\ replay'[h] = replay[h] /\ received'[h] = received[h]
            /\ held'[h] = held[h] /\ user'[h] = user[h]
  PROVE  Newest(c)' /\ Within(c)' /\ Between(c)' /\ Onward(c)' /\ Received(c)'
  <1>0. Newest(c) /\ Within(c) /\ Between(c) /\ Onward(c) /\ Received(c)
    BY DEF Ordered
  <1>1. Newest(c)' /\ Between(c)'
    <2>1. \A h \in HandlesOf(c) : Ascending(replay'[h])
      BY <1>0 DEF Newest
    <2> QED BY <1>0, <2>1, QuietOrder
  <1>2. Within(c)'
    <2>1. \A x, y : InOrder(c, x, y)' <=> InOrder(c, x, y)
      BY DEF InOrder
    <2> QED BY <1>0, <2>1, SameHomes DEF Within, Elements
  <1>3. Onward(c)' /\ Received(c)'
    BY <1>0, QuietOnward
  <1> QED BY <1>1, <1>2, <1>3

\* route_notification: the event is newer than all that was routed before it.
LEMMA RouteOrdered ==
  ASSUME IInv, Placing, Ordered, NEW c \in Channels, RouteNotification(c)
  PROVE  Ordered'
  <1>0. PICK k : k = routed[c] + 1
    OBVIOUS
  <1>1. /\ routed[c] \in Nat /\ k \in Nat /\ routed'[c] = k /\ owedItems = {}
        /\ UNCHANGED <<registered, queue, user, held, calls, replay, received, replayed>>
        /\ \A ch \in Channels \ {c} : routed'[ch] = routed[ch] /\ pending'[ch] = pending[ch]
    BY <1>0 DEF IInv, Routing, TypeOK, RouteNotification, ReaderIsFree, userVars
  <1>2. \/ /\ registered[c] # NoQueue /\ owedItems' = {<<registered[c], k>>} /\ pending'[c] = <<>>
        \/ owedItems' = {} /\ registered[c] = NoQueue /\ pending'[c] = <<>>
        \/ owedItems' = {} /\ registered[c] = NoQueue /\ pending'[c] = Append(pending[c], k)
    BY <1>0, <1>1 DEF RouteNotification, IInv, Routing, TypeOK, Keeping, NothingPendingWhileRegistered
  <1>3. ASSUME NEW q, NEW x \in Bound(q)' PROVE x \in Bound(q) \/ (x = k /\ registered[c] = q /\ q # NoQueue)
    <2>1. \/ x \in Elements(queue'[q]) \cap Nat
          \/ x \in Nat /\ <<q, x>> \in owedItems'
          \/ \E h \in Handles : held'[h] = q /\ x \in Elements(replay'[h])
      BY <1>3 DEF Bound, Elements
    <2>2. <<q, x>> \in owedItems' => x = k /\ registered[c] = q /\ q # NoQueue
      BY <1>2
    <2>3. x \in Elements(queue'[q]) \cap Nat => x \in Bound(q)
      BY <1>1, BoundParts
    <2>4. \A h \in Handles : held'[h] = q /\ x \in Elements(replay'[h]) => x \in Bound(q)
      BY <1>1, BoundParts
    <2> QED BY <2>1, <2>2, <2>3, <2>4
  <1>4. QueuesAreMade'
    <2>1. \A q \in Queues : Bound(q)' # {} => Made(q)
      BY <1>3 DEF Ordered, QueuesAreMade
    <2> QED BY <1>1, <2>1 DEF Ordered, QueuesAreMade, Made, Queues, GlobalQueue
  <1>5. ASSUME NEW ch \in Channels
        PROVE  Newest(ch)' /\ Within(ch)' /\ Between(ch)' /\ Onward(ch)' /\ Received(ch)'
    <2>0. /\ \A q \in QueuesOf(ch) : q \in Queues /\ q # NoQueue
          /\ \A h \in HandlesOf(ch) : h \in Handles
          /\ Newest(ch) /\ Within(ch) /\ Between(ch) /\ Onward(ch) /\ Received(ch)
      BY QueuesTyped, SentinelsAreDistinct DEF HandlesOf, Ordered
    <2>1. CASE ch # c
      <3>1. \A q \in QueuesOf(ch) : registered[c] # q
        BY <2>0, <2>1, QueuesApart DEF Placing, Housed
      <3>2. \A q \in QueuesOf(ch) : Bound(q)' \subseteq Bound(q)
        BY <1>3, <3>1
      <3>3. \A q \in QueuesOf(ch), n \in Nat : <<q, n>> \in owedItems' => <<q, n>> \in owedItems
        BY <1>2, <3>1
      <3> QED BY <1>1, <2>0, <2>1, <3>2, <3>3, QuietChannel
    <2>2. CASE ch = c
      <3>0. /\ \A x, y : InOrder(c, x, y)' <=> InOrder(c, x, y)
            /\ \A q \in QueuesOf(c) : \A x \in Bound(q) : x < k
            /\ \A x \in Elements(pending[c]) : x < k
            /\ \A h \in HandlesOf(c) : \A x \in Elements(received[h]) : x < k
            /\ \A x \in replayed[c] : x < k
        <4>1. \A x \in 1..routed[c] : x < k
          BY <1>0, <1>1
        <4>2. replayed[c] \subseteq 1..routed[c]
          BY <2>0, <2>2 DEF Newest
        <4> QED BY <1>1, <4>1, <4>2, BoundPlaced, KeptPlaced DEF InOrder
      <3>1. Newest(c)'
        <4>1. Ascending(pending'[c]) /\ Elements(pending'[c]) \subseteq Elements(pending[c]) \cup {k}
          <5>1. CASE pending'[c] = <<>>
            BY <5>1 DEF Ascending, Elements
          <5>2. CASE pending'[c] = Append(pending[c], k)
            <6>1. pending[c] \in Seq(Nat) /\ Ascending(pending[c])
              BY <2>0, <2>2 DEF IInv, Routing, TypeOK, Newest
            <6>2. /\ DOMAIN pending'[c] = 1..(Len(pending[c]) + 1) /\ Len(pending[c]) \in Nat
                  /\ pending'[c][Len(pending[c]) + 1] = k
                  /\ \A m \in 1..Len(pending[c]) : m \in DOMAIN pending[c] /\ pending'[c][m] = pending[c][m]
              BY <1>1, <5>2, <6>1
            <6>3. Elements(pending'[c]) \subseteq Elements(pending[c]) \cup {k}
              BY <1>1, <5>2, <6>1, Appended
            <6>4. ASSUME NEW i \in DOMAIN pending'[c], NEW j \in DOMAIN pending'[c], i < j
                  PROVE  pending'[c][i] < pending'[c][j]
              <7>1. i \in 1..Len(pending[c])
                BY <6>2, <6>4
              <7>2. CASE j \in 1..Len(pending[c])
                BY <6>1, <6>2, <6>4, <7>1, <7>2 DEF Ascending
              <7>3. CASE j = Len(pending[c]) + 1
                BY <3>0, <6>2, <7>1, <7>3 DEF Elements
              <7> QED BY <6>2, <6>4, <7>2, <7>3
            <6> QED BY <6>3, <6>4 DEF Ascending
          <5> QED BY <1>2, <5>1, <5>2
        <4>2. ASSUME NEW q \in QueuesOf(c), NEW x \in Bound(q)', NEW y \in Elements(pending'[c]) PROVE x < y
          <5>1. pending'[c] # <<>>
            BY <4>2 DEF Elements
          <5>2. x \in Bound(q)
            BY <1>2, <1>3, <4>2, <5>1
          <5> QED BY <2>0, <2>2, <3>0, <4>1, <4>2, <5>2 DEF Newest
        <4>3. \A h \in HandlesOf(c) : \A x \in Elements(received'[h]), y \in Elements(pending'[c]) : x < y
          BY <1>1, <2>0, <2>2, <3>0, <4>1 DEF Newest
        <4>4. \A q \in QueuesOf(c), n \in Nat : <<q, n>> \in owedItems' => n = routed'[c] /\ n \notin replayed'[c]
          BY <1>1, <1>2, <3>0
        <4>5. \A h \in HandlesOf(c) : Ascending(replay'[h]) /\ Elements(replay'[h]) \subseteq replayed'[c]
          BY <1>1, <2>0, <2>2 DEF Newest
        <4>6. replayed'[c] \subseteq 1..routed'[c]
          <5>1. 1..routed[c] \subseteq 1..k
            BY <1>0, <1>1
          <5> QED BY <1>1, <2>0, <2>2, <5>1 DEF Newest
        <4> QED BY <4>1, <4>2, <4>3, <4>4, <4>5, <4>6, SameHomes DEF Newest, Elements, Ascending
      <3>2. Within(c)'
        BY <1>1, <2>0, <2>2, <3>0, SameHomes DEF Within, Elements
      <3>3. Between(c)'
        <4>1. ASSUME NEW u \in QueuesOf(c), NEW q \in QueuesOf(c), u # q, registered'[c] = q,
                     NEW x \in Bound(u)', NEW y \in Bound(q)'
              PROVE  x < y
          <5>1. x \in Bound(u) /\ registered[c] = q
            BY <1>1, <1>3, <4>1
          <5>2. y \in Bound(q) \/ y = k
            BY <1>3, <4>1
          <5> QED BY <2>0, <2>2, <3>0, <4>1, <5>1, <5>2 DEF Between
        <4> QED BY <4>1, SameHomes DEF Between
      <3>4. Onward(c)'
        <4>1. ASSUME NEW h \in HandlesOf(c), NEW q \in QueuesOf(c),
                     registered'[c] = q \/ (user'[h] = "get" /\ held'[h] = q),
                     NEW x \in Elements(received'[h]), NEW y \in Bound(q)'
              PROVE  InOrder(c, x, y)'
          <5>1. x \in Elements(received[h]) /\ (registered[c] = q \/ (user[h] = "get" /\ held[h] = q))
            BY <1>1, <4>1
          <5>2. y \in Bound(q) \/ y = k
            BY <1>3, <4>1
          <5>3. InOrder(c, x, y)
            BY <2>0, <2>2, <3>0, <4>1, <5>1, <5>2 DEF Onward, InOrder
          <5> QED BY <3>0, <5>3
        <4> QED BY <4>1, SameHomes DEF Onward, Elements
      <3>5. Received(c)'
        BY <1>1, <2>0, <2>2, <3>0, SameHomes DEF Received
      <3> QED BY <2>2, <3>1, <3>2, <3>3, <3>4, <3>5
    <2> QED BY <2>1, <2>2
  <1> QED BY <1>4, <1>5 DEF Ordered

\* fail_all discards what was kept and puts no event anywhere.
LEMMA FailOrdered ==
  ASSUME IInv, Placing, Ordered, FailAll
  PROVE  Ordered'
  <1>1. /\ owedItems = {} /\ UNCHANGED <<queue, user, held, calls, replay, routed, received, replayed>>
        /\ \A q, k : <<q, k>> \in owedItems' => k \notin Nat
        /\ \A ch \in Channels : pending'[ch] = <<>> /\ registered'[ch] \in {registered[ch], NoQueue}
        /\ registered'[Global] = registered[Global]
    BY SentinelsAreDistinct, ChannelsAreDistinct DEF FailAll, ReaderLeaves, userVars, Channels
  <1>2. ASSUME NEW q PROVE Bound(q)' \subseteq Bound(q)
    <2>1. Elements(queue'[q]) \cap Nat \subseteq Bound(q)
      BY <1>1, BoundParts
    <2>2. \A h \in Handles : held'[h] = q => Elements(replay'[h]) \subseteq Bound(q)
      BY <1>1, BoundParts
    <2> QED BY <1>1, <2>1, <2>2, BoundShrinks
  <1>3. QueuesAreMade'
    BY <1>1, <1>2, QuietMade DEF Ordered, QueuesAreMade
  <1>4. ASSUME NEW c \in Channels PROVE Newest(c)' /\ Within(c)' /\ Between(c)' /\ Onward(c)' /\ Received(c)'
    BY <1>1, <1>2, QuietChannel
  <1> QED BY <1>3, <1>4 DEF Ordered

\* A register call that makes a queue: what was kept is older than what the queue will
\* get, newer than all that other queues hold, and in no other place.
LEMMA RegisterOrdered ==
  ASSUME IInv, Placing, Ordered, NEW h \in Handles, Register(h), registered[ChannelOf[h]] = NoQueue
  PROVE  Ordered'
  <1>h. PICK c \in Channels : c = ChannelOf[h]
    BY HandlesAssumption
  <1>0. PICK q, p : c = ChannelOf[h] /\ q = <<h, calls[h] + 1>> /\ p = pending[c]
    BY <1>h
  <1>1. /\ c # Global /\ h \in HandlesOf(c) /\ calls[h] \in Nat /\ calls[h] + 1 \in 1..MaxCalls
        /\ q \in QueuesOf(c) /\ q \in Queues /\ q # NoQueue /\ q # GlobalQueue
    <2>1. c # Global /\ h \in HandlesOf(c) /\ calls[h] \in Nat /\ calls[h] + 1 \in 1..MaxCalls
      BY <1>0, HandlesAssumption DEF Register, HandlesOf, IInv, Routing, TypeOK
    <2>2. q \in QueuesOf(c) /\ q \in Queues
      BY <1>0, <2>1, QueuesTyped DEF QueuesOf
    <2> QED BY <1>0, <2>1, <2>2, SentinelsAreDistinct DEF GlobalQueue
  <1>2. /\ UNCHANGED <<queue, owedItems, routed, received>>
        /\ registered'[c] = q /\ pending'[c] = <<>> /\ replayed'[c] = replayed[c] \cup Elements(p)
        /\ \A ch \in Channels \ {c} :
              registered'[ch] = registered[ch] /\ pending'[ch] = pending[ch] /\ replayed'[ch] = replayed[ch]
        /\ replay'[h] = p /\ held'[h] = q /\ user'[h] = "replay" /\ calls'[h] = calls[h] + 1
        /\ \A d \in Handles \ {h} :
              replay'[d] = replay[d] /\ held'[d] = held[d] /\ user'[d] = user[d] /\ calls'[d] = calls[d]
    BY <1>0, <1>1 DEF Register, IInv, Routing, TypeOK
  <1>3. Bound(q) = {}
    <2>1. ~ Made(q)
      BY <1>0, <1>1 DEF Made
    <2> QED BY <1>1, <2>1 DEF Ordered, QueuesAreMade
  <1>4. ASSUME NEW v \in Queues, NEW x \in Bound(v)'
        PROVE  (v # q /\ x \in Bound(v)) \/ (v = q /\ x \in Elements(p))
    <2>1. \/ x \in Elements(queue'[v]) \cap Nat
          \/ x \in Nat /\ <<v, x>> \in owedItems'
          \/ \E d \in Handles : held'[d] = v /\ x \in Elements(replay'[d])
      BY <1>4 DEF Bound, Elements
    <2>2. x \in Elements(queue'[v]) \cap Nat => x \in Bound(v)
      BY <1>2, BoundParts
    <2>3. x \in Nat /\ <<v, x>> \in owedItems' => x \in Bound(v)
      BY <1>2, BoundParts
    <2>4. \A d \in Handles \ {h} : held'[d] = v /\ x \in Elements(replay'[d]) => x \in Bound(v)
      BY <1>2, BoundParts
    <2>5. held'[h] = v /\ x \in Elements(replay'[h]) => v = q /\ x \in Elements(p)
      BY <1>2
    <2> QED BY <1>3, <2>1, <2>2, <2>3, <2>4, <2>5
  <1>5. QueuesAreMade'
    <2>1. ASSUME NEW v, v \in Queues, Made(v) PROVE Made(v)'
      <3>1. CASE v = GlobalQueue
        BY <3>1 DEF Made, GlobalQueue
      <3>2. CASE v # GlobalQueue
        <4>1. v[1] \in Handles /\ v[2] \in Nat /\ v[2] <= calls[v[1]]
          BY <2>1, <3>2, HandlesAssumption DEF Queues, Made
        <4>2. v[2] <= calls'[v[1]]
          BY <1>1, <1>2, <4>1
        <4> QED BY <4>2 DEF Made
      <3> QED BY <3>1, <3>2
    <2>2. Made(q)'
      <3>1. q[1] = h /\ q[2] = calls'[h] /\ calls'[h] \in Nat
        BY <1>0, <1>1, <1>2
      <3> QED BY <3>1 DEF Made
    <2>3. /\ \A ch \in Channels : registered[ch] # NoQueue => registered[ch] \in Queues /\ Made(registered[ch])
          /\ \A d \in Handles : held[d] # NoQueue => held[d] \in Queues /\ Made(held[d])
      BY DEF IInv, Routing, TypeOK, Ordered, QueuesAreMade
    <2>4. ASSUME NEW ch \in Channels, NEW v, v = registered'[ch], v # NoQueue PROVE Made(v)'
      <3>1. v = q \/ v = registered[ch]
        BY <1>2, <2>4
      <3>2. v = q \/ (v \in Queues /\ Made(v))
        BY <2>3, <2>4, <3>1
      <3> QED BY <2>1, <2>2, <3>2
    <2>5. ASSUME NEW d \in Handles, NEW v, v = held'[d], v # NoQueue PROVE Made(v)'
      <3>1. v = q \/ v = held[d]
        BY <1>2, <2>5
      <3>2. v = q \/ (v \in Queues /\ Made(v))
        BY <2>3, <2>5, <3>1
      <3> QED BY <2>1, <2>2, <3>2
    <2>6. ASSUME NEW v \in Queues, Bound(v)' # {} PROVE Made(v)'
      <3>1. v = q \/ Bound(v) # {}
        BY <1>4, <2>6
      <3> QED BY <2>1, <2>2, <3>1 DEF Ordered, QueuesAreMade
    <2>7. \A d \in Handles : user'[d] = "replay" => held'[d] = <<d, calls'[d]>>
      BY <1>0, <1>2 DEF Ordered, QueuesAreMade
    <2>8. /\ registered'[Global] = GlobalQueue
          /\ \A d \in Handles : ChannelOf[d] = Global => user'[d] \in {"idle", "get", "raised"}
      BY <1>0, <1>1, <1>2 DEF Ordered, QueuesAreMade, Channels
    <2>9. /\ \A ch \in Channels : registered'[ch] # NoQueue => Made(registered[ch])'
          /\ \A d \in Handles : held'[d] # NoQueue => Made(held[d])'
      BY <2>4, <2>5 DEF Made
    <2> QED BY <2>6, <2>7, <2>8, <2>9 DEF QueuesAreMade, Queues, GlobalQueue
  <1>6. ASSUME NEW ch \in Channels, ch # c
        PROVE  Newest(ch)' /\ Within(ch)' /\ Between(ch)' /\ Onward(ch)' /\ Received(ch)'
    <2>1. \A v \in QueuesOf(ch) : Bound(v)' \subseteq Bound(v)
      <3>1. \A v \in QueuesOf(ch) : v # q /\ v \in Queues
        BY <1>1, <1>6, QueuesApart, QueuesTyped
      <3> QED BY <1>4, <3>1
    <2>2. \A d \in HandlesOf(ch) : d \in Handles \ {h}
      BY <1>1, <1>6, QueuesApart DEF HandlesOf
    <2>3. \A d \in HandlesOf(ch) : /\ replay'[d] = replay[d] /\ received'[d] = received[d]
                                  /\ held'[d] = held[d] /\ user'[d] = user[d]
      BY <1>2, <2>2
    <2>4. /\ routed'[ch] = routed[ch] /\ replayed'[ch] = replayed[ch]
          /\ pending'[ch] = pending[ch] /\ registered'[ch] = registered[ch]
          /\ queue' = queue /\ owedItems' = owedItems
      BY <1>2, <1>6
    <2> QED BY <2>1, <2>3, <2>4, QuietChannel
  <1>7. Newest(c)' /\ Within(c)' /\ Between(c)' /\ Onward(c)' /\ Received(c)'
    <2>0. /\ \A v \in QueuesOf(c) : v \in Queues
          /\ \A d \in HandlesOf(c) : d \in Handles
          /\ Newest(c) /\ Within(c) /\ Between(c) /\ Onward(c) /\ Received(c)
      BY QueuesTyped DEF HandlesOf, Ordered
    <2>a. \A x, y : InOrder(c, x, y) /\ x \notin Elements(p) => InOrder(c, x, y)'
      BY <1>2 DEF InOrder
    <2>b. /\ \A v \in QueuesOf(c) : \A x \in Bound(v) : x \notin Elements(p)
          /\ \A d \in HandlesOf(c) : \A x \in Elements(received[d]) : x \notin Elements(p)
          /\ Elements(p) \subseteq 1..routed[c]
      BY <1>0, BoundPlaced, KeptPlaced
    <2>1. Newest(c)'
      <3>1. Elements(pending'[c]) = {} /\ Ascending(pending'[c])
        BY <1>2 DEF Elements, Ascending
      <3>2. \A v \in QueuesOf(c), k \in Nat : <<v, k>> \in owedItems' => k = routed'[c] /\ k \notin replayed'[c]
        BY <1>2, <2>0, <2>b, BoundParts DEF Newest
      <3>3. \A d \in HandlesOf(c) : Ascending(replay'[d]) /\ Elements(replay'[d]) \subseteq replayed'[c]
        BY <1>0, <1>2, <2>0 DEF Newest
      <3>4. replayed'[c] \subseteq 1..routed'[c]
        BY <1>2, <2>0, <2>b DEF Newest
      <3> QED BY <3>1, <3>2, <3>3, <3>4, SameHomes DEF Newest, Elements, Ascending
    <2>2. Within(c)'
      <3>1. ASSUME NEW v \in QueuesOf(c), NEW i \in DOMAIN queue[v], NEW j \in DOMAIN queue[v],
                   i < j, queue[v][i] \in Nat, queue[v][j] \in Nat
            PROVE  InOrder(c, queue[v][i], queue[v][j])'
        <4>1. queue[v][i] \in Bound(v)
          BY <3>1, BoundParts DEF Elements
        <4>2. InOrder(c, queue[v][i], queue[v][j])
          BY <2>0, <3>1 DEF Within
        <4>3. queue[v][i] < queue[v][j] \/ (queue[v][j] \in replayed'[c] /\ queue[v][i] \notin replayed'[c])
          BY <1>2, <2>b, <4>1, <4>2 DEF InOrder
        <4> QED BY <1>2, <4>3 DEF InOrder
      <3>2. ASSUME NEW v \in QueuesOf(c), NEW d \in HandlesOf(c), held'[d] = v,
                   NEW x \in Elements(queue[v]) \cap Nat, NEW y \in Elements(replay'[d])
            PROVE  InOrder(c, x, y)'
        <4>1. x \in Bound(v)
          BY <3>2, BoundParts
        <4>2. d # h
          BY <1>2, <1>3, <3>2, <4>1
        <4>3. InOrder(c, x, y)
          BY <1>2, <2>0, <3>2, <4>2 DEF Within
        <4> QED BY <2>a, <2>b, <4>1, <4>3
      <3> QED BY <1>2, <3>1, <3>2, SameHomes DEF Within, Elements
    <2>3. Between(c)'
      <3>1. ASSUME NEW u \in QueuesOf(c), NEW v \in QueuesOf(c), u # v, registered'[c] = v,
                   NEW x \in Bound(u)', NEW y \in Bound(v)'
            PROVE  x < y
        <4>1. x \in Bound(u) /\ y \in Elements(p)
          BY <1>2, <1>4, <2>0, <3>1
        <4> QED BY <1>0, <2>0, <4>1 DEF Newest
      <3> QED BY <3>1, SameHomes DEF Between
    <2>4. Onward(c)'
      <3>1. ASSUME NEW d \in HandlesOf(c), NEW v \in QueuesOf(c),
                   registered'[c] = v \/ (user'[d] = "get" /\ held'[d] = v),
                   NEW x \in Elements(received[d]), NEW y \in Bound(v)'
            PROVE  InOrder(c, x, y)'
        <4>1. CASE v = q
          <5>1. y \in Elements(p)
            BY <1>4, <2>0, <3>1, <4>1
          <5>2. x < y
            BY <1>0, <2>0, <3>1, <5>1 DEF Newest
          <5> QED BY <5>2 DEF InOrder
        <4>2. CASE v # q
          <5>1. d # h /\ user[d] = "get" /\ held[d] = v
            BY <1>2, <2>0, <3>1, <4>2
          <5>2. y \in Bound(v)
            BY <1>4, <2>0, <3>1, <4>2
          <5>3. InOrder(c, x, y)
            BY <2>0, <3>1, <5>1, <5>2 DEF Onward
          <5> QED BY <2>a, <2>b, <3>1, <5>3
        <4> QED BY <4>1, <4>2
      <3> QED BY <1>2, <3>1, SameHomes DEF Onward, Elements
    <2>5. Received(c)'
      <3>1. ASSUME NEW d \in HandlesOf(c), NEW i \in DOMAIN received[d], NEW j \in DOMAIN received[d], i < j
            PROVE  InOrder(c, received[d][i], received[d][j])'
        <4>1. received[d][i] \in Elements(received[d])
          BY <3>1 DEF Elements
        <4>2. InOrder(c, received[d][i], received[d][j])
          BY <2>0, <3>1 DEF Received
        <4>3. received[d][i] < received[d][j]
              \/ (received[d][j] \in replayed'[c] /\ received[d][i] \notin replayed'[c])
          BY <1>2, <2>b, <4>1, <4>2 DEF InOrder
        <4> QED BY <1>2, <4>3 DEF InOrder
      <3> QED BY <1>2, <3>1, SameHomes DEF Received
    <2> QED BY <2>1, <2>2, <2>3, <2>4, <2>5
  <1> QED BY <1>5, <1>6, <1>7 DEF Ordered

LEMMA InitOrdered == Init => Ordered
  <1> SUFFICES ASSUME Init PROVE Ordered
    OBVIOUS
  <1>1. \A q \in Queues : Bound(q) = {}
    BY DEF Init, Bound, Elements
  <1>2. QueuesAreMade
    <2>1. \A ch \in Channels : registered[ch] # NoQueue => Made(registered[ch])
      BY DEF Init, Made
    <2> QED BY <1>1, <2>1 DEF Init, QueuesAreMade, Channels
  <1>3. ASSUME NEW c \in Channels PROVE Newest(c) /\ Within(c) /\ Between(c) /\ Onward(c) /\ Received(c)
    <2>1. /\ \A q \in QueuesOf(c) : q \in Queues /\ queue[q] = <<>> /\ Bound(q) = {}
          /\ \A h \in HandlesOf(c) : replay[h] = <<>> /\ received[h] = <<>>
          /\ pending[c] = <<>> /\ replayed[c] = {} /\ owedItems = {}
      BY <1>1, QueuesTyped DEF Init, HandlesOf
    <2> QED BY <2>1 DEF Newest, Within, Between, Onward, Received, Ascending, Elements
  <1> QED BY <1>2, <1>3 DEF Ordered

LEMMA OrderedNext ==
  ASSUME IInv, Placing, Ordered, [Next]_vars
  PROVE  Ordered'
  <1> DEFINE Still == UNCHANGED <<pending, queue, replay, owedItems, routed, received, replayed>>
  <1>0. /\ \A h \in Handles : ChannelOf[h] = Global => user[h] \in {"idle", "get", "raised"}
        /\ registered[Global] = GlobalQueue
        /\ \A h \in Handles : user[h] # "replay" => replay[h] = <<>>
    BY DEF Ordered, QueuesAreMade, Placing, Housed
  <1>2. CASE UNCHANGED channelVars
    BY <1>0, <1>2, ChannelsUntouched, QuietOrdered
  <1>3. ASSUME NEW r \in Requests, RequestStep(r) PROVE UNCHANGED channelVars
    BY <1>3 DEF RequestStep, CreateResponseWaiter, WriteMessage, WriteRaises, DiscardResponseWaiter,
                ReceiveResponse
  <1>4. ASSUME NEW r, NEW answer, RouteResponse(r, answer) \/ PutResponse(r, answer) \/ RouteUnreadableError(r)
        PROVE  UNCHANGED channelVars
    BY <1>4 DEF RouteResponse, PutResponse, RouteUnreadableError
  <1>5. CASE ReaderExits \/ UNCHANGED vars
    BY <1>2, <1>5 DEF ReaderExits, vars
  <1>6. ASSUME NEW h \in Handles, NEW v, Still, UNCHANGED <<calls, held>>,
               user' = [user EXCEPT ![h] = v], v \notin {"replay", "get"}, user[h] \notin {"idle", "get", "raised"},
               \A ch \in Channels : registered'[ch] \in {registered[ch], NoQueue},
               registered'[Global] = registered[Global]
        PROVE  Ordered'
    <2>1. \A d \in Handles : user'[d] = user[d] \/ (d = h /\ user'[d] = v)
      BY <1>6 DEF IInv, Routing, TypeOK
    <2> QED BY <1>0, <1>6, <2>1, QuietOrdered
  <1>7. ASSUME NEW h \in Handles, Register(h) PROVE Ordered'
    <2>1. CASE registered[ChannelOf[h]] = NoQueue
      BY <1>7, <2>1, RegisterOrdered
    <2>2. CASE registered[ChannelOf[h]] # NoQueue
      <3>1. /\ Still /\ UNCHANGED <<registered, held>> /\ ChannelOf[h] # Global
            /\ calls' = [calls EXCEPT ![h] = @ + 1] /\ user[h] # "replay"
            /\ user' = [user EXCEPT ![h] = "next"]
        BY <1>7, <2>2 DEF Register
      <3>2. \A d \in Handles : (user'[d] = user[d] /\ calls'[d] = calls[d]) \/ (d = h /\ user'[d] = "next")
        BY <3>1 DEF IInv, Routing, TypeOK
      <3> QED BY <1>0, <3>1, <3>2, QuietOrdered
    <2> QED BY <2>1, <2>2
  <1>8. ASSUME NEW h \in Handles, NextNotification(h) PROVE Ordered'
    <2>1. /\ Still /\ UNCHANGED <<registered, calls>> /\ user[h] = "next" /\ replay[h] = <<>>
      BY <1>0, <1>8 DEF NextNotification, historyVars
    <2>2. \A d \in Handles :
            \/ user'[d] = user[d] /\ held'[d] = held[d]
            \/ d = h /\ held'[d] = registered[ChannelOf[d]] /\ user'[d] \in {"get", "leaving raised"}
      BY <1>8 DEF NextNotification, IInv, Routing, TypeOK
    <2>3. ChannelOf[h] # Global
      BY <1>0, <2>1
    <2> QED BY <1>0, <2>1, <2>2, <2>3, QuietOrdered
  <1>9. ASSUME NEW h \in Handles, NextGlobalNotification(h) PROVE Ordered'
    <2>1. /\ Still /\ UNCHANGED registered /\ calls' = [calls EXCEPT ![h] = @ + 1]
          /\ replay[h] = <<>> /\ user[h] # "replay" /\ ChannelOf[h] = Global
      BY <1>0, <1>9 DEF NextGlobalNotification, historyVars
    <2>2. \A d \in Handles :
            \/ user'[d] = user[d] /\ held'[d] = held[d] /\ calls'[d] = calls[d]
            \/ d = h /\ held'[d] = registered[ChannelOf[d]] /\ user'[d] = "get"
      BY <1>0, <1>9 DEF NextGlobalNotification, IInv, Routing, TypeOK
    <2> QED BY <1>0, <2>1, <2>2, QuietOrdered
  <1>10. ASSUME NEW h \in Handles, Abandon(h) PROVE Ordered'
    <2>1. /\ Still /\ UNCHANGED <<registered, held, calls>> /\ user[h] # "replay" /\ ChannelOf[h] # Global
          /\ user' = [user EXCEPT ![h] = "leaving raised"]
      BY <1>10 DEF Abandon, historyVars
    <2>2. \A d \in Handles : user'[d] = user[d] \/ (d = h /\ user'[d] = "leaving raised")
      BY <2>1 DEF IInv, Routing, TypeOK
    <2> QED BY <1>0, <2>1, <2>2, QuietOrdered
  <1>11. ASSUME NEW h \in Handles, Unregister(h) PROVE Ordered'
    <2>1. ChannelOf[h] # Global
      BY <1>0, <1>11 DEF Unregister
    <2>2. /\ \A ch \in Channels : registered'[ch] \in {registered[ch], NoQueue}
          /\ registered'[Global] = registered[Global]
      BY <1>11, <2>1 DEF Unregister, IInv, Routing, TypeOK, Channels
    <2>3. /\ Still /\ UNCHANGED <<calls, held>> /\ user[h] \notin {"idle", "get", "raised"}
          /\ user' = [user EXCEPT ![h] = IF user[h] = "leaving completed" THEN "completed" ELSE "raised"]
      BY <1>11 DEF Unregister, historyVars
    <2>4. user' = [user EXCEPT ![h] = "completed"] \/ user' = [user EXCEPT ![h] = "raised"]
      BY <2>3
    <2> QED BY <1>6, <2>2, <2>3, <2>4
  <1>12. ASSUME NEW h \in Handles, ReplayPending(h) PROVE Ordered'
    <2>1. CASE replay[h] = <<>>
      BY <1>6, <1>12, <2>1, ZenonT(40) DEF ReplayPending, historyVars
    <2>2. CASE replay[h] # <<>>
      BY <1>12, <2>2, ReplayOrdered
    <2> QED BY <2>1, <2>2
  <1>13. ASSUME NEW put \in owedItems, PutNotification(put[1], put[2]) PROVE Ordered'
    <2>1. put[1] \in Queues /\ put[2] \in Items
      BY DEF IInv, Routing, TypeOK
    <2> QED BY <1>13, <2>1, PutOrdered
  <1>14. ASSUME NEW h \in Handles, HandleStep(h) PROVE Ordered'
    BY <1>7, <1>8, <1>9, <1>10, <1>11, <1>12, <1>14, GetOrdered DEF HandleStep
  <1> QED BY <1>2, <1>3, <1>4, <1>5, <1>13, <1>14, RouteOrdered, FailOrdered DEF Next, ReaderPut

LEMMA ReceivedInOrder == IInv /\ Ordered => OnlyReplayIsOvertaken
  <1> SUFFICES ASSUME IInv, Ordered, NEW h \in Handles, NEW i \in DOMAIN received[h], NEW j \in DOMAIN received[h],
                      i < j, received[h][i] > received[h][j]
               PROVE  /\ received[h][j] \in replayed[ChannelOf[h]]
                      /\ received[h][i] \notin replayed[ChannelOf[h]]
    BY DEF OnlyReplayIsOvertaken
  <1>1. ChannelOf[h] \in Channels /\ h \in HandlesOf(ChannelOf[h])
    BY HandlesAssumption DEF HandlesOf
  <1>2. received[h][i] \in Nat /\ received[h][j] \in Nat
    BY DEF IInv, Routing, TypeOK
  <1>3. InOrder(ChannelOf[h], received[h][i], received[h][j])
    BY <1>1 DEF Ordered, Received
  <1> QED BY <1>2, <1>3 DEF InOrder

\* A handle receives the events of its channel in the order they were sent, except that
\* an event routed while register_* replays may overtake a replayed one.
THEOREM EventsKeepTheirOrder == Spec => []OnlyReplayIsOvertaken
  <1>1. Spec => []Placing
    BY RouterInvariant, PlacedInit, PlacedNext, PTL DEF Spec
  <1>2. IInv /\ Placing /\ Ordered /\ [Next]_vars => Ordered'
    BY OrderedNext
  <1>3. Spec => []Ordered
    BY <1>1, <1>2, RouterInvariant, InitOrdered, PTL DEF Spec
  <1> QED BY <1>3, RouterInvariant, ReceivedInOrder, PTL
=============================================================================
