--------------------------- MODULE ThreadStartLock ---------------------------
(***************************************************************************)
(* CodexClient._thread_start_lock: a lock per thread id, made on demand,   *)
(* counted by its users and dropped by the last of them.  turn_start and   *)
(* start_goal_operation run inside it.                                     *)
(*                                                                         *)
(* Entries are the _ThreadStartLock objects.  An entry that no caller and  *)
(* no dictionary slot refers to is garbage, and a new object may be any    *)
(* such entry.                                                             *)
(***************************************************************************)
EXTENDS Naturals, FiniteSets

CONSTANTS Callers,   \* threads of the process that start turns or goals
          Threads,   \* conversation thread ids
          Entries,   \* _ThreadStartLock objects
          NoEntry,
          NoCaller

ASSUME FiniteCallers == IsFiniteSet(Callers)
ASSUME NullsAreDistinct == NoEntry \notin Entries /\ NoCaller \notin Callers

VARIABLES
    locks,   \* _thread_start_locks
    users,   \* entry.users
    holder,  \* who holds entry.lock
    at,      \* where each caller is
    thread,  \* the thread id each caller was called with
    entry    \* the entry each caller refers to

vars == <<locks, users, holder, at, thread, entry>>

Init ==
    /\ locks = [t \in Threads |-> NoEntry]
    /\ users = [e \in Entries |-> 0]
    /\ holder = [e \in Entries |-> NoCaller]
    /\ at = [c \in Callers |-> "outside"]
    /\ thread \in [Callers -> Threads]
    /\ entry = [c \in Callers |-> NoEntry]

Unreferenced(e) ==
    /\ \A t \in Threads : locks[t] # e
    /\ \A c \in Callers : entry[c] # e

\* The first region under _thread_start_locks_guard.
FindEntry(c, t) ==
    /\ at[c] = "outside"
    /\ at' = [at EXCEPT ![c] = "waiting"]
    /\ thread' = [thread EXCEPT ![c] = t]
    /\ \/ /\ locks[t] # NoEntry
          /\ entry' = [entry EXCEPT ![c] = locks[t]]
          /\ users' = [users EXCEPT ![locks[t]] = @ + 1]
          /\ UNCHANGED <<locks, holder>>
       \/ /\ locks[t] = NoEntry
          /\ \E e \in Entries :
                /\ Unreferenced(e)
                /\ locks' = [locks EXCEPT ![t] = e]
                /\ entry' = [entry EXCEPT ![c] = e]
                /\ users' = [users EXCEPT ![e] = 1]
                /\ holder' = [holder EXCEPT ![e] = NoCaller]

\* Faulty: the body runs without entry.lock.
AcquireNothing(c) ==
    /\ at[c] = "waiting"
    /\ at' = [at EXCEPT ![c] = "inside"]
    /\ UNCHANGED <<locks, users, holder, thread, entry>>

\* with entry.lock: the body of turn_start or start_goal_operation begins.
Acquire(c) ==
    /\ at[c] = "waiting"
    /\ holder[entry[c]] = NoCaller
    /\ holder' = [holder EXCEPT ![entry[c]] = c]
    /\ at' = [at EXCEPT ![c] = "inside"]
    /\ UNCHANGED <<locks, users, thread, entry>>

\* The thread is interrupted while it waits for entry.lock.
AcquireInterrupted(c) ==
    /\ at[c] = "waiting"
    /\ at' = [at EXCEPT ![c] = "leaving"]
    /\ UNCHANGED <<locks, users, holder, thread, entry>>

\* Faulty: the lock is not released when the body ends.
ReleaseNothing(c) ==
    /\ at[c] = "inside"
    /\ at' = [at EXCEPT ![c] = "leaving"]
    /\ UNCHANGED <<locks, users, holder, thread, entry>>

\* The body returns or raises: entry.lock is released.
Release(c) ==
    /\ at[c] = "inside"
    /\ holder' = [holder EXCEPT ![entry[c]] = NoCaller]
    /\ at' = [at EXCEPT ![c] = "leaving"]
    /\ UNCHANGED <<locks, users, thread, entry>>

\* Faulty: the count is tested before it is decreased.
DropEntryOffByOne(c) ==
    LET e == entry[c] IN
    /\ at[c] = "leaving"
    /\ at' = [at EXCEPT ![c] = "outside"]
    /\ entry' = [entry EXCEPT ![c] = NoEntry]
    /\ users' = [users EXCEPT ![e] = @ - 1]
    /\ locks' = [locks EXCEPT ![thread[c]] = IF users[e] = 0 THEN NoEntry ELSE @]
    /\ UNCHANGED <<holder, thread>>

\* The finally clause, under the guard again: the last user drops the entry.
DropEntry(c) ==
    LET e == entry[c] IN
    /\ at[c] = "leaving"
    /\ at' = [at EXCEPT ![c] = "outside"]
    /\ entry' = [entry EXCEPT ![c] = NoEntry]
    /\ users' = [users EXCEPT ![e] = @ - 1]
    /\ locks' = [locks EXCEPT ![thread[c]] = IF users[e] = 1 THEN NoEntry ELSE @]
    /\ UNCHANGED <<holder, thread>>

Next ==
    \E c \in Callers :
        \/ \E t \in Threads : FindEntry(c, t)
        \/ Acquire(c) \/ AcquireInterrupted(c) \/ Release(c) \/ DropEntry(c)

Spec == Init /\ [][Next]_vars

\* A caller that has the lock finishes its body and leaves.  A lock that stays
\* free is taken; which waiter gets one that does not, threading.Lock does not say.
Fairness ==
    \A c \in Callers :
        /\ WF_vars(Release(c)) /\ WF_vars(DropEntry(c))
        /\ WF_vars(Acquire(c))

FairSpec == Spec /\ Fairness

-----------------------------------------------------------------------------
UsersOf(e) == {c \in Callers : entry[c] = e}

\* Type invariant: the dictionary _thread_start_locks holds [lock, users] pairs, and
\* every caller of _thread_start_lock is at a place of the context manager.
TypeOK ==
    /\ locks \in [Threads -> Entries \cup {NoEntry}]
    /\ users \in [Entries -> Nat]
    /\ holder \in [Entries -> Callers \cup {NoCaller}]
    /\ at \in [Callers -> {"outside", "waiting", "inside", "leaving"}]
    /\ thread \in [Callers -> Threads]
    /\ entry \in [Callers -> Entries \cup {NoEntry}]

\* Two callers never run turn_start or start_goal_operation for one thread id
\* at the same time, although the lock object that keeps them apart is created
\* and dropped between them.
MutualExclusion ==
    \A c, d \in Callers :
        at[c] = "inside" /\ at[d] = "inside" /\ thread[c] = thread[d] => c = d

\* The dictionary holds exactly the lock objects in use: one is never dropped
\* under a caller that waits on it or holds it, and none is left behind.
EntriesAreThoseInUse ==
    \A t \in Threads :
        /\ locks[t] = NoEntry <=> \A c \in Callers : at[c] # "outside" => thread[c] # t
        /\ \A c \in Callers : at[c] # "outside" /\ thread[c] = t => entry[c] = locks[t]

\* The inductive invariant behind both.
UsersAreCounted == \A e \in Entries : users[e] = Cardinality(UsersOf(e))

EntryOfCaller ==
    \A c \in Callers :
        IF at[c] = "outside" THEN entry[c] = NoEntry
        ELSE entry[c] \in Entries /\ locks[thread[c]] = entry[c]

EntryOfThread ==
    \A t \in Threads : locks[t] # NoEntry =>
        /\ \E c \in Callers : entry[c] = locks[t]
        /\ \A u \in Threads : locks[u] = locks[t] => u = t

HolderIsInside ==
    \A e \in Entries, c \in Callers : holder[e] = c <=> at[c] = "inside" /\ entry[c] = e

IInv == TypeOK /\ UsersAreCounted /\ EntryOfCaller /\ EntryOfThread /\ HolderIsInside

\* What the lock implements: the mutex of ThreadMutex.
OwnerOf(t) ==
    IF \E c \in Callers : at[c] = "inside" /\ thread[c] = t
    THEN CHOOSE c \in Callers : at[c] = "inside" /\ thread[c] = t
    ELSE NoCaller

Mutex == INSTANCE ThreadMutex WITH owner <- [t \in Threads |-> OwnerOf(t)]
MutexSpec == Mutex!Spec

\* A lock is never lost: a caller that keeps waiting sees the lock taken, by it
\* or by another caller for the same thread id, again and again.
LockIsPassedOn ==
    \A c \in Callers :
        at[c] = "waiting" ~>
            \/ at[c] # "waiting"
            \/ \E d \in Callers : at[d] = "inside" /\ thread[d] = thread[c]
=============================================================================
