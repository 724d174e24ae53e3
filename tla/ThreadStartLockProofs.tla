------------------------ MODULE ThreadStartLockProofs ------------------------
(* Proofs about ThreadStartLock, for any number of callers and thread ids. *)
EXTENDS ThreadStartLock, FiniteSetTheorems, TLAPS

\* The users of an entry are finitely many; a caller that joins or leaves them
\* changes their number by one.
LEMMA UsersFinite ==
  ASSUME NEW e
  PROVE  IsFiniteSet(UsersOf(e)) /\ Cardinality(UsersOf(e)) \in Nat
  <1>1. UsersOf(e) \in SUBSET Callers
    BY DEF UsersOf
  <1>2. IsFiniteSet(UsersOf(e))
    BY <1>1, FiniteCallers, FS_Subset
  <1> QED BY <1>2, FS_CardinalityType

LEMMA InitIInv == Init => IInv
  <1> SUFFICES ASSUME Init PROVE IInv
    OBVIOUS
  <1>1. TypeOK
    BY DEF Init, TypeOK
  <1>2. UsersAreCounted
    <2> SUFFICES ASSUME NEW e \in Entries PROVE users[e] = Cardinality(UsersOf(e))
      BY DEF UsersAreCounted
    <2>1. UsersOf(e) = {}
      BY NullsAreDistinct DEF Init, UsersOf
    <2> QED BY <2>1, FS_EmptySet DEF Init
  <1>3. EntryOfCaller /\ EntryOfThread
    BY DEF Init, EntryOfCaller, EntryOfThread
  <1>4. HolderIsInside
    BY NullsAreDistinct DEF Init, HolderIsInside
  <1> QED BY <1>1, <1>2, <1>3, <1>4 DEF IInv

\* A caller that finds the entry of its thread id joins its users.
LEMMA FindExistingStep ==
  ASSUME IInv, NEW c \in Callers, NEW t \in Threads, FindEntry(c, t), locks[t] # NoEntry
  PROVE  IInv'
  <1> DEFINE e0 == locks[t]
  <1> USE NullsAreDistinct
  <1>0. /\ e0 \in Entries /\ entry[c] = NoEntry /\ at[c] = "outside"
        /\ at' = [at EXCEPT ![c] = "waiting"] /\ thread' = [thread EXCEPT ![c] = t]
        /\ entry' = [entry EXCEPT ![c] = e0] /\ users' = [users EXCEPT ![e0] = @ + 1]
        /\ locks' = locks /\ holder' = holder
    BY DEF IInv, TypeOK, EntryOfCaller, FindEntry
  <1> HIDE DEF e0
  <1>1. TypeOK'
    BY <1>0 DEF IInv, TypeOK
  <1>2. UsersAreCounted'
    <2> SUFFICES ASSUME NEW e \in Entries PROVE users'[e] = Cardinality(UsersOf(e)')
      BY DEF UsersAreCounted
    <2>1. CASE e = e0
      <3>1. UsersOf(e)' = UsersOf(e) \cup {c} /\ c \notin UsersOf(e)
        BY <1>0, <2>1 DEF IInv, TypeOK, UsersOf
      <3>2. Cardinality(UsersOf(e) \cup {c}) = Cardinality(UsersOf(e)) + 1
        BY <3>1, UsersFinite, FS_AddElement
      <3>3. users[e] = Cardinality(UsersOf(e))
        BY DEF IInv, UsersAreCounted
      <3>4. users'[e] = users[e] + 1
        BY <1>0, <2>1 DEF IInv, TypeOK
      <3> QED BY <3>1, <3>2, <3>3, <3>4
    <2>2. CASE e # e0
      <3>1. UsersOf(e)' = UsersOf(e)
        BY <1>0, <2>2 DEF IInv, TypeOK, UsersOf
      <3> QED BY <1>0, <2>2, <3>1 DEF IInv, TypeOK, UsersAreCounted
    <2> QED BY <2>1, <2>2
  <1>3. EntryOfCaller'
    BY <1>0 DEF IInv, TypeOK, EntryOfCaller, e0
  <1>4. EntryOfThread'
    BY <1>0 DEF IInv, TypeOK, EntryOfThread
  <1>5. HolderIsInside'
    BY <1>0 DEF IInv, TypeOK, HolderIsInside
  <1> QED BY <1>1, <1>2, <1>3, <1>4, <1>5 DEF IInv

\* A caller that finds none installs a new one, of which it is the only user.
LEMMA FindNewStep ==
  ASSUME IInv, NEW c \in Callers, NEW t \in Threads, FindEntry(c, t), locks[t] = NoEntry
  PROVE  IInv'
  <1> USE NullsAreDistinct
  <1>0. PICK n \in Entries :
        /\ Unreferenced(n) /\ entry[c] = NoEntry /\ at[c] = "outside"
        /\ at' = [at EXCEPT ![c] = "waiting"] /\ thread' = [thread EXCEPT ![c] = t]
        /\ entry' = [entry EXCEPT ![c] = n] /\ users' = [users EXCEPT ![n] = 1]
        /\ locks' = [locks EXCEPT ![t] = n] /\ holder' = [holder EXCEPT ![n] = NoCaller]
    BY DEF IInv, TypeOK, EntryOfCaller, FindEntry
  <1>1. TypeOK'
    BY <1>0 DEF IInv, TypeOK
  <1>2. UsersAreCounted'
    <2> SUFFICES ASSUME NEW e \in Entries PROVE users'[e] = Cardinality(UsersOf(e)')
      BY DEF UsersAreCounted
    <2>1. CASE e = n
      <3>1. UsersOf(e)' = {c}
        BY <1>0, <2>1 DEF IInv, TypeOK, UsersOf, Unreferenced
      <3> QED BY <1>0, <2>1, <3>1, FS_Singleton DEF IInv, TypeOK
    <2>2. CASE e # n
      <3>1. UsersOf(e)' = UsersOf(e)
        BY <1>0, <2>2 DEF IInv, TypeOK, UsersOf
      <3> QED BY <1>0, <2>2, <3>1 DEF IInv, TypeOK, UsersAreCounted
    <2> QED BY <2>1, <2>2
  <1>3. EntryOfCaller'
    <2>1. \A d \in Callers : at[d] # "outside" => thread[d] # t
      BY DEF IInv, EntryOfCaller
    <2> QED BY <1>0, <2>1 DEF IInv, TypeOK, EntryOfCaller
  <1>4. EntryOfThread'
    BY <1>0 DEF IInv, TypeOK, EntryOfThread, Unreferenced
  <1>5. HolderIsInside'
    BY <1>0 DEF IInv, TypeOK, HolderIsInside, Unreferenced
  <1> QED BY <1>1, <1>2, <1>3, <1>4, <1>5 DEF IInv

\* Taking and releasing entry.lock, and giving up on it, change no reference.
LEMMA LockStep ==
  ASSUME IInv, NEW c \in Callers, Acquire(c) \/ AcquireInterrupted(c) \/ Release(c)
  PROVE  IInv'
  <1> USE NullsAreDistinct
  <1>0. /\ at[c] # "outside" /\ at'[c] # "outside" /\ entry[c] \in Entries
        /\ \A d \in Callers : d # c => at'[d] = at[d]
        /\ UNCHANGED <<locks, users, thread, entry>>
    BY DEF IInv, TypeOK, EntryOfCaller, Acquire, AcquireInterrupted, Release
  <1>1. TypeOK'
    BY <1>0 DEF IInv, TypeOK, Acquire, AcquireInterrupted, Release
  <1>2. UsersAreCounted'
    BY <1>0 DEF IInv, UsersAreCounted, UsersOf
  <1>3. EntryOfCaller'
    BY <1>0 DEF IInv, EntryOfCaller
  <1>4. EntryOfThread'
    BY <1>0 DEF IInv, EntryOfThread
  <1>5. HolderIsInside'
    <2>1. CASE Acquire(c)
      BY <1>0, <2>1 DEF IInv, TypeOK, HolderIsInside, Acquire
    <2>2. CASE AcquireInterrupted(c)
      BY <1>0, <2>2 DEF IInv, TypeOK, HolderIsInside, AcquireInterrupted
    <2>3. CASE Release(c)
      BY <1>0, <2>3 DEF IInv, TypeOK, HolderIsInside, Release
    <2> QED BY <2>1, <2>2, <2>3
  <1> QED BY <1>1, <1>2, <1>3, <1>4, <1>5 DEF IInv

\* A caller that leaves is one user less; the entry goes when it was the last.
LEMMA DropStep ==
  ASSUME IInv, NEW c \in Callers, DropEntry(c)
  PROVE  IInv'
  <1> DEFINE e0 == entry[c]
             t0 == thread[c]
  <1> USE NullsAreDistinct
  <1>0. /\ e0 \in Entries /\ t0 \in Threads /\ locks[t0] = e0 /\ at[c] = "leaving"
        /\ at' = [at EXCEPT ![c] = "outside"] /\ entry' = [entry EXCEPT ![c] = NoEntry]
        /\ users' = [users EXCEPT ![e0] = @ - 1]
        /\ locks' = [locks EXCEPT ![t0] = IF users[e0] = 1 THEN NoEntry ELSE @]
        /\ thread' = thread /\ holder' = holder
    BY DEF IInv, TypeOK, EntryOfCaller, DropEntry
  <1>a. /\ c \in UsersOf(e0) /\ users[e0] = Cardinality(UsersOf(e0))
        /\ users[e0] \in Nat \ {0}
    <2>1. c \in UsersOf(e0)
      BY DEF UsersOf
    <2>2. users[e0] = Cardinality(UsersOf(e0)) /\ users[e0] \in Nat
      BY <1>0 DEF IInv, TypeOK, UsersAreCounted
    <2>3. Cardinality(UsersOf(e0)) # 0
      BY <2>1, UsersFinite, FS_EmptySet
    <2> QED BY <2>1, <2>2, <2>3
  <1>b. users[e0] = 1 <=> UsersOf(e0) = {c}
    BY <1>a, UsersFinite, FS_Singleton
  <1>c. \A d \in Callers : at[d] # "outside" /\ thread[d] = t0 => d \in UsersOf(e0)
    BY <1>0 DEF IInv, EntryOfCaller, UsersOf
  <1>d. \A d \in Callers : d \in UsersOf(e0) => at[d] # "outside" /\ thread[d] = t0
    BY <1>0 DEF IInv, TypeOK, EntryOfCaller, EntryOfThread, UsersOf
  <1> HIDE DEF e0, t0
  <1>1. TypeOK'
    BY <1>0, <1>a DEF IInv, TypeOK
  <1>2. UsersAreCounted'
    <2> SUFFICES ASSUME NEW e \in Entries PROVE users'[e] = Cardinality(UsersOf(e)')
      BY DEF UsersAreCounted
    <2>1. CASE e = e0
      <3>1. UsersOf(e)' = UsersOf(e) \ {c}
        BY <1>0, <2>1 DEF IInv, TypeOK, UsersOf
      <3>2. Cardinality(UsersOf(e) \ {c}) = Cardinality(UsersOf(e)) - 1
        BY <1>a, <2>1, UsersFinite, FS_RemoveElement
      <3>3. users'[e] = users[e] - 1
        BY <1>0, <2>1 DEF IInv, TypeOK
      <3> QED BY <1>a, <2>1, <3>1, <3>2, <3>3
    <2>2. CASE e # e0
      <3>1. UsersOf(e)' = UsersOf(e)
        BY <1>0, <2>2 DEF IInv, TypeOK, UsersOf, e0
      <3> QED BY <1>0, <2>2, <3>1 DEF IInv, TypeOK, UsersAreCounted
    <2> QED BY <2>1, <2>2
  <1>3. EntryOfCaller'
    <2> SUFFICES ASSUME NEW d \in Callers
                 PROVE  IF at'[d] = "outside" THEN entry'[d] = NoEntry
                        ELSE entry'[d] \in Entries /\ locks'[thread'[d]] = entry'[d]
      BY DEF EntryOfCaller
    <2>1. CASE d = c
      BY <1>0, <2>1 DEF IInv, TypeOK
    <2>2. CASE d # c /\ at[d] # "outside"
      <3>1. locks'[thread[d]] = locks[thread[d]]
        BY <1>0, <1>b, <1>c, <2>2 DEF IInv, TypeOK
      <3> QED BY <1>0, <2>2, <3>1 DEF IInv, TypeOK, EntryOfCaller
    <2>3. CASE d # c /\ at[d] = "outside"
      BY <1>0, <2>3 DEF IInv, TypeOK, EntryOfCaller
    <2> QED BY <2>1, <2>2, <2>3
  <1>4. EntryOfThread'
    <2> SUFFICES ASSUME NEW t \in Threads, locks'[t] # NoEntry
                 PROVE  /\ \E d \in Callers : entry'[d] = locks'[t]
                        /\ \A u \in Threads : locks'[u] = locks'[t] => u = t
      BY DEF EntryOfThread
    <2>1. locks'[t] = locks[t] /\ locks[t] # NoEntry
      BY <1>0 DEF IInv, TypeOK
    <2>2. \A u \in Threads : locks'[u] = locks'[t] => u = t
      BY <1>0, <2>1 DEF IInv, TypeOK, EntryOfThread
    <2>3. \E d \in Callers : entry'[d] = locks'[t]
      <3>1. CASE t = t0
        <4>1. UsersOf(e0) # {c}
          BY <1>0, <1>b, <2>1, <3>1 DEF IInv, TypeOK
        <4>2. PICK d \in UsersOf(e0) : d # c
          BY <4>1, <1>a
        <4> QED BY <1>0, <2>1, <3>1, <4>2 DEF IInv, TypeOK, UsersOf
      <3>2. CASE t # t0
        <4>1. PICK d \in Callers : entry[d] = locks[t]
          BY <2>1 DEF IInv, EntryOfThread
        <4>2. d # c
          BY <1>0, <2>1, <3>2, <4>1 DEF IInv, EntryOfThread, e0
        <4> QED BY <1>0, <2>1, <4>1, <4>2 DEF IInv, TypeOK
      <3> QED BY <3>1, <3>2
    <2> QED BY <2>2, <2>3
  <1>5. HolderIsInside'
    BY <1>0 DEF IInv, TypeOK, HolderIsInside, e0
  <1> QED BY <1>1, <1>2, <1>3, <1>4, <1>5 DEF IInv

\* The reference counts are right, every caller in the region refers to the
\* entry of its thread id, and entry.lock is held by the callers inside.
THEOREM LockInvariant == Spec => []IInv
  <1>1. IInv /\ [Next]_vars => IInv'
    <2> SUFFICES ASSUME IInv, [Next]_vars PROVE IInv'
      OBVIOUS
    <2>1. ASSUME NEW c \in Callers, NEW t \in Threads, FindEntry(c, t) PROVE IInv'
      BY <2>1, FindExistingStep, FindNewStep
    <2>2. ASSUME NEW c \in Callers, Acquire(c) \/ AcquireInterrupted(c) \/ Release(c) PROVE IInv'
      BY <2>2, LockStep
    <2>3. ASSUME NEW c \in Callers, DropEntry(c) PROVE IInv'
      BY <2>3, DropStep
    <2>4. CASE UNCHANGED vars
      BY <2>4 DEF vars, IInv, TypeOK, UsersAreCounted, UsersOf, EntryOfCaller, EntryOfThread,
                  HolderIsInside
    <2> QED BY <2>1, <2>2, <2>3, <2>4 DEF Next
  <1> QED BY InitIInv, <1>1, PTL DEF Spec

LEMMA MutualExclusionFromIInv == IInv => MutualExclusion
  BY DEF IInv, TypeOK, EntryOfCaller, HolderIsInside, MutualExclusion

\* No two callers are inside turn_start or start_goal_operation of one thread id.
THEOREM StartsAreExclusive == Spec => []MutualExclusion
  BY LockInvariant, MutualExclusionFromIInv, PTL

\* _thread_start_locks holds the locks in use, and no others.
THEOREM DictionaryIsExact == Spec => []EntriesAreThoseInUse
  <1>1. IInv => EntriesAreThoseInUse
    <2> SUFFICES ASSUME IInv, NEW t \in Threads
                 PROVE  /\ locks[t] = NoEntry <=> \A c \in Callers : at[c] # "outside" => thread[c] # t
                        /\ \A c \in Callers : at[c] # "outside" /\ thread[c] = t => entry[c] = locks[t]
      BY DEF EntriesAreThoseInUse
    <2>1. \A c \in Callers : at[c] # "outside" /\ thread[c] = t => entry[c] = locks[t]
      BY DEF IInv, EntryOfCaller
    <2>2. ASSUME locks[t] = NoEntry, NEW c \in Callers, at[c] # "outside" PROVE thread[c] # t
      BY <2>2, NullsAreDistinct DEF IInv, EntryOfCaller
    <2>3. ASSUME locks[t] # NoEntry PROVE \E c \in Callers : at[c] # "outside" /\ thread[c] = t
      <3>1. PICK c \in Callers : entry[c] = locks[t]
        BY <2>3 DEF IInv, EntryOfThread
      <3>2. at[c] # "outside" /\ locks[thread[c]] = locks[t]
        BY <2>3, <3>1 DEF IInv, EntryOfCaller
      <3> QED BY <2>3, <3>2 DEF IInv, TypeOK, EntryOfThread
    <2> QED BY <2>1, <2>2, <2>3
  <1> QED BY <1>1, LockInvariant, PTL

-----------------------------------------------------------------------------
(* The counted locks implement the mutex.                                  *)

\* The owner of a thread id is its caller inside, or nobody.
LEMMA OwnerIs ==
  ASSUME MutualExclusion, NEW c \in Callers, NEW t, at[c] = "inside", thread[c] = t
  PROVE  OwnerOf(t) = c
  BY DEF MutualExclusion, OwnerOf

LEMMA OwnerIsNext ==
  ASSUME MutualExclusion', NEW c \in Callers, NEW t, at'[c] = "inside", thread'[c] = t
  PROVE  OwnerOf(t)' = c
  BY DEF MutualExclusion, OwnerOf

\* A step that leaves the callers inside a thread id alone leaves its owner.
LEMMA SameOwner ==
  ASSUME MutualExclusion, MutualExclusion', NEW t,
         \A c \in Callers : at'[c] = "inside" /\ thread'[c] = t <=> at[c] = "inside" /\ thread[c] = t
  PROVE  OwnerOf(t)' = OwnerOf(t)
  <1>1. CASE \E c \in Callers : at[c] = "inside" /\ thread[c] = t
    <2>1. PICK c \in Callers : at[c] = "inside" /\ thread[c] = t
      BY <1>1
    <2>2. OwnerOf(t) = c
      BY <2>1, OwnerIs
    <2>3. OwnerOf(t)' = c
      BY <2>1, OwnerIsNext
    <2> QED BY <2>2, <2>3
  <1>2. CASE ~\E c \in Callers : at[c] = "inside" /\ thread[c] = t
    BY <1>2 DEF OwnerOf
  <1> QED BY <1>1, <1>2

\* The counted lock objects, created and dropped on demand, implement the mutex
\* of each thread id: taking entry.lock enters it, releasing entry.lock leaves
\* it, and everything else is invisible.
THEOREM LockImplementsMutex == Spec => MutexSpec
  <1> DEFINE own == [t \in Threads |-> OwnerOf(t)]
  <1>1. Init => Mutex!Init
    BY DEF Init, Mutex!Init, OwnerOf
  <1>2. IInv /\ IInv' /\ [Next]_vars => [Mutex!Next]_own
    <2> SUFFICES ASSUME IInv, IInv', [Next]_vars PROVE [Mutex!Next]_own
      OBVIOUS
    <2> MutualExclusion /\ MutualExclusion'
      BY MutualExclusionFromIInv DEF IInv, TypeOK, EntryOfCaller, HolderIsInside, MutualExclusion
    <2>1. ASSUME NEW c \in Callers, Acquire(c) PROVE [Mutex!Next]_own
      <3>0. PICK t0 \in Threads : t0 = thread[c] /\ t0 = thread'[c]
        BY <2>1 DEF IInv, TypeOK, Acquire
      <3>1. \A d \in Callers : ~(at[d] = "inside" /\ thread[d] = t0)
        BY <2>1, <3>0, NullsAreDistinct DEF IInv, TypeOK, EntryOfCaller, HolderIsInside, Acquire
      <3>2. OwnerOf(t0) = NoCaller
        BY <3>1 DEF OwnerOf
      <3>3. OwnerOf(t0)' = c
        BY <2>1, <3>0, OwnerIsNext DEF IInv, TypeOK, Acquire
      <3>4. ASSUME NEW t \in Threads, t # t0 PROVE OwnerOf(t)' = OwnerOf(t)
        BY <2>1, <3>0, <3>4, SameOwner DEF IInv, TypeOK, Acquire
      <3>5. own[t0] = NoCaller /\ own' = [own EXCEPT ![t0] = c]
        BY <3>2, <3>3, <3>4
      <3> QED BY <3>5 DEF Mutex!Next, Mutex!Enter
    <2>2. ASSUME NEW c \in Callers, Release(c) PROVE [Mutex!Next]_own
      <3>0. PICK t0 \in Threads : t0 = thread[c] /\ t0 = thread'[c]
        BY <2>2 DEF IInv, TypeOK, Release
      <3>1. OwnerOf(t0) = c
        BY <2>2, <3>0, OwnerIs DEF Release
      <3>2. \A d \in Callers : ~(at'[d] = "inside" /\ thread'[d] = t0)
        BY <2>2, <3>0 DEF IInv, TypeOK, MutualExclusion, Release
      <3>3. OwnerOf(t0)' = NoCaller
        BY <3>2 DEF OwnerOf
      <3>4. ASSUME NEW t \in Threads, t # t0 PROVE OwnerOf(t)' = OwnerOf(t)
        BY <2>2, <3>0, <3>4, SameOwner DEF IInv, TypeOK, Release
      <3>5. own[t0] = c /\ own' = [own EXCEPT ![t0] = NoCaller]
        BY <3>1, <3>3, <3>4
      <3> QED BY <3>5 DEF Mutex!Next, Mutex!Exit
    <2>3. ASSUME \A d \in Callers, t \in Threads :
                   at'[d] = "inside" /\ thread'[d] = t <=> at[d] = "inside" /\ thread[d] = t
          PROVE  [Mutex!Next]_own
      <3>1. ASSUME NEW t \in Threads PROVE OwnerOf(t)' = OwnerOf(t)
        BY <2>3, SameOwner
      <3> QED BY <3>1
    <2>4. ASSUME NEW c \in Callers, NEW t \in Threads, FindEntry(c, t) PROVE [Mutex!Next]_own
      BY <2>3, <2>4 DEF IInv, TypeOK, FindEntry
    <2>5. ASSUME NEW c \in Callers, AcquireInterrupted(c) PROVE [Mutex!Next]_own
      BY <2>3, <2>5 DEF IInv, TypeOK, AcquireInterrupted
    <2>6. ASSUME NEW c \in Callers, DropEntry(c) PROVE [Mutex!Next]_own
      BY <2>3, <2>6 DEF IInv, TypeOK, DropEntry
    <2>7. CASE UNCHANGED vars
      BY <2>3, <2>7 DEF vars
    <2> QED BY <2>1, <2>2, <2>4, <2>5, <2>6, <2>7 DEF Next
  <1> QED BY <1>1, <1>2, LockInvariant, PTL DEF Spec, MutexSpec, Mutex!Spec
=============================================================================
