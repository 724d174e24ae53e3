----------------------------- MODULE ThreadMutex -----------------------------
(***************************************************************************)
(* What _thread_start_lock promises: for each thread id, at most one       *)
(* caller at a time is between its turn/start or goal start request and    *)
(* the registration of what that request created.                          *)
(***************************************************************************)
CONSTANTS Callers, Threads, NoCaller

VARIABLE owner  \* the caller inside the locked region of each thread id

Init == owner = [t \in Threads |-> NoCaller]

Enter(c, t) ==
    /\ owner[t] = NoCaller
    /\ owner' = [owner EXCEPT ![t] = c]

Exit(c, t) ==
    /\ owner[t] = c
    /\ owner' = [owner EXCEPT ![t] = NoCaller]

Next == \E c \in Callers, t \in Threads : Enter(c, t) \/ Exit(c, t)

Spec == Init /\ [][Next]_owner
=============================================================================
