SPECIFICATION FairSpec
CONSTANTS
    Callers = {c1, c2, c3}
    Threads = {a, b}
    Entries = {e1, e2, e3}
    NoEntry = NoEntry
    NoCaller = NoCaller
INVARIANT EntriesAreThoseInUse
PROPERTY MutexSpec
PROPERTY LockIsPassedOn
