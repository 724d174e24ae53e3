SPECIFICATION FairSpec
CONSTANTS
    Requests = {r1, r2}
    Turns = {t1}
    Logins = {}
    Handles = {h1}
    ChannelOf <- SharedTurnAndGlobal
    Last <- TwoEvents
    MaxCalls = 1
    Global = global
    NoQueue = NoQueue
    Failure = Failure
    global = global
    t1 = t1
    h1 = h1
    h2 = h2
    g1 = g1
CHECK_DEADLOCK FALSE
INVARIANTS ReaderNeverBlocksOnAWaiter WaitingCallerIsReachable
PROPERTIES RegisteredRequestEnds RegisteredCallEnds
