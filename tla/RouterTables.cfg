SPECIFICATION Spec
CONSTANTS
    Requests = {}
    Turns = {t1}
    Logins = {}
    Handles = {h1, h2, g1}
    ChannelOf <- SharedTurnAndGlobal
    Last <- ThreeEvents
    MaxCalls = 2
    Global = global
    NoQueue = NoQueue
    Failure = Failure
    global = global
    t1 = t1
    h1 = h1
    h2 = h2
    g1 = g1
CHECK_DEADLOCK FALSE
SYMMETRY HandleSymmetry
INVARIANTS TypeOK NothingPendingAfterCompletion
INVARIANTS EveryEventIsInOnePlace OnlyReplayIsOvertaken
