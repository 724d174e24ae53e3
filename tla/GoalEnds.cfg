SPECIFICATION FairSpec
CONSTANTS
    Ops = {o1}
    NoOp = NoOp
    MaxTurns = 2
    StoredGoals = {"none", "active"}
    Leavers = {o1}
    Unheard = {o1}
    MayFail = TRUE
CHECK_DEADLOCK FALSE
INVARIANTS FailedStartLeavesNothing AbandonedStartLeavesNothing
PROPERTY OperationEnds
