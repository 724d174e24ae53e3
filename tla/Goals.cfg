SPECIFICATION Spec
CONSTANTS
    Ops = {o1, o2}
    NoOp = NoOp
    MaxTurns = 2
    StoredGoals = {"none"}
    Leavers = {o2}
    Unheard = {o1}
    MayFail = FALSE
CHECK_DEADLOCK FALSE
INVARIANTS TypeOK RouteIsTheOperations TurnsAndGoalsExclude OneLogicalTurn
INVARIANTS CompletionIsTheGoals
PROPERTY CancelReachesItsOwn
