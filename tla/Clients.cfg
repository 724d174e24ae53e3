SPECIFICATION Spec
CONSTANTS
    Callers = {a, b}
    NoCaller = none
    Answers = {"ok", "busy"}
    MaxAttempts = 2
    MaxStarts = 2
    MaxOps = 1
    MaxCloses = 1
    MaxCancels = 1
    MaxEvents = 1
INVARIANTS TypeOK ServersAreTracked UsableWhenInitialized AtMostOnce
PROPERTIES FailuresAreOwn RepliesGoToTheAsker
SYMMETRY CallerSymmetry
CHECK_DEADLOCK FALSE
