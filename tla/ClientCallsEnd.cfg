SPECIFICATION FairSpec
CONSTANTS
    Callers = {a, b}
    NoCaller = none
    Answers = {"ok"}
    MaxAttempts = 1
    MaxStarts = 2
    MaxOps = 1
    MaxCloses = 1
    MaxCancels = 0
    MaxEvents = 1
PROPERTIES OperationsEnd
CHECK_DEADLOCK FALSE
