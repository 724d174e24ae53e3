SPECIFICATION FairSpec
CONSTANTS
    MaxTag = 2
    Prereleases = {}
    MaxRevision = 1
    PatchesOf <- NewPatches
    Dispatches <- NoDispatches
    MaxInterventions = 0
    JobsFail = TRUE
    LookupsFail = TRUE
    NoBuild = NoBuild
PROPERTY StayingLatestIsSettled
