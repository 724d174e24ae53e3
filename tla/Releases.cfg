SPECIFICATION Spec
CONSTANTS
    MaxTag = 2
    Prereleases = {1}
    MaxRevision = 2
    PatchesOf <- NewPatches
    Dispatches <- AllDispatches
    MaxInterventions = 1
    JobsFail = TRUE
    LookupsFail = FALSE
    NoBuild = NoBuild
INVARIANTS TypeOK ReleaseHasItsPatches PublishedOnce FailedReleaseIsNotRetried
