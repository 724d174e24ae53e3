SPECIFICATION Spec
CONSTANTS
    MaxTag = 1
    Prereleases = {}
    MaxRevision = 1
    PatchesOf <- NewPatches
    Dispatches <- NoDispatches
    MaxInterventions = 0
    JobsFail = TRUE
    LookupsFail = FALSE
    NoBuild = NoBuild
INVARIANT ReleasesAreVerified
