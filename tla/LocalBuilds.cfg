SPECIFICATION Spec
CONSTANTS
    MaxCommit = 2
    MaxPatch = 2
    StrayPatches = {7}
    Environments <- MCEnvironments
    HostTarget = "gnu"
    ReleaseTarget = "musl"
    BinariesOf <- MCBinariesOf
    Digested = {"bwrap"}
    NoTarget = "unset"
    MaxRuns = 3
    MaxEdits = 3
INVARIANTS TypeOK FreshReleaseVerifies ReleaseIsWhatItSays HalfPatchedIsNotBuilt
CHECK_DEADLOCK FALSE
