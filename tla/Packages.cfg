SPECIFICATION Spec
CONSTANTS
    Packagers = {a, b}
    Systems = {"linux", "windows"}
    Jobs <- MCJobs
    MaxRuns = 3
    MaxFaults = 1
INVARIANTS TypeOK LonePackageIsRight LoneFailureHasACause RuntimeTakesThePackage
SYMMETRY PackagerSymmetry
CHECK_DEADLOCK FALSE
