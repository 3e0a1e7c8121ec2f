CONSTANTS
    r1 = r1
    r2 = r2
    r3 = r3
    rust = rust
    redis = redis
    backend = backend
    Requests <- MCThree
    Keys <- MCOneKey
    KeyOf <- MCSameKey
    Processes <- MCOneProcess
    ProcessOf <- MCAllHere
    Permits = 1
    MaxPolls = 2
    MaxLockLosses = 1
    MaxCacheLosses = 1
    MaxOutages = 1
    MaxApiFailures = 1
    MaxCrashes = 1
SPECIFICATION Spec
INVARIANTS
    TypeOK
    OwnerHasLock
    NoLockLeftBehind
    OneCallPerKey
PROPERTY EarlyExitMeansFailure
SYMMETRY MCSymmetry
