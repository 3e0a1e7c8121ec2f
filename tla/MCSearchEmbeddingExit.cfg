CONSTANTS
    r1 = r1
    r2 = r2
    r3 = r3
    rust = rust
    redis = redis
    backend = backend
    Requests <- MCThree
    Keys <- MCOneKey
    KeyOf <- MCSameKey
    Processes <- MCOneProcess
    ProcessOf <- MCAllHere
    Permits = 1
    MaxPolls = 2
    MaxLockLosses = 1
    MaxCacheLosses = 0
    MaxOutages = 0
    MaxApiFailures = 0
    MaxCrashes = 0
SPECIFICATION FairSpec
PROPERTY EarlyExitIsHopeless
