CONSTANTS
    r1 = r1
    r2 = r2
    r3 = r3
    rust = rust
    redis = redis
    backend = backend
    Requests <- MCThree
    Keys <- MCTwoKeys
    KeyOf <- MCMixedKeys
    Processes <- MCOneProcess
    ProcessOf <- MCAllHere
    Permits = 1
    MaxPolls = 2
    MaxLockLosses = 0
    MaxCacheLosses = 0
    MaxOutages = 1
    MaxApiFailures = 1
    MaxCrashes = 1
SPECIFICATION FairSpec
PROPERTY EveryRequestAnswered
