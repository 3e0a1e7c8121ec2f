CONSTANTS
    devto = devto
    cron = cron
    http = http
    Sources <- MCSources
    Dispatchers <- MCDispatchers
    MaxAttempts = 3
    MaxStalled = 1
    MaxDay = 2
    MaxCrashes = 2
SPECIFICATION Spec
INVARIANTS
    TypeOK
    WaitsOnce
    GivenUpOnlyWhenSpent
PROPERTIES
    DispatchKeepsJobs
