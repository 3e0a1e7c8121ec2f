CONSTANTS
    devto = devto
    a1 = a1
    a2 = a2
    cron = cron
    Sources <- MCSources
    Ids <- MCIds
    Dispatchers <- MCDispatchers
    Target = 2
    BatchSize = 1
    MaxAttempts = 2
    MaxStalled = 1
    MaxDay = 2
    MaxCrashes = 1
    MaxLost = 0
SPECIFICATION IngestFairSpec
INVARIANTS
    RunsAreBounded
PROPERTIES
    CompletedMeansDone
    ImplementsPipeline
    ImplementsQueue
    QueuedJobSettles
