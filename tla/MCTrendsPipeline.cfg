CONSTANTS
    devto = devto
    a1 = a1
    a2 = a2
    a3 = a3
    a4 = a4
    a5 = a5
    Sources <- MCSources
    Ids <- MCIds
    Target = 3
    BatchSize = 2
    MaxDay = 3
    MaxLost = 1
SPECIFICATION FairSpec
INVARIANTS
    TypeOK
    DailyQuota
    CountMatchesTable
    WorkIsNew
PROPERTIES
    ImplementsCatalog
    RunEnds
