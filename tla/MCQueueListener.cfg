CONSTANTS
    devto = devto
    Sources <- MCSources
    MaxListed = 1
    MaxRows = 2
    MaxEvents = 2
    MaxDay = 2
    MaxCrashes = 1
    MaxFaults = 1
SPECIFICATION FairSpec
INVARIANTS
    TypeOK
    AnnouncesWholeDay
    MissedForAReason
PROPERTY EveryEventHandled
