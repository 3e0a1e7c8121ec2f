CONSTANTS
    PageSize = 2
    CandidateLimit = 2
    RrfK = 1
    Scale = 6
    Grades <- MCGrades
    MaxRows = 3
SPECIFICATION Spec
INVARIANTS
    TypeOK
    NothingSkipped
    QuietReadingIsComplete
    AnnouncedPageHasRows
    FusionRespectsRankings
