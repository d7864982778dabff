SPECIFICATION FairSpec
CONSTANTS
    Size = 3
    MaxChunk = 2
    MaxInFlight = 2
    MaxSockets = 2
    MaxCrashes = 1
    MaxErrors = 1
    MaxDays = 1
CHECK_DEADLOCK FALSE
INVARIANTS
    TypeOK
    WholeAndOnce
    PageAndStagingAgree
PROPERTIES
    KeepsPromise
    UploadEnds
