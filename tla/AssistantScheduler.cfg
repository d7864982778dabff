SPECIFICATION FairSpec
CONSTANTS
    s1 = s1
    s2 = s2
    Session <- TwoSessions
    First = s1
    NumJobs = 4
    Kind <- FourKinds
    Recurring = {1}
    Times <- FourTimes
    Grace = 0
    MaxTime = 2
    MaxEvents = 1
    MaxUnwritten <- OneShotMisses
    OffAtFirst = {1}
CHECK_DEADLOCK FALSE
INVARIANTS
    TypeOK
    RunsOnceAndAlone
PROPERTIES
    JobsAreServed
