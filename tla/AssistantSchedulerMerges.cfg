SPECIFICATION Spec
CONSTANTS
    s1 = s1
    s2 = s2
    Session <- TwoSessions
    First = s1
    NumJobs = 2
    Kind <- TwoInline
    Recurring = {1}
    Times <- TwoTimes
    Grace = 0
    MaxTime = 2
    MaxEvents = 0
    MaxUnwritten <- NoneMissed
    OffAtFirst = {}
CHECK_DEADLOCK FALSE
INVARIANTS
    JobsNeverMerge
