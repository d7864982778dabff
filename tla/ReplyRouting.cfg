SPECIFICATION Spec
CONSTANTS
    s1 = s1
    s2 = s2
    s3 = s3
    s4 = s4
    None = None
    Send <- FourSends
    QueuesInOrder = TRUE
    DeferredInTime = TRUE
INVARIANTS
    TypeOK
    Attributed
    MirrorsPi
