CONSTANTS
    f1 = f1
    f2 = f2
    z1 = z1
    z2 = z2
    Files <- MCFiles
    Infos <- MCInfos
    None = None
    Server = Server
    MaxSockets = 2
    MaxEvents = 4
SPECIFICATION Spec
SYMMETRY MCSymmetry
CHECK_DEADLOCK FALSE
INVARIANTS
    TypeOK
    EndsAgreeUnlessMisapplied
    CreatedOncePerStart
    SpokenAsAskedUnlessOverlap
