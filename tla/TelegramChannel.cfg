CONSTANTS
    u1 = u1
    u2 = u2
    a1 = a1
    a2 = a2
    None = None
    Users <- MCUsers
    Albums <- MCAlbums
    FirstOwners <- MCFirstOwners
    MaxMessages = 2
    MaxText = 3
    Limit = 2
    MaxErrors = 1
    MaxEvents = 4
    MaxSent = 3
    MaxStarts = 2
    MaxCodes = 2
    MaxDiskErrors = 1
SPECIFICATION MCSpec
SYMMETRY MCSymmetry
CHECK_DEADLOCK FALSE
INVARIANTS
    TypeOK
    SaidOnceUnlessCut
    HeardInOrder
    NothingLostUnlessRisked
