CONSTANTS
    c1 = c1
    c2 = c2
    Clients <- MCClients
    MaxJobs = 2
    MaxEvents = 3
SPECIFICATION Spec
SYMMETRY MCSymmetry
VIEW MCView
CHECK_DEADLOCK FALSE
INVARIANTS
    TypeOK
    OneObservedGit
    NothingSpinsUnlessCut
    RestoredIsNotMarked
PROPERTIES
    AgentHasFolderUnlessRaced
