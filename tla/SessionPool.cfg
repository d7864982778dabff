SPECIFICATION Spec
CONSTANTS
    f1 = f1
    v1 = v1
    v2 = v2
    c1 = c1
    c2 = c2
    a1 = a1
    a2 = a2
    a3 = a3
    None = None
    File <- OneFile
    Viewer <- OneViewer
    Conn <- TwoConns
    Agent <- ThreeAgents
    MaxBusy = 1
    MaxWaiters = 2
    MaxReads = 1
SYMMETRY Symmetry
INVARIANTS
    TypeOK
    ShutDownOnce
    OneDriverUnlessRaced
    NoLeakUnlessRaced
    EntryIsUsable
    EntryIsTrueUnlessRaced
