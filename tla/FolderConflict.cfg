SPECIFICATION Spec
CONSTANTS
    f1 = f1
    f2 = f2
    n1 = n1
    plain = plain
    policy = policy
    v1 = v1
    v2 = v2
    None = None
    File <- Files
    Fresh <- NewFiles
    Folder <- Folders
    FolderOf <- Places
    ReadOnlyFolder <- Policy
    Viewer <- Viewers
    MaxEvents = 4
SYMMETRY Symmetry
CHECK_DEADLOCK FALSE
INVARIANTS
    TypeOK
    NoPhantomUnlessGhost
    ScreenIsTrue
    VerdictStands
PROPERTIES
    NeverDraggedBack
