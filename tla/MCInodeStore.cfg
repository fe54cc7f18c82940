SPECIFICATION Spec
CONSTANTS
    Nodes <- TwoNodes
    Files <- TwoFiles
    MaxIno = 2
    Layouts <- TwoLayouts
    NoLayout <- l0
    NULL = NULL
    MaxEnds = 3
    Superuser = TRUE
    n1 = n1
    n2 = n2
    b1 = b1
    b2 = b2
    l0 = l0
    l1 = l1
SYMMETRY Symmetry
INVARIANTS
    TypeOK
    LiveIsRegistered
    MappedIsLive
    ServedIsCurrent
    NothingLost
CHECK_DEADLOCK FALSE
