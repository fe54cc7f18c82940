SPECIFICATION Spec
CONSTANTS
    Clients <- TwoClients
    Writers <- OneWriter
    Threads = 5
    Inos <- ThreeInos
    Clones <- Pairs
    Buffer = 1
    END = END
    c1 = c1
    c2 = c2
    w1 = w1
    i1 = i1
    i2 = i2
    i3 = i3
INVARIANTS
    TypeOK
    CloneIsSnapshot
PROPERTIES
    ClonesEnd
CHECK_DEADLOCK FALSE
