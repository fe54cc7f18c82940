SPECIFICATION FairSpec
CONSTANTS
    Inos = {1}
    Restored = {1}
    Objects = {1, 2}
    Workers = {w1, w2}
    Dobjs = {}
    Commands = {"create", "createOpen", "openWhole", "unref", "delete"}
    MaxRef = 1
    Debug = TRUE
INVARIANTS
    TypeOK
    KeptAlive
    FreedOnce
PROPERTIES
    DeletedIsFreed
    EveryCommandEnds
