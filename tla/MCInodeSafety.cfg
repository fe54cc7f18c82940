SPECIFICATION Spec
CONSTANTS
    Inos = {1}
    Restored = {1}
    Objects = {1}
    Workers = {w1, w2, w3}
    Dobjs = {d1, d2}
    Commands = {"read", "write", "truncate", "clone", "cloneSource", "open", "openWhole",
                "readDobj", "releaseDrain", "removeDobj", "removeBase", "delete", "unref"}
    MaxRef = 3
    Debug = TRUE
SYMMETRY Symmetry
INVARIANTS
    NothingLeft
    OpenIsNotDeleted
    DrainIsExclusive
