SPECIFICATION Spec
CONSTANTS
    Inos = {1}
    Restored = {1}
    Objects = {1}
    Workers = {w1, w2}
    Dobjs = {d1}
    Commands = {"createOpen", "delete"}
    MaxRef = 2
    Debug = TRUE
INVARIANTS
    NothingLeft
