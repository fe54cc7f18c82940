SPECIFICATION Spec
CONSTANTS
    t1 = t1
    t2 = t2
    a = a
    b = b
    Threads <- MCThreads
    Names <- MCNames
    Dentries = {1, 2}
    Inodes = {1, 2, 3}
    LowerDentries = {1, 2}
    LowerInodes = {1, 2}
    Files = {1}
    Operations = {"open", "create", "unlink", "link", "rename"}
    Failures = TRUE
CONSTRAINT Whole
SYMMETRY Symmetry
INVARIANTS
    TypeOK
    RefsBalanced
    NamesAgree
