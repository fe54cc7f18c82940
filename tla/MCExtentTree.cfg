CONSTANTS
    d1 = d1
    d2 = d2
    Dobjs <- MCDobjs
    MaxSize = 7
    MaxExtents = 13
    Writes <- MCWrites
    Clones <- MCClones
SPECIFICATION Spec
VIEW View
INVARIANTS
    TypeOK
    NoAssertFails
    TreeOK
    ListMatchesTree
    NothingLost
    ImplementsReplace
