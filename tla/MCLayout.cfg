SPECIFICATION Spec
CONSTANTS
    Dobjs = {d1, base}
    Base = base
    MaxSize = 4
    WriteOffsets = {0, 1}
    PieceOffsets = {0}
    PieceLengths = {2}
    CloneLists <- MCCloneLists
    MaxVersion = 3
    Word = 16
    Operations = {"write", "truncate", "clone", "removeDobj"}
INVARIANTS
    TypeOK
    WellFormed
    LinksMatch
    Compact
    CloneSourceIsExact
    DenseReadIsExact
PROPERTIES
    ImplementsFileMap
