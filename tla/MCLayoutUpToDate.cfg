SPECIFICATION Spec
CONSTANTS
    Dobjs = {d1, base}
    Base = base
    MaxSize = 3
    WriteOffsets = {0, 1}
    PieceOffsets = {0}
    PieceLengths = {2}
    CloneLists <- MCCloneLists
    MaxVersion = 2
    Word = 16
    Operations = {"write", "removeDobj"}
PROPERTIES
    VersionTellsChange
