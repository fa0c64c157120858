SPECIFICATION Spec
CONSTANTS
    InodeCount = 2
    NDirect = 1
    P = 2
    DataStart = 1
    TotalBlocks = 6
    CountMod = 16
    Data <- OneDatum
    DirData = 8
    Offsets <- FullOffsets
    Lengths <- FullLengths
    NewSizes <- FullSizes
    MaxDirSize = 2
    FaultyOps <- NoFaults
INVARIANTS
    UnlinkReturnsSpace
