SPECIFICATION Spec
CONSTANTS
    InodeCount = 3
    NDirect = 1
    P = 2
    DataStart = 1
    TotalBlocks = 5
    CountMod = 16
    Data <- OneDatum
    DirData = 8
    Offsets <- WideOffsets
    Lengths <- WideLengths
    NewSizes <- WideSizes
    MaxDirSize = 4
    FaultyOps <- AllFaults
PROPERTIES
    Isolation
    ImplementsFiles
