SPECIFICATION FairSpec
CONSTANTS
    InodeCount = 2
    NDirect = 1
    P = 2
    DataStart = 1
    TotalBlocks = 6
    CountMod = 16
    Data <- OneDatum
    DirData = 8
    Offsets <- DeepOffsets
    Lengths <- DeepLengths
    NewSizes <- DeepSizes
    MaxDirSize = 2
    FaultyOps <- CutFaults
INVARIANTS
    TypeOK
    NoSharing
    Allocated
    SpaceAccounted
    CountExact
    NothingPastEOF
PROPERTIES
    OperationsEnd
