SPECIFICATION Spec
CONSTANTS
    InodeCount = 4
    NBlocks    = 5
    Names      = {a, b, long}
    LongNames  = {long}
    Room       = 1
    MaxFaults  = 1
    Layouts    <- TwoLayouts
SYMMETRY NameSymmetry
CONSTRAINT LargeTrees
INVARIANTS TypeOK NamedOnce NoDangling TreeSound LinksCounted MetadataAgrees
