SPECIFICATION Spec
CONSTANTS
    UB        = 12
    Names     <- MixedNames
    Need      <- MixedNeed
    Inos      = {2, 3}
    Self      = 1
    Parents   = {1, 4}
    MaxBlocks = 2
INVARIANTS TypeOK EntriesKept FirstBlockSound
