SPECIFICATION Spec
CONSTANTS
    UB        = 12
    Names     <- EqualNames
    Need      <- EqualNeed
    Inos      = {2, 3, 4}
    Self      = 1
    Parents   = {1}
    MaxBlocks = 2
INVARIANT UnlinkedIsGone
