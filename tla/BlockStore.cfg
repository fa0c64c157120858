SPECIFICATION FairSpec
CONSTANTS
    NCarriers   = 2
    First       <- TwoCarriers
    BitmapBlock = 0
    Values      = {0, 1}
    Encrypted   = FALSE
INVARIANTS TypeOK ReadYourWrites SyncIsDurable
PROPERTY SyncEnds
