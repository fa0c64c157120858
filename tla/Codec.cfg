SPECIFICATION Spec
CONSTANTS
    NSlots    = 8
    BlockLen  = 4
    ByteBits  = 2
    HeaderLen = 2
    MaxValue  = 7
    Keys      = {"k1", "k2"}
    Shuffle   <- TwoOrders
    Pictures  <- AllPictures
INVARIANTS TypeOK PictureKept CapacityStable ReadBack
