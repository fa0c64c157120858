SPECIFICATION Spec
CONSTANTS
    NImages     = 4
    Size        <- EqualSizes
    Small       = {1, 2}
    UpperCase   = {2, 4}
    Passphrases = {"p"}
    MaxTemp     = 2
    MaxFormats  = 3
CONSTRAINT Followed
INVARIANTS TypeOK FormattedOpens OldPoolsGone UnforcedKeepsPool PlainIsWhole
