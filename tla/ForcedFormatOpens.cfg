SPECIFICATION Spec
CONSTANTS
    NImages     = 2
    Size        <- EqualSizes
    Small       = {}
    UpperCase   = {2}
    Passphrases = {"p"}
    MaxTemp     = 2
    MaxFormats  = 2
INVARIANT ForcedFormatOpens
