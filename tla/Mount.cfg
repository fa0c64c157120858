SPECIFICATION FairSpec
CONSTANTS
    Names      = {"a", "b"}
    InodeCount = 3
    Sizes      = {0, 1}
    Perms      = {"p", "q"}
    Users      = {"root", "u"}
    NoPerm     = "p"
    RootUser   = "root"
    None       = None
    PageMax    = 3
CONSTRAINT PlainWhenListed
INVARIANTS TypeOK ToldIsStored OkIsSaved NoneSkipped NoneTwice
PROPERTY ListingEnds
