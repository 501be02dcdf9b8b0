SPECIFICATION FairSpec
CONSTANTS
    Dumpers = {d1, d2}
    Loaders = {l1, l2}
    Suffixes = {s1, s2}
    ListLen = 2
    SuffixesDistinct = TRUE
    CloseMayFail = FALSE
    None = None
INVARIANTS
    TypeOK
    PublishedIsWhole
    DumpedMeansPublished
    TempsAreOwned
PROPERTIES
    StoreSpec
    DumpersPublish
