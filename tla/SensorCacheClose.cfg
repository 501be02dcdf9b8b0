SPECIFICATION Spec
CONSTANTS
    Dumpers = {d1, d2}
    Loaders = {l1, l2}
    Suffixes = {s1, s2}
    ListLen = 2
    SuffixesDistinct = TRUE
    CloseMayFail = TRUE
    None = None
INVARIANT PublishedIsWhole
SYMMETRY Interchangeable
