SPECIFICATION Spec
CONSTANTS
    CrcOrder <- MCCrcOrder
    Lower <- MCLower
    List <- MCList
    Inputs <- OneFile
    KeepLists <- OnlyKeep
    CriteriaLists <- NoLists
INVARIANT IndicesAreNormalized
