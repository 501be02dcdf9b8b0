SPECIFICATION Spec
CONSTANTS
    CrcOrder <- MCCrcOrder
    Lower <- MCLower
    List <- MCList
    Inputs <- MCInputs
    KeepLists <- MCKeepLists
    CriteriaLists <- MCCriteriaLists
INVARIANTS
    TypeOK
    KnownListsAreCommon
    ColumnsFollowTheMap
    OutputIsWhatWasAsked
    OneFullFileIsEnough
