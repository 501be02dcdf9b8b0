SPECIFICATION FairSpec
CONSTANTS
    NFiles = 3
    MaxRecords = 2
    c1 = c1
    c2 = c2
    old = old
    Columns = {c1, c2}
    OldColumns = {old}
    Options <- MCOptions
    BaseRows = 1
    Fill = Fill
INVARIANTS
    TypeOK
    OutputIsConcatenation
    HeadersOfWrittenFilesPoint
    AppendKeepsEarlierRuns
    WritesFitTheSchema
    MismatchStopsAtOnce
PROPERTY Terminates
