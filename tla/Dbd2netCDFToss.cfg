SPECIFICATION Spec
CONSTANTS
    NFiles = 3
    MaxRecords = 2
    c1 = c1
    c2 = c2
    old = old
    Columns = {c1, c2}
    OldColumns = {old}
    Options <- PlainOnly
    BaseRows = 1
    Fill = Fill
INVARIANT TossedFilesAreTossed
