SPECIFICATION Spec
CONSTANTS
    Layouts <- MCLayouts
    FileSizes = {0, 2}
    Finite = {a, b}
    Inf = Inf
    NaN = NaN
    MaxScan = 1
    MaxCycles = 3
INVARIANTS
    TypeOK
    RoomForRow
    ExitsWithWholeRows
    CellsAreRecent
    UnfilteredRowsHoldOneCycle
PROPERTY RowsAreFinal
