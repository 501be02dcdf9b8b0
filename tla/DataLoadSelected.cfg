SPECIFICATION Spec
CONSTANTS
    Layouts <- SelectedOnly
    FileSizes = {0, 2}
    Finite = {a, b}
    Inf = Inf
    NaN = NaN
    MaxScan = 1
    MaxCycles = 3
INVARIANT RowsHoldOneCycle
