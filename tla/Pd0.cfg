SPECIFICATION Spec
CONSTANTS
    Inputs <- MCInputs
    Low = 4
    ChunkSize = 5000
    Fill = Fill
INVARIANTS
    TypeOK
    RowsAreTheirEnsembles
    CellsAreTheLeaders
    CellsFit
    MeldedFieldsAreOwn
    HeaderRowsTile
    ChunksAreBounded
