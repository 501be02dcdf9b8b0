SPECIFICATION Spec
CONSTANTS
    Inputs <- MCInputs
    Outputs = {"x", "y"}
    ReadSize = 3
    Old = Old
    None = None
INVARIANTS
    TypeOK
    StreamIsConcatenation
    OutputsAreNeverPartial
    SuccessMeansDelivered
    TempsAreRemoved
