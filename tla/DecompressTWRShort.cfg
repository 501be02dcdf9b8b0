SPECIFICATION Spec
CONSTANTS
    Inputs <- ShortInputs
    Outputs = {"x", "y"}
    ReadSize = 3
    Old = Old
    None = None
INVARIANT DamagedInputsAreRefused
