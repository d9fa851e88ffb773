SPECIFICATION Spec
CONSTANTS
    LengthVals = 256
    Window = 15
    MaxPrefixes = 2
    Trailing = 1
    Inputs <- MCInputs
INVARIANTS
    TypeOK
    LengthExact
    ContractKept
    ImmediateFills
PROPERTIES
    ImplementsStream
CHECK_DEADLOCK FALSE
