SPECIFICATION Spec
CONSTANTS
    ByteBits = 2
    Words <- MCWords
    Counts <- MCCounts
INVARIANTS
    TypeOK
    ArithExact
    ConditionsCompare
    ShiftExact
    RotateExact
    ScanExact
    SignKept
    UpperBits
CHECK_DEADLOCK FALSE
