SPECIFICATION Spec
CONSTANTS
    ByteBits = 2
    Words <- MCWords
    Counts <- MCCounts
INVARIANTS
    ShiftIdentical
CHECK_DEADLOCK FALSE
