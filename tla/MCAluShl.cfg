SPECIFICATION Spec
CONSTANTS
    ByteBits = 2
    Words <- MCWords
    Counts <- MCCounts
INVARIANTS
    ShlCarry
CHECK_DEADLOCK FALSE
