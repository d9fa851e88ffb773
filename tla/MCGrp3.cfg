SPECIFICATION Spec
CONSTANTS
    ByteBits = 1
    Widths = {1, 2, 4, 8}
    Accs <- MCAccs
    Highs <- MCHighs
    Sources <- MCSources
INVARIANTS
    TypeOK
    MulExact
    DivExact
    DivideFaults
CHECK_DEADLOCK FALSE
