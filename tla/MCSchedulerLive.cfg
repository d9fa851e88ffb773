SPECIFICATION LiveSpec
CONSTANTS
    MaxTick = 2
    MaxEvents = 4
    Actions = {a}
    Honour = TRUE
INVARIANTS
    PassOrdered
PROPERTIES
    EventuallyFires
