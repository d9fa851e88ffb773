SPECIFICATION Spec
CONSTANTS
    MaxTick = 2
    MaxEvents = 4
    Actions = {a}
    Honour = FALSE
INVARIANTS
    TypeOK
    ExactlyOnce
    TopUnique
    NoInversion
PROPERTIES
    DispatchExact
    ImplementsWheel
