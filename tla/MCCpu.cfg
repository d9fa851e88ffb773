SPECIFICATION LiveSpec
CONSTANTS
    rom = rom
    ram = ram
    port = port
    ByteBits = 1
    AddrSpace = 256
    RamRegions <- MCRam
    ExitRegions <- MCExit
    Size <- MCSize
    Layout <- MCLayout
    FetchMax = 4
    MaxTick = 5
    MaxEvents = 2
    Actions = {"timer"}
    Programs <- MCPrograms
    Entry = {0}
    Stack = {32}
    Budgets = {5}
    Deadlines = {2}
    HostWrites <- MCExitWrite
    HostRips = {60}
    HostGprs <- MCHostGprs
INVARIANTS
    TypeOK
    StringProgress
    ExitBlames
    OnTime
PROPERTIES
    FaultAtomic
    RunReturns
    StoppedStays
    BudgetHonoured
