SPECIFICATION Spec
CONSTANTS
    rom = rom
    ram = ram
    port = port
    ByteBits = 1
    AddrSpace = 256
    RamRegions <- MCRam
    ExitRegions <- MCExit
    Size <- MCSize
    Layout <- MCLayout
    FetchMax = 4
    MaxTick = 3
    MaxEvents = 1
    Actions = {"timer"}
    Programs <- MCHaltPrograms
    Entry = {0}
    Stack = {32}
    Budgets = {2}
    Deadlines = {2}
    HostWrites <- MCExitWrite
    HostRips = {}
    HostGprs = {}
PROPERTIES
    ExitLatched
