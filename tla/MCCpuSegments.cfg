SPECIFICATION Spec
CONSTANTS
    rom = rom
    ram = ram
    port = port
    ByteBits = 1
    AddrSpace = 256
    RamRegions <- MCRam
    ExitRegions <- MCExit
    Size <- MCSize
    Layout <- MCLayout
    FetchMax = 4
    MaxTick = 3
    MaxEvents = 0
    Actions = {"timer"}
    Programs <- MCSegmentPrograms
    Entry = {0}
    Stack = {32}
    Budgets = {2}
    Deadlines = {}
    HostWrites = {}
    HostRips = {}
    HostGprs = {}
INVARIANTS
    SegmentsRefused
