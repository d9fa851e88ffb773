SPECIFICATION Spec
CONSTANTS
    rom = rom
    ram = ram
    port = port
    ByteBits = 1
    AddrSpace = 256
    RamRegions <- MCRam
    ExitRegions <- MCExit
    Size <- MCSize
    Layout <- MCLayout
    FetchMax = 4
    MaxTick = 6
    MaxEvents = 0
    Actions = {"timer"}
    Programs <- MCSurfacePrograms
    Entry = {0}
    Stack = {32}
    Budgets = {5}
    Deadlines = {}
    HostWrites = {}
    HostRips = {}
    HostGprs = {}
INVARIANTS
    SurfaceServed
