SPECIFICATION Spec
CONSTANTS
    rom = rom
    ram = ram
    exit = exit
    RamRegions <- MCRam
    ExitRegions <- MCExit
    Size <- MCSize
    ByteBits = 1
    WriteVals <- MCWriteVals
    Widths = {1, 2, 4}
    AddrSpace = 8
    MapBases <- MCBases
    MapSizes <- MCSizes
    MaxMappings = 3
INVARIANTS
    MappingsSound
    ResolveAgrees
    ErrorInAccess
    AccessExact
    TypeOK
PROPERTIES
    MapVerdict
    ImplementsAddressSpace
