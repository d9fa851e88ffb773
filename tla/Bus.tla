--------------------------------- MODULE Bus ---------------------------------
(***************************************************************************)
(* The address-routing bus (kernel/bus.hpp, kernel/bus.cpp) with the       *)
(* regions it serves.  A call on the bus runs to completion and calls      *)
(* nothing that calls back into the bus ("it must not touch the bus",      *)
(* debug_exit.hpp 43), so every public member function is one action.      *)
(* The four widths of each access are one action with the width as its     *)
(* argument; addresses are 64-bit numbers modulo AddrSpace.                *)
(***************************************************************************)
EXTENDS Regions, Sequences, FiniteSets

CONSTANTS
    RamRegions,   \* the RamRegion objects
    ExitRegions,  \* the DebugExitRegion objects
    Size,         \* bytes of each RamRegion
    MapBases,     \* the bases and sizes map() is called with:
    MapSizes,     \*   MapSizes[r] for region r
    Widths,       \* widths of the accesses, in bytes
    WriteVals,    \* the values written at each width
    MaxMappings   \* bound: entries of the table

Region == RamRegions \cup ExitRegions

ASSUME RegionAssumption == RamRegions \cap ExitRegions = {}
ASSUME SizeAssumption == Size \in [RamRegions -> Addr]
ASSUME MapAssumption ==
    MapBases \subseteq Addr /\ MapSizes \in [Region -> SUBSET Addr]
ASSUME WidthAssumption == Widths \subseteq Nat \ {0}
ASSUME WriteAssumption ==
    DOMAIN WriteVals = Widths /\ \A w \in Widths : WriteVals[w] \subseteq Value(w)
ASSUME MaxMappingsAssumption == MaxMappings \in Nat

VARIABLES
    mappings,   \* mappings_: the table, a vector
    bytes,      \* bytes_ of every RamRegion
    signal,     \* the codes on_exit_ was called with by the last operation
    result      \* what the last operation returned to its caller

vars == <<mappings, bytes, signal, result>>

NoSignal == {}

Init ==
    /\ mappings = <<>>
    /\ bytes = [r \in RamRegions |-> [o \in 0 .. Size[r] - 1 |-> 0]]
    /\ signal = NoSignal
    /\ result = Done

-----------------------------------------------------------------------------
(***************************************************************************)
(* k is the index upper_bound(mappings_, address, {}, &Mapping::base)      *)
(* returns: the first entry whose base is above address.  The library      *)
(* requires the table to be sorted (MappingsSound).                        *)
(***************************************************************************)
UpperBound(k, address) ==
    /\ k \in 1 .. Len(mappings) + 1
    /\ \A i \in 1 .. Len(mappings) : i < k <=> mappings[i].base <= address

Slip_EndIncluded(address) ==
    {m \in {mappings[i] : i \in 1 .. Len(mappings)} :
        \E k \in 2 .. Len(mappings) + 1 :
            UpperBound(k, address) /\ m = mappings[k - 1] /\ address <= m.end}

\* resolve(): the mapping that serves the address, as a set of at most one.
Resolve(address) ==
    {m \in {mappings[i] : i \in 1 .. Len(mappings)} :
        \E k \in 2 .. Len(mappings) + 1 :
            UpperBound(k, address) /\ m = mappings[k - 1] /\ address < m.end}

Serving(address) == CHOOSE m \in Resolve(address) : TRUE

Slip_NoRebase(m, offset) == offset

\* Region errors carry offsets; the bus makes them absolute.
Rebase(m, offset) == (m.base + offset) % AddrSpace

\* The region's own answer to an access of w bytes at address: the error it
\* reports, or nothing.
Refused(m, address, w, write) ==
    LET offset == address - m.base
    IN  IF m.region \in RamRegions
        THEN IF OutOfBounds(Size[m.region], offset, w)
             THEN {Err("kOutOfBounds",
                       Rebase(m, FirstOutOfBounds(Size[m.region], offset)))}
             ELSE {}
        ELSE IF write /\ ExitAccepts(offset, w)
             THEN {}
             ELSE {Err("kOutOfBounds", Rebase(m, offset))}

\* The errors read_uN / write_uN return: none or one.
Errors(address, w, write) ==
    IF Resolve(address) = {}
    THEN {Err(IF write THEN "kUnmappedWrite" ELSE "kUnmappedRead", address)}
    ELSE Refused(Serving(address), address, w, write)

ReadResult(address, w) ==
    LET m == Serving(address)
    IN  IF Errors(address, w, FALSE) # {}
        THEN CHOOSE e \in Errors(address, w, FALSE) : TRUE
        ELSE Ok(GetLe(bytes[m.region], address - m.base, w))

-----------------------------------------------------------------------------
\* base + size at 64 bits; an end of exactly 2^64 wraps to 0 and is refused.
Wraps(base, size) == (base + size) % AddrSpace < base

Invalid(base, size) == size = 0 \/ Wraps(base, size)

Slip_PredecessorOnly(k, base, size) ==
    IF k > 1 /\ mappings[k - 1].end > base THEN {base} ELSE {}

\* The two overlap checks around the insertion point, with the base each
\* reports: the new mapping's own, or the one of the entry it runs into.
Clash(k, base, size) ==
    IF k > 1 /\ mappings[k - 1].end > base THEN {base}
    ELSE IF k <= Len(mappings) /\ mappings[k].base < base + size
         THEN {mappings[k].base}
         ELSE {}

Slip_PushBack(k, m) == Append(mappings, m)

\* mappings_.insert(it, m).
Insert(k, m) ==
    [i \in 1 .. Len(mappings) + 1 |->
        IF i < k THEN mappings[i] ELSE IF i = k THEN m ELSE mappings[i - 1]]

\* map(base, size, region).
Map(base, size, region) ==
    /\ Len(mappings) < MaxMappings
    /\ \/ /\ Invalid(base, size)
          /\ result' = Err("kInvalidMapping", base)
          /\ UNCHANGED mappings
       \/ /\ ~Invalid(base, size)
          /\ \E k \in 1 .. Len(mappings) + 1 :
                /\ UpperBound(k, base)
                /\ \/ \E a \in Clash(k, base, size) :
                         /\ result' = Err("kOverlap", a)
                         /\ UNCHANGED mappings
                   \/ /\ Clash(k, base, size) = {}
                      /\ mappings' = Insert(k, [base |-> base, end |-> base + size,
                                                region |-> region])
                      /\ result' = Done
    /\ signal' = NoSignal
    /\ UNCHANGED bytes

\* read_u8 .. read_u64.
Read(address, w) ==
    /\ result' = ReadResult(address, w)
    /\ signal' = NoSignal
    /\ UNCHANGED <<mappings, bytes>>

Slip_HalfWrite(address, w, v) ==
    IF Resolve(address) # {} /\ Serving(address).region \in RamRegions
    THEN LET m == Serving(address)
         IN  [bytes EXCEPT ![m.region] = PutLe(@, address - m.base, w, v)]
    ELSE bytes

\* What a write of v does to the memory behind the bus.
Stored(address, w, v) ==
    IF Errors(address, w, TRUE) = {} /\ Serving(address).region \in RamRegions
    THEN LET m == Serving(address)
         IN  [bytes EXCEPT ![m.region] = PutLe(@, address - m.base, w, v)]
    ELSE bytes

\* What a write of v makes the sink of the exit register receive.
Signalled(address, w, v) ==
    IF Errors(address, w, TRUE) = {} /\ Serving(address).region \in ExitRegions
    THEN {ExitCode(v)}
    ELSE NoSignal

WriteResult(address, w) ==
    IF Errors(address, w, TRUE) = {} THEN Done
    ELSE CHOOSE e \in Errors(address, w, TRUE) : TRUE

\* write_u8 .. write_u64.
Write(address, w, v) ==
    /\ bytes' = Stored(address, w, v)
    /\ signal' = Signalled(address, w, v)
    /\ result' = WriteResult(address, w)
    /\ UNCHANGED mappings

Next ==
    \/ \E r \in Region, base \in MapBases : \E size \in MapSizes[r] : Map(base, size, r)
    \/ \E address \in Addr, w \in Widths : Read(address, w)
    \/ \E address \in Addr, w \in Widths : \E v \in WriteVals[w] : Write(address, w, v)

Spec == Init /\ [][Next]_vars

-----------------------------------------------------------------------------
(* Properties.                                                             *)

Mapping == [base : Addr, end : Addr, region : Region]
Covers(m, address) == m.base <= address /\ address < m.end
Entries == {mappings[i] : i \in 1 .. Len(mappings)}

TypeOK ==
    /\ mappings \in Seq(Mapping)
    /\ Len(mappings) <= MaxMappings
    /\ DOMAIN bytes = RamRegions
    /\ \A r \in RamRegions : bytes[r] \in [0 .. Size[r] - 1 -> Byte]

\* The comment on mappings_ (bus.hpp 126), "sorted by base, non-overlapping",
\* which both binary searches rely on: entries in order, none empty, none
\* reaching into the next, whatever order map() was called in.
MappingsSound ==
    /\ \A i \in 1 .. Len(mappings) : mappings[i].base < mappings[i].end
    /\ \A i, j \in 1 .. Len(mappings) :
          i < j => mappings[i].end <= mappings[j].base

\* resolve() finds the mapping of every covered address, and none for others.
ResolveAgrees ==
    \A address \in Addr :
        Resolve(address) = {m \in Entries : Covers(m, address)}

\* map() accepts a range exactly when it is not empty, ends below 2^64 and
\* shares no address with a mapping, although it looks at two entries only;
\* a refused call leaves the table alone, an accepted one adds one entry.
MapVerdict ==
    [][\A r \in Region, base \in MapBases : \A size \in MapSizes[r] :
         Map(base, size, r) =>
            LET free == \A a \in base .. base + size - 1 :
                           a + 1 < AddrSpace /\ \A m \in Entries : ~Covers(m, a)
                m    == [base |-> base, end |-> base + size, region |-> r]
            IN  IF size > 0 /\ free
                THEN result'.ok /\ Entries' = Entries \cup {m} /\ m \notin Entries
                ELSE ~result'.ok /\ mappings' = mappings]_vars

\* "Errors that escape to the caller carry absolute guest addresses"
\* (bus_error.hpp 16): the address of a failed access is one of its bytes.
ErrorInAccess ==
    \A address \in Addr, w \in Widths, write \in BOOLEAN :
        \A e \in Errors(address, w, write) :
            \E i \in 0 .. w - 1 : e.address = (address + i) % AddrSpace

\* A read succeeds exactly when all its bytes lie in one mapping and in the
\* RAM behind it: an access across two adjacent mappings fails as a whole even
\* where a byte-wise one would not.
AccessExact ==
    \A address \in Addr, w \in Widths :
        Errors(address, w, FALSE) = {} <=>
            \E m \in Entries :
                /\ m.region \in RamRegions
                /\ \A i \in 0 .. w - 1 :
                      Covers(m, address + i) /\ address + i < m.base + Size[m.region]

-----------------------------------------------------------------------------
(* The address space the masters of the bus see (AddressSpace).            *)

Cells == UNION {{<<r, o>> : o \in 0 .. Size[r] - 1} : r \in RamRegions}
Attached == {a \in Addr : \E m \in Entries : Covers(m, a)}
CellOf(a) == LET m == CHOOSE x \in Entries : Covers(x, a)
             IN  <<m.region, a - m.base>>

Flat == INSTANCE AddressSpace WITH
    Addresses    <- Addr,
    MemCells     <- Cells,
    PortCells    <- {<<r, 0>> : r \in ExitRegions},
    OtherCells   <- Region \X Addr,
    AccessWidths <- Widths,
    view         <- [a \in Attached |-> CellOf(a)],
    store        <- [c \in Cells |-> bytes[c[1]][c[2]]],
    reply        <- IF result.ok THEN result ELSE [ok |-> FALSE]

\* The bus implements one flat address space: map() never changes what an
\* attached address means, and loads and stores go to the cells of their own
\* addresses, little-endian, all or nothing, aliases included.
ImplementsAddressSpace == Flat!SpaceSpec
=============================================================================
