------------------------------- MODULE Regions -------------------------------
(***************************************************************************)
(* The regions behind the bus: plain RAM (ram_region.hpp, .cpp), the debug  *)
(* exit register (kernel/debug_exit.hpp), the little-endian byte chains    *)
(* they share (kernel/le_access.hpp) and the error channel of both         *)
(* (kernel/bus_error.hpp).  Operators only: the bus owns the state.        *)
(*                                                                         *)
(* A byte has ByteBits bits (8 in the code), and a value of w bytes is a   *)
(* number below Span(w), so the conversions between values and bytes are   *)
(* the ones the code does, at a smaller byte.                              *)
(***************************************************************************)
EXTENDS Naturals

CONSTANTS
    ByteBits,    \* how many bits a byte has
    AddrSpace    \* how many guest addresses and offsets there are (2^64)

ASSUME ByteAssumption == ByteBits \in Nat \ {0}
ASSUME AddrAssumption == AddrSpace \in Nat /\ AddrSpace >= 2

\* How many values fit w bytes.
Span(w) == 2 ^ (w * ByteBits)
Byte == 0 .. Span(1) - 1
Addr == 0 .. AddrSpace - 1
Value(w) == 0 .. Span(w) - 1

Ok(v) == [ok |-> TRUE, value |-> v]
Err(kind, address) == [ok |-> FALSE, kind |-> kind, address |-> address]
Done == Ok(0)    \* a write that succeeded returns nothing

-----------------------------------------------------------------------------
\* get_le16/32/64: least significant byte first.
GetLe(p, at, w) ==
    LET sum[i \in 0 .. w] ==
            IF i = 0 THEN 0 ELSE sum[i - 1] + p[at + i - 1] * Span(i - 1)
    IN  sum[w]

Slip_Unmasked(p, at, w, v) ==
    [o \in DOMAIN p |->
        IF o \in at .. at + w - 1 THEN v \div Span(o - at) ELSE p[o]]

\* put_le16/32/64.
PutLe(p, at, w, v) ==
    [o \in DOMAIN p |->
        IF o \in at .. at + w - 1 THEN (v \div Span(o - at)) % Span(1)
        ELSE p[o]]

Slip_WrappingBounds(size, offset, w) == (offset + w) % AddrSpace > size

\* RamRegion::first_out_of_bounds: "offset + width > size" without the
\* addition, which could wrap.
OutOfBounds(size, offset, w) == offset >= size \/ size - offset < w

FirstOutOfBounds(size, offset) == IF offset >= size THEN offset ELSE size

\* DebugExitRegion: only the 32-bit write to the register means anything, and
\* the sink gets (value << 1) | 1 at 32 bits.
ExitWidth == 4
ExitAccepts(offset, w) == offset = 0 /\ w = ExitWidth
ExitCode(v) == (2 * v + 1) % Span(ExitWidth)
=============================================================================
