------------------------------- MODULE Decoder -------------------------------
(***************************************************************************)
(* The instruction decoder (arch/x86_64/decoder.cpp, internal.hpp and      *)
(* resolve_rm of tables.cpp), given its bytes one at a time.               *)
(*                                                                         *)
(* Decode(s) is decode_one() over the bytes s.  Each operator below is one *)
(* stage: it looks at the bytes behind its position and either gives the   *)
(* verdict or passes the instruction, as far as it is known, to the next.  *)
(* decode_one() keeps nothing between calls, so what it says of any window *)
(* into an instruction stream is what it says of a prefix of the stream:   *)
(* Arrive is the same question with one byte more.  The processor core     *)
(* asks with the longest window memory allows, of 15 bytes or fewer.       *)
(*                                                                         *)
(* Register numbers and the values of displacements and immediates are     *)
(* left out; their number of bytes is not.  A truncation also names the    *)
(* byte it misses, which the code's error does not, so that a run can      *)
(* choose that byte.                                                       *)
(***************************************************************************)
EXTENDS Opcodes

CONSTANTS
    LengthVals,     \* DecodedInsn::length is modulo this (2^8 in the code)
    Window,         \* bound: bytes a caller can hold (15 in the processor)
    MaxPrefixes,    \* bound: prefix bytes of an instruction
    Trailing,       \* bound: bytes after the one that settles the verdict
    Inputs          \* the bytes to try, by the byte that is missing

ASSUME DecoderAssumption ==
    /\ LengthVals \in Nat \ {0}
    /\ Window \in Nat /\ MaxPrefixes \in Nat /\ Trailing \in Nat
    /\ Inputs \in [{"opcode", "opcode2", "opcode3", "modrm", "sib", "disp", "imm", "after"}
                       -> SUBSET (0 .. 255)]

VARIABLES
    bytes,          \* the bytes so far
    result,         \* what decode_one() says of them
    late            \* bytes that came after the verdict

vars == <<bytes, result, late>>

-----------------------------------------------------------------------------
Truncated(pos, want) == [kind |-> "kTruncated", offset |-> pos, want |-> want]
Error(kind, offset) == [kind |-> kind, offset |-> offset]

RexBytes == \h40 .. \h4F
SegBytes == {\h26, \h2E, \h36, \h3E, \h64, \h65}
PrefixBytes == {\h66, \hF0, \hF2, \hF3} \cup SegBytes \cup RexBytes

\* Where the loop of parse_prefixes() leaves the cursor.
PrefixEnd(s) ==
    CHOOSE n \in 0 .. Len(s) :
        /\ \A i \in 1 .. n : s[i] \in PrefixBytes
        /\ n < Len(s) => s[n + 1] \notin PrefixBytes

\* Of the prefixes q, the last one of a class counts.
Seen(q, class) == \E i \in DOMAIN q : q[i] \in class
Latest(q, class) ==
    IF Seen(q, class)
    THEN q[CHOOSE i \in DOMAIN q : q[i] \in class /\ \A j \in i + 1 .. Len(q) : q[j] \notin class]
    ELSE 0

\* Pfx.  rep and seg are the prefix byte, 0 for kNone.
Prefixes(q) ==
    LET rex == Latest(q, RexBytes)
    IN  [lock |-> Seen(q, {\hF0}), opsz66 |-> Seen(q, {\h66}),
         rep |-> Latest(q, {\hF2, \hF3}), seg |-> Latest(q, SegBytes),
         w |-> (rex \div 8) % 2 = 1, r |-> (rex \div 4) % 2 = 1]

-----------------------------------------------------------------------------
(* ModRM fields and slots.                                                 *)

Mod(m) == m \div 64
Reg(m) == (m \div 8) % 8
Rm(m) == m % 8

GprRmSlots == {"kRm", "kRm8", "kRm16", "kRm32", "kRm32S", "kRm64f"}
XmmRmSlots == {"kXRm", "kXRm32", "kXRm64"}
RmSlots == GprRmSlots \cup XmmRmSlots
RegSlots == {"kReg", "kXReg", "kSreg", "kCr", "kDr"}
SlotsOf(ent) == {ent.slots[i] : i \in DOMAIN ent.slots}

SlotWidth(slot, opsize) ==
    CASE slot \in {"kRm", "kReg", "kOpr", "kMem", "kAcc"} -> opsize
      [] slot \in {"kRm8", "kCl", "kOne"} -> 1
      [] slot \in {"kRm16", "kDx", "kSreg"} -> 2
      [] slot \in {"kRm32", "kXRm32", "kRm32S"} -> 4
      [] slot \in {"kXReg", "kXRm"} -> 16
      [] slot \in {"kXRm64", "kCr", "kDr", "kRm64f"} -> 8
      [] OTHER -> 0

Moffs(c) == ~c.esc /\ c.op \in \hA0 .. \hA3
WantsModrm(c) ==
    \/ c.ent.grp # "none"
    \/ SlotsOf(c.ent) \cap (RmSlots \cup RegSlots) # {}
    \/ c.ent.slots # <<>> /\ c.ent.slots[1] = "kMem" /\ ~Moffs(c) /\ ~c.esc

-----------------------------------------------------------------------------
(* The trailing immediate.                                                 *)

MovImmediate(c) == ~c.esc /\ c.op \in \hB8 .. \hBF

ImmSize(c) ==
    LET k == c.ent.imm
    IN  CASE k \in {"k8", "k8S"} -> 1
          [] k = "k16" -> 2
          [] k = "k32S" -> 4
          [] k = "k64" -> 8
          [] k = "kSz4" /\ MovImmediate(c) ->
                 IF c.pfx.w THEN 8 ELSE IF c.pfx.opsz66 THEN 2 ELSE 4
          [] k = "kSz4" /\ ~MovImmediate(c) -> IF c.opsize < 4 THEN c.opsize ELSE 4
          [] OTHER -> 0

Slip_ZeroExtends(c) == c.ent.imm \in {"k8S", "k32S"}
SignExtends(c) ==
    \/ c.ent.imm \in {"k8S", "k32S"}
    \/ c.ent.imm = "kSz4" /\ ~MovImmediate(c) /\ ImmSize(c) = 4 /\ c.opsize = 8

\* One operand as the loop over the slots leaves it.
None == [kind |-> "none", size |-> 0]
Slot(c, slot) ==
    LET form(bank) == IF Mod(c.modrm) = 3 THEN bank ELSE "mem"
        kind == CASE slot \in GprRmSlots -> form("gpr")
                  [] slot \in XmmRmSlots -> form("xmm")
                  [] slot = "kMem" -> "mem"
                  [] slot \in {"kReg", "kOpr"} -> "gpr"
                  [] slot = "kXReg" -> "xmm"
                  [] slot \in {"kSreg", "kCr", "kDr"} -> "system"
                  [] slot \in {"kAcc", "kCl", "kDx"} -> "implicit"
                  [] slot = "kOne" -> "imm"
                  [] OTHER -> "none"
        segmov == c.ent.mn = "mov" /\ "kSreg" \in SlotsOf(c.ent)
        size == CASE slot = "kOne" -> 0
                  [] segmov /\ kind = "gpr" -> 4
                  [] segmov /\ kind = "mem" -> 2
                  [] OTHER -> SlotWidth(slot, c.opsize)
    IN  [kind |-> kind, size |-> size]

Operands(c) ==
    LET plain(i) == IF i \in DOMAIN c.ent.slots THEN Slot(c, c.ent.slots[i]) ELSE None
    IN  [i \in 1 .. 3 |->
            IF i = c.ent.islot /\ plain(i).kind # "mem"
            THEN [kind |-> "imm", size |-> ImmSize(c)]
            ELSE plain(i)]

Done(c, pos) ==
    [kind |-> "kDecoded", length |-> pos % LengthVals, mn |-> c.ent.mn,
     opsize |-> c.opsize, ops |-> Operands(c), sext |-> SignExtends(c),
     rep |-> c.pfx.rep, seg |-> c.pfx.seg, lock |-> c.pfx.lock]

Slip_Unchecked(s, pos, c) == Done(c, pos + ImmSize(c))
Immediate(s, pos, c) ==
    IF pos + ImmSize(c) > Len(s) THEN Truncated(pos, "imm") ELSE Done(c, pos + ImmSize(c))

-----------------------------------------------------------------------------
(* Operand assembly.  An entry has at most one slot that consumes bytes.   *)

Slip_OffsetBehind(s, pos, off, c) ==
    IF "kMem" \in SlotsOf(c.ent) /\ c.have /\ Mod(c.modrm) = 3 THEN Error("kBadModrm", pos)
    ELSE Immediate(s, pos, c)
Assembled(s, pos, off, c) ==
    IF "kMem" \in SlotsOf(c.ent) /\ c.have /\ Mod(c.modrm) = 3 THEN Error("kBadModrm", pos - 1)
    ELSE IF "kSreg" \in SlotsOf(c.ent) /\ Reg(c.modrm) > 5 THEN Error("kUnsupportedOpcode", off)
    ELSE Immediate(s, pos, c)

Slip_NoSibBase(m, base) ==
    CASE Mod(m) = 1 -> 1
      [] Mod(m) = 2 \/ (Mod(m) = 0 /\ Rm(m) = 5) -> 4
      [] OTHER -> 0
DispSize(m, base) ==
    CASE Mod(m) = 1 -> 1
      [] Mod(m) = 2 \/ (Mod(m) = 0 /\ base = 5) -> 4
      [] OTHER -> 0

\* base is the r/m field, or the base field of the SIB byte.
Displaced(s, pos, off, c, base) ==
    LET n == DispSize(c.modrm, base)
    IN  IF pos + n > Len(s) THEN Truncated(pos, "disp") ELSE Assembled(s, pos + n, off, c)

\* The slots in order; resolve_rm() for the one that is r/m.
InMemory(c) ==
    c.have /\ Mod(c.modrm) # 3 /\ SlotsOf(c.ent) \cap (RmSlots \cup {"kMem"}) # {}
ToSreg(c) == c.ent.slots # <<>> /\ c.ent.slots[1] = "kSreg"

Assemble(s, pos, off, c) ==
    IF ToSreg(c) /\ Reg(c.modrm) > 5 THEN Error("kUnsupportedOpcode", off)
    ELSE IF ~InMemory(c) THEN Assembled(s, pos, off, c)
    ELSE IF Rm(c.modrm) # 4 THEN Displaced(s, pos, off, c, Rm(c.modrm))
    ELSE IF pos + 1 > Len(s) THEN Truncated(pos, "sib")
    ELSE Displaced(s, pos + 1, off, c, s[pos + 1] % 8)

-----------------------------------------------------------------------------
(* The ModRM byte and the groups that its reg field selects from.          *)

\* cr_dr_ok() over the number with REX.R.
SystemRegister(c, m) ==
    LET code == Reg(m) + (IF c.pfx.r THEN 8 ELSE 0)
    IN  Mod(m) = 3 /\ code \in IF "kCr" \in SlotsOf(c.ent) THEN {0, 2, 3, 4} ELSE (0 .. 3) \cup {6, 7}

\* Encodings refused although their opcode has an entry.
Rejected(c, m) ==
    \/ c.ent.grp = "kGrp2" /\ Reg(m) = 6
    \/ c.ent.grp = "kGrp4" /\ Reg(m) > 1
    \/ c.ent.grp = "kGrp5" /\ Reg(m) \in {3, 5, 7}
    \/ c.ent.grp = "kGrp6" /\ Reg(m) > 3 /\ ~(Reg(m) = 7 /\ (Mod(m) # 3 \/ Rm(m) = 0))
    \/ c.ent.grp = "kGrp8" /\ Reg(m) < 3
    \/ c.ent.grp = "kGrp9" /\ (Reg(m) # 6 \/ Mod(m) # 3)
    \/ c.ent.grp = "kGrpPs" /\ (Mod(m) # 3 \/ Reg(m) \notin {2, 6})
    \/ c.ent.grp = "kGrpAe" /\ Reg(m) \notin IF Mod(m) = 3 THEN 5 .. 7 ELSE 0 .. 1
    \/ c.ent.mn = "endbr64" /\ m # \hFA
    \/ {"kCr", "kDr"} \cap SlotsOf(c.ent) # {} /\ ~SystemRegister(c, m)

\* The entry as the group's case rewrites it.
Regrouped(c, m) ==
    LET ent == c.ent
        grp == ent.grp
    IN  CASE grp = "kGrp3" /\ Reg(m) <= 1 ->
                 [ent EXCEPT !.mn = "test", !.islot = 2,
                             !.imm = IF c.opsize = 1 THEN "k8" ELSE "kSz4"]
          [] grp = "kGrp5" ->
                 [ent EXCEPT !.mn = IF Reg(m) <= 1 THEN "incdec"
                                    ELSE IF Reg(m) = 6 THEN "push" ELSE "branch"]
          [] grp = "kGrp6" /\ Reg(m) = 7 /\ Mod(m) = 3 -> [ent EXCEPT !.mn = "swapgs", !.slots = <<>>]
          [] grp = "kGrp6" /\ Reg(m) = 7 /\ Mod(m) # 3 ->
                 [ent EXCEPT !.mn = "invlpg", !.slots = <<"kRm8">>]
          [] grp = "kGrp9" -> [ent EXCEPT !.slots = <<"kRm">>]
          [] grp = "kGrpPs" -> [ent EXCEPT !.slots = <<"kXRm">>]
          [] grp = "kGrpAe" /\ Mod(m) = 3 -> [ent EXCEPT !.slots = <<>>]
          [] ent.mn = "endbr64" -> [ent EXCEPT !.slots = <<>>]
          [] OTHER -> ent

\* call, jmp and push of group 5 are 64 bits wide.
GroupOpsize(c, m) == IF c.ent.grp = "kGrp5" /\ Reg(m) > 1 THEN 8 ELSE c.opsize

WithModrm(c, m) ==
    [esc |-> c.esc, op |-> c.op, pfx |-> c.pfx, ent |-> Regrouped(c, m),
     opsize |-> GroupOpsize(c, m), have |-> TRUE, modrm |-> m]

Modrm(s, pos, off, c) ==
    IF ~WantsModrm(c) THEN Assemble(s, pos, off, c)
    ELSE IF pos + 1 > Len(s) THEN Truncated(pos, "modrm")
    ELSE LET m == s[pos + 1]
         IN  IF Rejected(c, m) THEN Error("kUnsupportedOpcode", off)
             ELSE IF c.ent.mn = "lea" /\ Mod(m) = 3 THEN Error("kBadModrm", pos)
             ELSE Assemble(s, pos + 1, off, WithModrm(c, m))

-----------------------------------------------------------------------------
(* Opcode selection.                                                       *)

Opsize(sz, p) ==
    CASE sz = "kB" -> 1
      [] sz = "kV" -> 16
      [] sz = "kQ" \/ (sz \in {"kD", "kP"} /\ p.w) -> 8
      [] sz \in {"kD", "kP"} /\ ~p.w /\ p.opsz66 -> 2
      [] sz = "kP" /\ ~p.w /\ ~p.opsz66 -> 8
      [] OTHER -> 4

\* What finalize_mnemonic() does to the operands: 66 REX.W 0F 6E and 7E are
\* movq, between the full register or eight bytes of memory and an xmm.
Finalized(esc, p, ent) ==
    IF esc /\ p.w /\ ent.mn = "movd"
    THEN [ent EXCEPT !.mn = "movq", !.sz = "kQ",
                     !.slots = IF ent.slots[1] = "kXReg" THEN <<"kXReg", "kRm64f">>
                               ELSE <<"kRm64f", "kXReg">>]
    ELSE ent

Selected(esc, op, p, ent) ==
    LET final == Finalized(esc, p, ent)
    IN  [esc |-> esc, op |-> op, pfx |-> p, ent |-> final, opsize |-> Opsize(final.sz, p),
         have |-> FALSE, modrm |-> 0]

\* A repeat prefix is dropped outside A4 to AF.
OneByte(op, p) ==
    LET pause == op = \h90 /\ p.rep = \hF3
        q == IF op \in \hA4 .. \hAF THEN p ELSE [p EXCEPT !.rep = 0]
    IN  Selected(FALSE, op, q, IF pause THEN Plain("pause") ELSE PrimaryTable[op])

\* A mandatory prefix is consumed by the entry it selects; F2 selects none.
TwoByte(op, p) ==
    CASE p.rep = \hF3 /\ P3Table[op] # Invalid ->
             Selected(TRUE, op, [p EXCEPT !.rep = 0], P3Table[op])
      [] p.rep = 0 /\ p.opsz66 /\ P66Table[op] # Invalid ->
             Selected(TRUE, op, [p EXCEPT !.opsz66 = FALSE], P66Table[op])
      [] OTHER -> Selected(TRUE, op, [p EXCEPT !.rep = 0], NoneTable[op])

ThreeByte(esc, op, p) ==
    Selected(TRUE, esc, [p EXCEPT !.opsz66 = FALSE],
             IF esc = \h38 /\ p.opsz66 /\ p.rep = 0 THEN Esc38Table[op] ELSE Invalid)

Chosen(s, pos, off, c) ==
    IF c.ent.mn = "invalid" THEN Error("kUnsupportedOpcode", off) ELSE Modrm(s, pos, off, c)

Opcode(s, n, p) ==
    LET op == s[n + 1]
        esc == s[n + 2]
    IN  IF op # \h0F THEN Chosen(s, n + 1, n, OneByte(op, p))
        ELSE IF n + 2 > Len(s) THEN Truncated(n + 1, "opcode2")
        ELSE IF esc \notin {\h38, \h3A} THEN Chosen(s, n + 2, n, TwoByte(esc, p))
        ELSE IF n + 3 > Len(s) THEN Truncated(n + 2, "opcode3")
        ELSE Chosen(s, n + 3, n, ThreeByte(esc, s[n + 3], p))

\* decode_one().  67 asks for 16-bit addressing, which is refused.
Decode(s) ==
    LET n == PrefixEnd(s)
    IN  IF n = Len(s) THEN Truncated(n, "opcode")
        ELSE IF s[n + 1] = \h67 THEN Error("kBadPrefix", n)
        ELSE Opcode(s, n, Prefixes(SubSeq(s, 1, n)))

-----------------------------------------------------------------------------
Undecided == result.kind = "kTruncated"

Init ==
    /\ bytes = <<>>
    /\ result = Decode(<<>>)
    /\ late = 0

\* decode_one() with a window that has one byte more of the instruction.
Arrive(b) ==
    /\ Undecided
    /\ Len(bytes) < Window
    /\ b \in PrefixBytes /\ result.want = "opcode" => Len(bytes) < MaxPrefixes
    /\ bytes' = Append(bytes, b)
    /\ result' = Decode(bytes')
    /\ UNCHANGED late

\* ... and with one that holds bytes of what follows it.
Overrun(b) ==
    /\ ~Undecided
    /\ late < Trailing
    /\ Len(bytes) < Window
    /\ bytes' = Append(bytes, b)
    /\ result' = Decode(bytes')
    /\ late' = late + 1

Next ==
    \/ \E b \in 0 .. 255 : Undecided /\ b \in Inputs[result.want] /\ Arrive(b)
    \/ \E b \in Inputs["after"] : Overrun(b)

Spec == Init /\ [][Next]_vars

-----------------------------------------------------------------------------
(* Properties.                                                             *)

\* An error is at a byte of the input, or right behind it when that is what
\* is missing (DecodeError::offset, decode_error.hpp), and is of a kind the
\* stage can give.
TypeOK ==
    /\ bytes \in Seq(0 .. 255) /\ Len(bytes) <= Window
    /\ late \in 0 .. Trailing
    /\ result.kind \in {"kDecoded", "kTruncated", "kBadPrefix", "kBadModrm", "kUnsupportedOpcode"}
    /\ IF result.kind = "kDecoded" THEN result.length \in 0 .. LengthVals - 1
       ELSE result.offset \in 0 .. Len(bytes) - (IF Undecided THEN 0 ELSE 1)

\* The processor decodes the window memory allows and takes what decode_one()
\* says of it: so an answer must not depend on bytes behind the instruction,
\* none may be given before its last byte, and the length is exactly what was
\* read.
Stream == INSTANCE InsnStream WITH
    seen <- Len(bytes),
    verdict <- IF Undecided THEN [kind |-> "kTruncated"] ELSE result
ImplementsStream == Stream!Spec

-----------------------------------------------------------------------------
(* The length of an instruction by the opcode map of the architecture,     *)
(* which knows nothing of slots and groups.                                *)

Tops(lows) == {16 * f + low : f \in 0 .. 3, low \in lows}

\* One-byte opcodes with a ModRM byte, and two-byte opcodes without one.
MapModrm == Tops((0 .. 3) \cup (8 .. 11)) \cup {\h63, \h69, \h6B, \hC0, \hC1, \hC6, \hC7}
    \cup (\h80 .. \h8F) \cup (\hD0 .. \hD3) \cup {\hF6, \hF7, \hFE, \hFF}
MapNoModrm == {\h05, \h07, \hA0, \hA1, \hA2, \hA8, \hA9} \cup (\h30 .. \h32)
    \cup (\h80 .. \h8F) \cup (\hC8 .. \hCF)

\* Immediates: one byte; as the operand but at most four; and the odd ones.
MapByte == Tops({4, 12}) \cup (\h70 .. \h7F) \cup (\hB0 .. \hB7) \cup (\hE0 .. \hE7)
    \cup {\h6A, \h6B, \h80, \h83, \hA8, \hC0, \hC1, \hC6, \hEB}
MapFull == Tops({5, 13}) \cup {\h68, \h69, \h81, \hA9, \hC7}
MapEscByte == (\h70 .. \h73) \cup {\hA4, \hAC, \hBA}

ArchImmediate(op, w, opsz66, reg) ==
    LET word(wide) == IF w THEN wide ELSE IF opsz66 THEN 2 ELSE 4
    IN  CASE op \in MapByte \/ (op = \hF6 /\ reg < 2) -> 1
          [] op \in MapFull \/ (op = \hF7 /\ reg < 2) -> word(4)
          [] op \in \hB8 .. \hBF -> word(8)
          [] op \in \hA0 .. \hA3 -> 8
          [] op = \hC2 -> 2
          [] op \in {\hE8, \hE9} -> 4
          [] OTHER -> 0

\* The bytes from the ModRM byte at position i to the displacement.
ArchModrm(s, i) ==
    LET sib == Rm(s[i]) = 4 /\ Mod(s[i]) # 3
        base == IF sib THEN s[i + 1] % 8 ELSE Rm(s[i])
    IN  1 + (IF sib THEN 1 ELSE 0)
          + (CASE Mod(s[i]) = 3 -> 0
               [] Mod(s[i]) = 1 -> 1
               [] Mod(s[i]) = 2 \/ (Mod(s[i]) = 0 /\ base = 5) -> 4
               [] OTHER -> 0)

\* An instruction with n prefix bytes.
MapLength(s, n, w, opsz66) ==
    CASE s[n + 1] # \h0F ->
             n + 1 + (IF s[n + 1] \in MapModrm THEN ArchModrm(s, n + 2) ELSE 0)
                   + ArchImmediate(s[n + 1], w, opsz66,
                                   IF n + 2 > Len(s) THEN 0 ELSE Reg(s[n + 2]))
      [] s[n + 1] = \h0F /\ s[n + 2] # \h38 ->
             n + 2 + (IF s[n + 2] \in MapNoModrm THEN 0 ELSE ArchModrm(s, n + 3))
                   + (IF s[n + 2] \in MapEscByte THEN 1
                      ELSE IF s[n + 2] \in \h80 .. \h8F THEN 4 ELSE 0)
      [] OTHER -> n + 3 + ArchModrm(s, n + 4)

\* The architecture's prefixes, and the first byte that is none of them.
LegacyPrefixes == {\h26, \h2E, \h36, \h3E, \h64, \h65, \h66, \h67, \hF0, \hF2, \hF3}
RexPrefixes == \h40 .. \h4F
OpcodeAt(s) ==
    CHOOSE i \in 1 .. Len(s) :
        /\ s[i] \notin LegacyPrefixes \cup RexPrefixes
        /\ \A j \in 1 .. i - 1 : s[j] \in LegacyPrefixes \cup RexPrefixes

\* REX.W selects 64 bits only when it stands directly before the opcode ...
RexW == \h48 .. \h4F
ArchW(s) == OpcodeAt(s) > 1 /\ s[OpcodeAt(s) - 1] \in RexW

\* ... and is ignored when legacy prefixes follow it: 48 66 B8.
MisplacedW(s) ==
    \E i \in 1 .. OpcodeAt(s) - 2 :
        /\ s[i] \in RexW
        /\ \A j \in i + 1 .. OpcodeAt(s) - 1 : s[j] \in LegacyPrefixes

ArchLength(s, w) ==
    LET n == OpcodeAt(s) - 1
    IN  MapLength(s, n, w, \E i \in 1 .. n : s[i] = \h66)

\* Every instruction the decoder accepts is as long as the architecture says,
\* whatever its other prefixes, addressing form and immediate, unless a legacy
\* prefix follows its REX.W.  The decoder then keeps the REX that the
\* architecture ignores ("SDM 2.2.1.2 words the precedence the other way.
\* Recorded divergence", test_decode.cpp 294), and the instruction is exactly
\* as long as with that REX in its place: 48 66 B8 has 11 bytes here and 5 in
\* the architecture.
LengthExact ==
    result.kind = "kDecoded" =>
        /\ ~MisplacedW(bytes) => result.length = ArchLength(bytes, ArchW(bytes)) % LengthVals
        /\ MisplacedW(bytes) => result.length = ArchLength(bytes, TRUE) % LengthVals

-----------------------------------------------------------------------------
(* What execute() takes for granted about the record it is given.          *)

\* Outside the executed subset: wide memory, banks without storage.
NotExecuted == {"sse", "movd", "movq", "grpAe", "rdrand", "in", "out"}

\* dispatch.cpp neither checks nor could survive these: an access is of 1, 2,
\* 4 or 8 bytes and an instruction has at most one; xchg and xadd
\* (dispatch.cpp 46, 337) write their second place after the first, so it
\* must not be able to fault, and cmpxchg reads it for the first; lea takes
\* the address of operand two; relative branches add an immediate that is
\* sign-extended; nothing is written to an immediate.
ContractKept ==
    result.kind = "kDecoded" /\ result.mn \notin NotExecuted =>
        LET op == result.ops
            memory == {i \in 1 .. 3 : op[i].kind = "mem"}
            kind == [i \in 1 .. 3 |-> op[i].kind]
        IN  /\ \A i \in memory : op[i].size \in {1, 2, 4, 8} /\ memory = {i}
            /\ result.mn \in {"xchg", "xadd", "cmpxchg"} =>
                   kind[2] \in {"gpr", "implicit"} /\ op[1].size = op[2].size
            /\ result.mn = "lea" => kind[2] = "mem"
            /\ result.mn \in {"jcc", "loop", "jmp", "call"} => kind[1] = "imm" /\ result.sext
            /\ result.mn \notin {"jcc", "loop", "jmp", "call", "push", "ret"} => kind[1] # "imm"
            /\ result.mn \in {"shift", "shld"} => kind[2] # "none"

\* An immediate that is an operand's value fills the operand, or is
\* sign-extended to do so (decoder.cpp 496): and or cmp of rax with 81 /r never
\* see a zero upper half that the guest did not ask for.
ImmediateFills ==
    result.kind = "kDecoded" /\ result.mn \in {"alu", "grp1", "test", "mov", "imul", "push"} =>
        \A i \in 1 .. 3 :
            result.ops[i].kind = "imm" =>
                result.sext \/ result.ops[i].size >= result.opsize
=============================================================================
