-------------------------------- MODULE MCCpu --------------------------------
(* A small machine: one-bit bytes, so a word has 8 bits; eight bytes of code *)
(* at 0, sixteen of data and stack at 16, a debug exit register at 40.       *)
EXTENDS Cpu

CONSTANTS rom, ram, port

MCRam == {rom, ram}
MCExit == {port}
MCSize == [r \in MCRam |-> IF r = rom THEN 8 ELSE 16]
MCLayout == <<[base |-> 0, end |-> 8, region |-> rom],
              [base |-> 16, end |-> 32, region |-> ram],
              [base |-> 40, end |-> 44, region |-> port]>>

-----------------------------------------------------------------------------
(* Programs, one byte per instruction unless said otherwise.                *)

Operand(kind, r, d) == [kind |-> kind, reg |-> r, index |-> "none", scale |-> 1, disp |-> d]
None == Operand("none", "none", 0)
R(r) == Operand("reg", r, 0)
High(r) == Operand("high", r, 0)
I(v) == Operand("imm", "none", v)
Back(n) == I(256 - n)
At(base, d) == Operand("mem", base, d)
Scaled(base, i, n, d) == [At(base, d) EXCEPT !.index = i, !.scale = n]
FsGs == Operand("fsgs", "none", 20)
Bank == Operand("bank", "none", 0)

Two(op, w, a, b) ==
    [op |-> op, len |-> 1, w |-> w, from |-> w, a |-> a, b |-> b, rep |-> "none"]
From(op, w, a, b, from) == [Two(op, w, a, b) EXCEPT !.from = from]
One(op, a) == Two(op, 8, a, None)
Op(op) == One(op, None)
Str(op, w, rep) == [Two(op, w, None, None) EXCEPT !.rep = rep]
Set(r, v) == Two("mov", 8, R(r), I(v))
Program(is) == [a \in 0 .. Len(is) - 1 |-> is[a + 1]]

\* Copies over itself, upwards, then again with what is left of rcx.
Copy == Program(<<Set("rcx", 3), Set("rsi", 16), Set("rdi", 18),
                  Two("mov", 4, At("none", 16), I(11)),
                  Str("movs", 2, "rep"), Str("movs", 1, "rep"), One("jmp", Back(3))>>)
\* Copies downwards into the gap below the data: faults in the third iteration.
CopyDown == Program(<<Set("rcx", 4), Set("rsi", 28), Set("rdi", 20), Op("std"),
                      Str("movs", 2, "rep"), Op("hlt")>>)
\* The first iteration hits the debug exit register, the second nothing.
FillExit == Program(<<Set("rcx", 2), Set("rdi", 40), Set("rax", 5),
                      Str("stos", 4, "rep"), Op("hlt")>>)
Fill == Program(<<Set("rcx", 3), Set("rdi", 24), Set("rax", 255), Op("std"),
                  Str("stos", 4, "rep"), Str("stos", 1, "none"), Op("hlt")>>)
\* A string instruction whose callbacks come between its iterations; no instruction follows.
Short == Program(<<Set("rcx", 2), Str("lods", 1, "rep")>>)
Scan == Program(<<Set("rcx", 4), Set("rdi", 16), Two("mov", 1, At("none", 18), I(1)),
                  Str("scas", 1, "rep"), Op("cld"), Set("rax", 0),
                  Str("scas", 1, "repne"), One("je", Back(4))>>)
Match == Program(<<Set("rcx", 4), Set("rsi", 30), Set("rdi", 16),
                   Str("cmps", 1, "rep"), Str("lods", 1, "rep"), Str("lods", 4, "none"),
                   Op("hlt")>>)
Load4 == Program(<<Set("rcx", 2), Set("rsi", 16), Two("mov", 8, At("rsi", 2), I(165)),
                   Str("lods", 4, "rep"), Str("cmps", 1, "repne"), One("jne", Back(2))>>)
\* A frame is built, torn down and returned from.
Frames == Program(<<One("call", I(2)), One("pop", At("none", 16)), Op("hlt"),
                    One("push", R("rbp")), Two("mov", 8, R("rbp"), R("rsp")),
                    Op("leave"), One("ret", None)>>)
Deep == Program(<<One("call", Back(1))>>)
Indirect == Program(<<Set("rax", 4), One("push", R("rax")), One("call", At("rsp", 0)),
                      Op("outside"), One("pop", At("none", 40)), One("jmp", R("rax"))>>)
BadStack == Program(<<Set("rbp", 60), One("jrcxz", I(1)), Op("nop"), Op("leave")>>)
BadRet == Program(<<Set("rsp", 29), One("ret", I(8))>>)
Through == Program(<<One("jmp", At("none", 60))>>)
Through2 == Program(<<One("call", At("none", 28))>>)
PopGap == Program(<<Set("rsp", 16), One("pop", At("none", 36))>>)
PushGap == Program(<<One("push", At("none", 12))>>)
PushOff == Program(<<Set("rsp", 12), One("push", R("rax"))>>)
CallOff == Program(<<Set("rsp", 12), One("call", I(3))>>)
MovOff == Program(<<Two("mov", 8, R("rax"), At("none", 60))>>)
MovToOff == Program(<<Two("mov", 8, At("none", 60), R("rax"))>>)
MovToBank == Program(<<Two("mov", 8, Bank, R("rax"))>>)
ScasOff == Program(<<Str("scas", 1, "none"), Set("rdi", 60), Str("scas", 1, "none")>>)
CmpsOff == Program(<<Set("rsi", 60), Str("cmps", 1, "none")>>)
CmpsOff2 == Program(<<Set("rdi", 60), Str("cmps", 1, "none")>>)
LodsOff == Program(<<Set("rsi", 60), Str("lods", 1, "none")>>)
MovsOff == Program(<<Set("rsi", 60), Str("movs", 1, "none")>>)
StosOff == Program(<<Set("rdi", 60), Str("stos", 1, "none")>>)
PushPop == Program(<<Two("sub", 4, At("none", 16), I(0)), One("push", At("none", 16)),
                     One("pop", R("rcx")), One("push", I(9)), One("pop", At("rsp", 248)),
                     Op("hlt")>>)
\* push fs and pop fs: the decoder leaves them without an operand.
PushSeg == Program(<<One("push", None), One("pop", None), Op("hlt")>>)
Refused == Program(<<Op("outside")>>)
PopEnd == Program(<<Set("rsp", 30), One("pop", R("rax"))>>)
Loops == Program(<<Set("rcx", 2), Two("sub", 8, R("rax"), I(1)), One("loopne", Back(2)),
                   Two("cmp", 8, R("rcx"), R("rcx")), One("loope", Back(3)), One("loop", Back(1))>>)
SubGap == Program(<<Two("sub", 8, At("none", 24), At("none", 28)), Op("hlt")>>)
SubGap2 == Program(<<Two("sub", 8, At("none", 28), R("rax"))>>)
SubFs == Program(<<Two("mov", 8, R("rax"), At("rip", 15)), Two("sub", 4, At("none", 40), R("rax"))>>)
PutFs == Program(<<Two("mov", 8, FsGs, R("rax"))>>)
GetBank == Program(<<One("jmp", Bank)>>)
SignalThenHalt == Program(<<Two("mov", 4, At("none", 40), I(5)), Op("hlt")>>)
Halt == Program(<<Op("nop"), Op("hlt")>>)
Off == Program(<<Op("nop"), One("jmp", I(30))>>)
\* The last instruction of the code needs one byte more than there is.
Cut == [a \in {0, 7} |-> IF a = 7 THEN [Op("nop") EXCEPT !.len = 2] ELSE One("jmp", I(6))]
Write2 == Program(<<Set("rax", 1), Set("rsi", 16), Set("rdx", 2), Op("syscall"),
                    Set("rax", 60), Op("syscall")>>)
WriteOff == Program(<<Set("rax", 1), Set("rsi", 31), Set("rdx", 2), Op("syscall")>>)
ExitNow == Program(<<Set("rdi", 7), Set("rax", 60), Op("syscall")>>)
WriteExit == Program(<<Set("rax", 1), Op("syscall"), Set("rax", 60), Op("syscall")>>)
\* The two that write both operands, on memory and on one register twice.
Exchange == Program(<<Set("rax", 16), Two("xchg", 8, At("rax", 0), R("rax")),
                      Two("xadd", 4, At("none", 16), R("rax")), Two("xadd", 2, R("rcx"), R("rcx")),
                      Two("xchg", 2, R("rsp"), R("rcx")), Op("hlt")>>)
\* A lock is taken, and found taken.
Lock == Program(<<Set("rcx", 1), Two("cmpxchg", 4, At("none", 20), R("rcx")),
                  Two("cmpxchg", 4, At("none", 20), R("rcx")), One("jne", Back(2)),
                  Two("cmove", 8, R("rdx"), At("none", 60)), Op("hlt")>>)
Moves == Program(<<Two("cmpxchg", 8, R("rcx"), R("rsp")), Two("cmovne", 8, R("rsi"), At("none", 60)),
                   Two("cmove", 4, R("rsi"), At("none", 16)), Two("cmove", 8, R("rdi"), At("none", 60))>>)
\* Bits below and above the operand's address, and in a register.
Bits == Program(<<Set("rcx", 14), Two("bts", 4, At("none", 24), R("rcx")),
                  Two("bts", 8, R("rcx"), I(9)), Op("hlt")>>)
Bits2 == Program(<<Two("btc", 8, At("rsp", 18), R("rsp")), Two("btr", 4, At("none", 18), I(6)),
                   Two("bt", 8, Bank, R("rax"))>>)
XchgOff == Program(<<Two("xchg", 8, At("none", 28), R("rax"))>>)
XaddOff == Program(<<Two("xadd", 8, At("none", 28), R("rsp"))>>)
CmpxchgOff == Program(<<Two("cmpxchg", 8, At("none", 28), R("rax"))>>)
BitsOff == Program(<<Set("rax", 255), Two("bts", 8, At("none", 16), R("rax"))>>)
\* Read, computed and written back; shifted by nothing; bytes of a register.
Compute == Program(<<Two("mov", 4, At("none", 16), I(5)), Two("not", 2, At("none", 16), None),
                     Two("inc", 4, At("none", 16), None), Op("hlt")>>)
Shifts == Program(<<From("shl", 4, At("none", 16), R("rcx"), 1), Set("rcx", 3),
                    From("shr", 8, R("rcx"), R("rcx"), 1), Two("neg", 8, R("rcx"), None),
                    Two("dec", 1, High("rcx"), None)>>)
Addresses == Program(<<Set("rcx", 3), Two("lea", 8, R("rdx"), Scaled("rcx", "rcx", 4, 1)),
                       Two("lea", 4, R("rsi"), [FsGs EXCEPT !.reg = "rdx"]),
                       Two("sete", 1, Scaled("rdx", "rcx", 4, 0), None),
                       Two("setne", 1, At("none", 36), None)>>)
Widened == Program(<<Set("rcx", 13), From("movsx", 8, R("rax"), R("rcx"), 1),
                     Two("mul", 4, R("rcx"), None), From("movzx", 4, R("rax"), High("rax"), 1)>>)
Halves == Program(<<Set("rax", 3), Two("xchg", 1, High("rax"), R("rcx")),
                    Two("bsf", 8, R("rdx"), R("rax")), Two("bsf", 2, R("rsi"), R("rdi")),
                    Two("mul", 1, R("rax"), None)>>)
\* The quotient fits at first, and not when what is left is divided again.
Quotients == Program(<<Set("rax", 7), Set("rcx", 2), Two("div", 4, R("rcx"), None),
                       Two("div", 1, R("rdx"), None), Two("div", 8, R("rcx"), None)>>)
DivideZero == Program(<<Two("div", 8, At("none", 16), None)>>)
DivideOff == Program(<<Two("div", 8, At("none", 60), None)>>)
UnaryOff == Program(<<Two("inc", 8, At("none", 28), None)>>)
ShiftOff == Program(<<From("shl", 8, At("none", 28), I(1), 1)>>)
ScanOff == Program(<<Two("bsf", 8, R("rax"), At("none", 28))>>)
\* Under fs or gs, a bit and the source of a string instruction.
Segments == Program(<<Two("bts", 8, FsGs, I(0)), Op("hlt")>>)
Segments2 == Program(<<Set("rsi", 16), [Str("lods", 1, "none") EXCEPT !.b = FsGs]>>)
Spin == Program(<<Str("stos", 1, "rep"), One("jmp", Back(2))>>)

MCPrograms == {Copy, CopyDown, FillExit, Fill, Scan, Match, Load4, Frames, Deep,
    Indirect, BadStack, BadRet, Through, Through2, PopGap, PushGap, PopEnd, Loops,
    SubGap, SubGap2, SubFs, PutFs, GetBank, SignalThenHalt, Halt, Off, Cut, Write2,
    WriteOff, ExitNow, Spin, Short,
    PushOff, CallOff, MovOff, MovToOff, MovToBank, ScasOff, CmpsOff, CmpsOff2, LodsOff,
    MovsOff, StosOff, Refused, PushPop, PushSeg,
    Exchange, Lock, Moves, Bits, Bits2, XchgOff, XaddOff, CmpxchgOff, BitsOff,
    Compute, Shifts, Addresses, Widened, Halves, Quotients, DivideZero,
    DivideOff, UnaryOff, ShiftOff, ScanOff}
MCHaltPrograms == {Halt}
MCSurfacePrograms == {WriteExit}
MCSegmentPrograms == {Segments, Segments2}

MCExitWrite == {<<40, 4, 3>>}
MCHostGprs == {<<"rdx", 0>>}
=============================================================================
