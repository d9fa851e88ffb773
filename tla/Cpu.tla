--------------------------------- MODULE Cpu ---------------------------------
(***************************************************************************)
(* The interpreter core (arch/x86_64/cpu.cpp, with the operand helpers of  *)
(* execute.cpp and the control of dispatch.cpp), composed with the bus it  *)
(* fetches from and the scheduler it drives.                               *)
(*                                                                         *)
(* The program is single-threaded: a step() up to its first retire() is    *)
(* one action, and the points where other code runs are steps: the host    *)
(* between two calls, and the callbacks that dispatch() calls from every   *)
(* retire(), which for a repeated string instruction is in mid-instruction.*)
(*                                                                         *)
(* decode_one() has a module of its own, Decoder; here code says which     *)
(* instruction it finds at an address, the same on every visit: programs   *)
(* do not overwrite their code.  Of the flags, those that steer control    *)
(* are kept (zf, df).  An immediate is its value modulo the word, so a     *)
(* backward displacement is AddrSpace - n.                                 *)
(***************************************************************************)
EXTENDS Naturals, Sequences, FiniteSets

CONSTANTS
    ByteBits, AddrSpace,               \* see Regions
    RamRegions, ExitRegions, Size,     \* see Bus
    Layout,                            \* the table the machine was built with
    MaxTick, MaxEvents, Actions,       \* see Scheduler
    Programs,     \* what the guest memory decodes to: address -> instruction
    FetchMax,     \* size of fetch_buf_
    Entry, Stack, \* what reset() is called with
    Budgets,      \* what run() is called with
    Deadlines,    \* what schedule() is called with
    HostWrites,   \* bus writes by the host or by a callback: <<address, w, v>>
    HostRips,     \* what set_rip() and
    HostGprs      \* set_gpr() are called with: <<register, value>>

ASSUME WordAssumption == ByteBits \in Nat \ {0} /\ AddrSpace = 2 ^ (8 * ByteBits)
ASSUME FetchAssumption == FetchMax \in Nat \ {0}
ASSUME ClockAssumption ==
    MaxEvents \in Nat /\ Deadlines \subseteq Nat /\ Budgets \subseteq Nat

VARIABLES
    regs, rip, zf, df, icount, console,   \* the guest-visible state
    insn_rip,     \* the instruction that last began
    exit,         \* exit_
    bytes,        \* see Bus
    queue, next_seq, pc, now, event, log, pass_start,   \* see Scheduler
    code,         \* the member of Programs in memory, as decode_one() reads it
    ctl,          \* what runs: "host", "loop" (run), "step", "string",
                  \* "retire", "dispatch"
    back,         \* who called step(): "host" or "loop"
    start, max,   \* start and max_instructions of run()
    insn,         \* the instruction that last began, decoded
    left,         \* remaining, of the string loop
    snap,         \* history: registers and icount when insn began
    promise       \* history: the icount at which each event is to fire

cpu == <<regs, rip, zf, df, icount, console, insn_rip, exit>>
sched == <<queue, next_seq, pc, now, event, log, pass_start>>
call == <<back, start, max>>
vars == <<cpu, bytes, sched, code, ctl, call, insn, left, snap, promise>>

\* The bus and the scheduler.  Mapping is over when the machine runs.
Mem == INSTANCE Bus WITH
    mappings <- Layout, signal <- 0, result <- 0, MaxMappings <- Len(Layout),
    MapBases <- {}, MapSizes <- [r \in RamRegions \cup ExitRegions |-> {}],
    Widths <- {1, 2, 4, 8}, WriteVals <- [w \in {1, 2, 4, 8} |-> {}]
Sched == INSTANCE Scheduler WITH Honour <- FALSE

-----------------------------------------------------------------------------
(* Values, operands and statuses.                                          *)

Reg == {"rax", "rcx", "rdx", "rsp", "rbp", "rsi", "rdi"}
Word == 0 .. AddrSpace - 1

\* What the decoder delivers: an operand, and an instruction.
IsOperand(o) ==
    /\ o.kind \in {"none", "imm", "reg", "high", "mem", "fsgs", "bank"}
    /\ o.reg \in Reg \cup {"none", "rip"}
    /\ o.kind \in {"reg", "high"} => o.reg \in Reg
    /\ o.index \in Reg \cup {"none"}
    /\ o.scale \in {1, 2, 4, 8}
    /\ o.disp \in Word
IsInsn(i) ==
    /\ i.len \in Nat \ {0}
    /\ {i.w, i.from} \subseteq {1, 2, 4, 8}
    /\ IsOperand(i.a) /\ IsOperand(i.b)
    /\ i.op = "bsf" => i.b.kind # "imm"

ASSUME ProgramAssumption == \A p \in Programs : \A a \in DOMAIN p : IsInsn(p[a])
ASSUME LayoutAssumption ==
    /\ RamRegions \cap ExitRegions = {}
    /\ Size \in [RamRegions -> Word]
    /\ Layout \in Seq(Mem!Mapping)
    /\ \A i \in 1 .. Len(Layout) : Layout[i].base < Layout[i].end
    /\ \A i, j \in 1 .. Len(Layout) : i < j => Layout[i].end <= Layout[j].base
ASSUME HostAssumption ==
    /\ Entry \subseteq Word /\ Stack \subseteq Word /\ HostRips \subseteq Word
    /\ HostGprs \subseteq Reg \X Word
    /\ HostWrites \subseteq Word \X {1, 2, 4, 8} \X Nat
Slip_Carry(a, b) == a + b
Add(a, b) == (a + b) % AddrSpace
Sub(a, b) == (a + AddrSpace - b) % AddrSpace
Span(w) == Mem!Span(w)
Low(v, w) == v % Span(w)

Running == [kind |-> "kRunning", code |-> 0, rip |-> 0, detail |-> "none"]
Status(kind, c, at, detail) == [kind |-> kind, code |-> c, rip |-> at, detail |-> detail]
MemoryFault(address, at) == Status("kFault", address, at, "kMemory")
IsRunning == exit.kind = "kRunning"

Slip_LastWins(status) == status

\* latch() of a terminal status.
Latch(status) == IF IsRunning THEN status ELSE exit

\* request_debug_exit(), called while the instruction at "at" is the last begun.
DebugExit(c, at) == Status("kDebugExit", c, at, "none")

\* How many of the limit bytes from address on can be read one by one.
ByteReadable == [a \in Word |-> Mem!Errors(a, 1, FALSE) = {}]
Readable(address, limit) ==
    CHOOSE n \in 0 .. limit :
        /\ \A i \in 0 .. n - 1 : ByteReadable[Add(address, i)]
        /\ n = limit \/ ~ByteReadable[Add(address, n)]

ReadGpr(r, w) == Low(regs[r], w)

\* write_gpr() on the register file file: 64-bit writes replace, 32-bit writes
\* zero-extend, narrower ones keep the upper bytes.
WriteGpr(file, r, w, v) ==
    [file EXCEPT ![r] = IF w >= 4 THEN Low(v, w) ELSE @ - Low(@, w) + Low(v, w)]

Loaded(v) == [ok |-> TRUE, value |-> v]
Refusal(status) == [ok |-> FALSE, status |-> status]

Load(address, w, at) ==
    IF Mem!Errors(address, w, FALSE) = {}
    THEN Loaded(Mem!ReadResult(address, w).value)
    ELSE Refusal(MemoryFault(address, at))

Cur == code[rip]
After == Add(rip, Cur.len)
Bit(v, i) == (v \div 2 ^ i) % 2
Slip_NextRip == Status("kUnsupported", After, After, Cur.op)
Unsupported == Status("kUnsupported", rip, rip, Cur.op)

\* effective_address() with the register file file: a base and a scaled index,
\* either of which may be absent, or relative to the next instruction.
EffectiveAddress(o, file) ==
    LET part(r) == IF r = "none" THEN 0 ELSE file[r]
    IN  IF o.reg = "rip" THEN Add(After, o.disp)
        ELSE (o.disp + part(o.reg) + part(o.index) * o.scale) % AddrSpace

\* read_operand() of w bytes.  ah to dh are a register's second byte; memory
\* under fs or gs and register banks without storage are refused; an operand
\* that is not there reads as 0.
ReadSized(o, w) ==
    CASE o.kind = "imm" -> Loaded(o.disp)
      [] o.kind = "reg" -> Loaded(ReadGpr(o.reg, w))
      [] o.kind = "high" -> Loaded(ReadGpr(o.reg, 2) \div Span(1))
      [] o.kind = "mem" -> Load(EffectiveAddress(o, regs), w, rip)
      [] o.kind \in {"fsgs", "bank"} -> Refusal(Unsupported)
      [] OTHER -> Loaded(0)

\* The second operand has a width of its own (movzx, movsx, a shift by cl).
ReadOperand(o) == ReadSized(o, Cur.w)
Source == ReadSized(Cur.b, Cur.from)

SignExtended(v, w) ==
    LET low == Low(v, w)
    IN  IF 2 * low >= Span(w) THEN (low + AddrSpace - Span(w)) % AddrSpace ELSE low

-----------------------------------------------------------------------------
(* How the part of an instruction before its retire() ends: the register   *)
(* file, memory, the status, and where control goes.                       *)

Finish(file) ==
    /\ regs' = file
    /\ ctl' = "retire"
    /\ UNCHANGED <<bytes, exit>>

Abandon(file, status) ==
    /\ regs' = file
    /\ exit' = Latch(status)
    /\ ctl' = back
    /\ UNCHANGED bytes

\* The exit status a bus write leaves, from wherever it comes.
ExitAfter(address, w, v, at) ==
    LET codes == Mem!Signalled(address, w, v)
    IN  IF codes = {} THEN exit ELSE DebugExit(CHOOSE c \in codes : TRUE, at)

Slip_RegsFirst(address, w, v, done, failed, at) ==
    IF Mem!Errors(address, w, TRUE) = {}
    THEN /\ regs' = done
         /\ bytes' = Mem!Stored(address, w, v)
         /\ exit' = ExitAfter(address, w, v, at)
         /\ ctl' = "retire"
    ELSE Abandon(done, MemoryFault(address, at))

\* store(): the register file is done if the bus took the write, else failed.
Store(address, w, v, done, failed, at) ==
    IF Mem!Errors(address, w, TRUE) = {}
    THEN /\ regs' = done
         /\ bytes' = Mem!Stored(address, w, v)
         /\ exit' = ExitAfter(address, w, v, at)
         /\ ctl' = "retire"
    ELSE Abandon(failed, MemoryFault(address, at))

\* A register operand, on the register file file: ah to dh are deposited.
WriteReg(file, o, v) ==
    IF o.kind = "high"
    THEN WriteGpr(file, o.reg, 2, Low(file[o.reg], 1) + Span(1) * Low(v, 1))
    ELSE WriteGpr(file, o.reg, Cur.w, v)

\* write_operand() as the last thing an instruction does, with the register
\* file file so far.  To an operand that is not there, nothing is written.
WriteOperand(o, v, file) ==
    CASE o.kind \in {"reg", "high"} -> Finish(WriteReg(file, o, v))
      [] o.kind = "mem" -> Store(EffectiveAddress(o, file), Cur.w, v, file, file, rip)
      [] o.kind \in {"fsgs", "bank"} -> Abandon(file, Unsupported)
      [] OTHER -> Finish(file)

\* push_value(): rsp moves once the store has succeeded.
Push(w, v) ==
    LET sp == Sub(regs["rsp"], w)
    IN  Store(sp, w, v, [regs EXCEPT !["rsp"] = sp], regs, rip)

-----------------------------------------------------------------------------
(* step(): fetch and decode.                                               *)

Decodes(address) ==
    /\ address \in DOMAIN code
    /\ code[address].len <= Readable(address, FetchMax)

\* step() on a stopped CPU replays the status.
Replay ==
    /\ ctl = "step" /\ ~IsRunning
    /\ ctl' = back
    /\ UNCHANGED <<cpu, bytes, sched, code, call, insn, left, snap, promise>>

NotExecuted(status) ==
    /\ ctl = "step" /\ IsRunning
    /\ exit' = Latch(status)
    /\ ctl' = back
    /\ UNCHANGED <<regs, rip, zf, df, icount, console, insn_rip>>
    /\ UNCHANGED <<bytes, sched, code, call, insn, left, snap, promise>>

FetchFault ==
    /\ Readable(rip, FetchMax) = 0
    /\ NotExecuted(Status("kFault", rip, rip, "kFetch"))

DecodeError ==
    /\ Readable(rip, FetchMax) > 0
    /\ ~Decodes(rip)
    /\ NotExecuted(Status("kDecodeError", rip, rip,
           IF rip \in DOMAIN code THEN "kTruncated" ELSE "kUnsupportedOpcode"))

\* The instruction at rip begins; what follows says how it ends.
Executes(ops) ==
    /\ ctl = "step" /\ IsRunning
    /\ rip \in DOMAIN code /\ Cur.op \in ops
    /\ Decodes(rip)
    /\ insn' = Cur
    /\ insn_rip' = rip
    /\ snap' = [regs |-> regs, icount |-> icount]
    /\ UNCHANGED <<icount, sched, code, call, promise>>

\* The frame of instructions that touch neither flags nor console nor loop.
Plain(ops) ==
    /\ Executes(ops)
    /\ UNCHANGED <<zf, df, console, left>>

-----------------------------------------------------------------------------
(* execute(): the instructions with a control of their own.                *)

Mov ==
    /\ Plain({"mov", "movzx", "movsx"})
    /\ rip' = After
    /\ LET v == Source
           value == IF Cur.op = "movsx" THEN SignExtended(v.value, Cur.from) ELSE v.value
       IN  IF v.ok THEN WriteOperand(Cur.a, value, regs) ELSE Abandon(regs, v.status)

\* lea accesses no memory, and refuses no segment.
Lea ==
    /\ Plain({"lea"})
    /\ rip' = After
    /\ WriteOperand(Cur.a, EffectiveAddress(Cur.b, regs), regs)

\* setcc (on equality).
SetCc ==
    /\ Plain({"sete", "setne"})
    /\ rip' = After
    /\ WriteOperand(Cur.a, IF zf = (Cur.op = "sete") THEN 1 ELSE 0, regs)

\* Both operands of an instruction that reads the two, in order.
ReadBoth ==
    LET va == ReadOperand(Cur.a)
        vb == Source
    IN  IF ~va.ok THEN va ELSE IF ~vb.ok THEN vb
        ELSE [ok |-> TRUE, a |-> va.value, b |-> vb.value]

\* The instructions that read both, and record their flags before they write.
Combines(ops) ==
    /\ Executes(ops)
    /\ rip' = After
    /\ UNCHANGED <<df, console, left>>

Alu ==
    /\ Combines({"sub", "cmp"})
    /\ LET v == ReadBoth
           diff == Low(Sub(v.a, v.b), Cur.w)
       IN  IF ~v.ok THEN Abandon(regs, v.status) /\ UNCHANGED zf
           ELSE /\ zf' = (diff = 0)
                /\ IF Cur.op = "cmp" THEN Finish(regs) ELSE WriteOperand(Cur.a, diff, regs)

\* inc, dec, neg and not (which records no flag).
Unary ==
    /\ Combines({"inc", "dec", "neg", "not"})
    /\ LET v == ReadOperand(Cur.a)
           result == Low(CASE Cur.op = "inc" -> Add(v.value, 1)
                           [] Cur.op = "dec" -> Sub(v.value, 1)
                           [] Cur.op = "neg" -> Sub(0, v.value)
                           [] Cur.op = "not" -> AddrSpace - 1 - v.value, Cur.w)
       IN  IF ~v.ok THEN Abandon(regs, v.status) /\ UNCHANGED zf
           ELSE /\ zf' = IF Cur.op = "not" THEN zf ELSE result = 0
                /\ WriteOperand(Cur.a, result, regs)

\* shl and shr: a count of zero, once masked to 6 or 5 bits, writes nothing.
Shift ==
    /\ Combines({"shl", "shr"})
    /\ LET v == ReadBoth
           n == v.b % (ByteBits * (IF Cur.w = 8 THEN 8 ELSE 4))
           result == IF Cur.op = "shl" THEN Low(v.a * 2 ^ n, Cur.w) ELSE v.a \div 2 ^ n
       IN  IF ~v.ok THEN Abandon(regs, v.status) /\ UNCHANGED zf
           ELSE IF n = 0 THEN Finish(regs) /\ UNCHANGED zf
           ELSE WriteOperand(Cur.a, result, regs) /\ zf' = (result = 0)

\* bsf: a zero source leaves the destination alone.
ScanBits ==
    /\ Combines({"bsf"})
    /\ LET v == ReadOperand(Cur.b)
           lowest == CHOOSE n \in 0 .. ByteBits * Cur.w :
                        Bit(v.value, n) = 1 /\ \A m \in 0 .. n - 1 : Bit(v.value, m) = 0
       IN  IF ~v.ok THEN Abandon(regs, v.status) /\ UNCHANGED zf
           ELSE /\ zf' = (v.value = 0)
                /\ IF zf' THEN Finish(regs) ELSE WriteOperand(Cur.a, lowest, regs)

\* mul and div on the pair rdx:rax (ah:al for bytes); a quotient that does not
\* fit, or a divisor of zero, is a fault of the instruction.
Divide ==
    /\ Plain({"mul", "div"})
    /\ rip' = After
    /\ LET v     == ReadOperand(Cur.a)
           limit == Span(Cur.w)
           low   == ReadGpr("rax", Cur.w)
           high  == IF Cur.w = 1 THEN ReadGpr("rax", 2) \div Span(1)
                    ELSE ReadGpr("rdx", Cur.w)
           pair  == high * limit + low
           into(l, h) == IF Cur.w = 1 THEN WriteGpr(regs, "rax", 2, h * Span(1) + l)
                         ELSE WriteGpr(WriteGpr(regs, "rax", Cur.w, l), "rdx", Cur.w, h)
       IN  CASE ~v.ok -> Abandon(regs, v.status)
             [] v.ok /\ Cur.op = "mul" ->
                    Finish(into((low * v.value) % limit, (low * v.value) \div limit))
             [] v.ok /\ Cur.op = "div" /\ high >= v.value ->
                    Abandon(regs, Status("kFault", rip, rip, "kDivide"))
             [] OTHER -> Finish(into(pair \div v.value, pair % v.value))

\* write_operand() twice: to the first operand, then to the second, which the
\* encodings make a register.
WriteBoth(v, u) ==
    LET second(file) == WriteReg(file, Cur.b, u)
    IN  IF Cur.a.kind = "mem"
        THEN Store(EffectiveAddress(Cur.a, regs), Cur.w, v, second(regs), regs, rip)
        ELSE Finish(second(WriteReg(regs, Cur.a, v)))

Xchg ==
    /\ Combines({"xchg"})
    /\ LET v == ReadBoth
       IN  IF v.ok THEN WriteBoth(v.b, v.a) ELSE Abandon(regs, v.status)
    /\ UNCHANGED zf

Xadd ==
    /\ Combines({"xadd"})
    /\ LET v == ReadBoth
           sum == Low(Add(v.a, v.b), Cur.w)
       IN  IF v.ok THEN WriteBoth(sum, v.a) /\ zf' = (sum = 0)
           ELSE Abandon(regs, v.status) /\ UNCHANGED zf

Cmpxchg ==
    /\ Combines({"cmpxchg"})
    /\ LET v == ReadBoth
           equal == ReadGpr("rax", Cur.w) = v.a
       IN  IF ~v.ok THEN Abandon(regs, v.status) /\ UNCHANGED zf
           ELSE /\ zf' = equal
                /\ IF equal THEN WriteOperand(Cur.a, v.b, regs)
                   ELSE Finish(WriteGpr(regs, "rax", Cur.w, v.a))

\* cmovcc (on equality) reads its source only when it moves.
Cmov ==
    /\ Plain({"cmove", "cmovne"})
    /\ rip' = After
    /\ IF zf = (Cur.op = "cmove")
       THEN LET v == Source
            IN  IF v.ok THEN WriteOperand(Cur.a, v.value, regs) ELSE Abandon(regs, v.status)
       ELSE Finish(regs)

\* bt, bts, btr and btc (CF is left out) with a register, and in memory: the
\* signed index selects one byte, whatever segment the operand names.
WithBit(v, i) ==
    LET bit == CASE Cur.op = "bt"  -> Bit(v, i)
                 [] Cur.op = "bts" -> 1
                 [] Cur.op = "btr" -> 0
                 [] Cur.op = "btc" -> 1 - Bit(v, i)
    IN  v - Bit(v, i) * 2 ^ i + bit * 2 ^ i

BitTest ==
    /\ Plain({"bt", "bts", "btr", "btc"})
    /\ rip' = After
    /\ LET index   == ReadOperand(Cur.b)
           inReg   == Cur.a.kind \in {"reg", "bank"}
           address == Add(EffectiveAddress(Cur.a, regs),
                          SignExtended(index.value, Cur.w) \div ByteBits)
           v       == IF inReg THEN ReadOperand(Cur.a) ELSE Load(address, 1, rip)
           bit     == index.value % (IF inReg THEN ByteBits * Cur.w ELSE ByteBits)
       IN  CASE ~index.ok -> Abandon(regs, index.status)
             [] index.ok /\ ~v.ok -> Abandon(regs, v.status)
             [] index.ok /\ v.ok /\ Cur.op = "bt" -> Finish(regs)
             [] index.ok /\ v.ok /\ Cur.op # "bt" /\ inReg ->
                    WriteOperand(Cur.a, WithBit(v.value, bit), regs)
             [] OTHER -> Store(address, 1, WithBit(v.value, bit), regs, regs, rip)

PushInsn ==
    /\ Plain({"push"})
    /\ rip' = After
    /\ LET v == ReadOperand(Cur.a)
       IN  IF v.ok THEN Push(Cur.w, v.value) ELSE Abandon(regs, v.status)

\* pop: rsp has moved when the destination is written, and stays moved when
\* that write faults.
Pop ==
    /\ Plain({"pop"})
    /\ rip' = After
    /\ LET v == Load(regs["rsp"], Cur.w, rip)
       IN  IF v.ok
           THEN WriteOperand(Cur.a, v.value, [regs EXCEPT !["rsp"] = Add(@, Cur.w)])
           ELSE Abandon(regs, v.status)

Target(v) == IF Cur.a.kind = "imm" THEN Add(After, v) ELSE v

\* jmp and call: the target is relative, or read from an operand, before
\* anything is pushed; rip is the next instruction's when a fault intervenes.
Jmp ==
    /\ Plain({"jmp"})
    /\ LET v == ReadOperand(Cur.a)
       IN  IF v.ok THEN Finish(regs) /\ rip' = Target(v.value)
           ELSE Abandon(regs, v.status) /\ rip' = After

Call ==
    /\ Plain({"call"})
    /\ LET v == ReadOperand(Cur.a)
       IN  IF v.ok
           THEN /\ Push(8, After)
                /\ rip' = IF ctl' = "retire" THEN Target(v.value) ELSE After
           ELSE Abandon(regs, v.status) /\ rip' = After

\* jcc (on equality), jrcxz, and the loop family, which counts rcx first.
Branch ==
    /\ Plain({"je", "jne", "jrcxz", "loop", "loope", "loopne"})
    /\ LET looping == Cur.op \in {"loop", "loope", "loopne"}
           rcx     == IF looping THEN Sub(regs["rcx"], 1) ELSE regs["rcx"]
           taken   == CASE Cur.op = "je"     -> zf
                        [] Cur.op = "jne"    -> ~zf
                        [] Cur.op = "jrcxz"  -> rcx = 0
                        [] Cur.op = "loop"   -> rcx # 0
                        [] Cur.op = "loope"  -> rcx # 0 /\ zf
                        [] Cur.op = "loopne" -> rcx # 0 /\ ~zf
       IN  /\ rip' = IF taken THEN Add(After, Cur.a.disp) ELSE After
           /\ Finish([regs EXCEPT !["rcx"] = rcx])

Ret ==
    /\ Plain({"ret"})
    /\ LET v   == Load(regs["rsp"], 8, rip)
           arg == IF Cur.a.kind = "imm" THEN Cur.a.disp ELSE 0
       IN  IF v.ok
           THEN /\ rip' = v.value
                /\ Finish([regs EXCEPT !["rsp"] = Add(@, 8 + arg)])
           ELSE Abandon(regs, v.status) /\ rip' = After

\* leave: rsp is rbp's even when the pop faults.
Leave ==
    /\ Plain({"leave"})
    /\ rip' = After
    /\ LET v == Load(regs["rbp"], 8, rip)
           file == [regs EXCEPT !["rsp"] = regs["rbp"]]
       IN  IF v.ok
           THEN Finish([file EXCEPT !["rsp"] = Add(@, 8), !["rbp"] = v.value])
           ELSE Abandon(file, v.status)

Nop ==
    /\ Plain({"nop"})
    /\ rip' = After
    /\ Finish(regs)

Direction ==
    /\ Executes({"cld", "std"})
    /\ rip' = After
    /\ df' = (Cur.op = "std")
    /\ Finish(regs)
    /\ UNCHANGED <<zf, console, left>>

\* hlt: latched first, then retired.
Hlt ==
    /\ Plain({"hlt"})
    /\ rip' = After
    /\ exit' = Latch(Status("kHalt", 0, rip, "none"))
    /\ ctl' = "retire"
    /\ UNCHANGED <<regs, bytes>>

\* Decoded, but outside the subset: the default of the big switch.
Outside ==
    /\ Plain({"outside"})
    /\ rip' = After
    /\ Abandon(regs, Unsupported)

-----------------------------------------------------------------------------
(* execute_syscall().  It leaves rip alone.                                *)

SyscallWrite ==
    /\ Executes({"syscall"})
    /\ regs["rax"] = 1
    /\ LET buf   == regs["rsi"]
           count == regs["rdx"]
           n     == Readable(buf, count)
       IN  /\ console' = console \o
                 [i \in 1 .. n |-> Mem!ReadResult(Add(buf, i - 1), 1).value]
           /\ IF n = count THEN Finish([regs EXCEPT !["rax"] = count])
              ELSE Abandon(regs, MemoryFault(Add(buf, n), rip))
    /\ UNCHANGED <<rip, zf, df, left>>

SyscallExit ==
    /\ Plain({"syscall"})
    /\ regs["rax"] \in {60, 231}
    /\ exit' = Latch(Status("kExit", regs["rdi"], rip,
                          IF regs["rax"] = 60 THEN "exit" ELSE "exit_group"))
    /\ ctl' = "retire"
    /\ UNCHANGED <<rip, regs, bytes>>

SyscallOther ==
    /\ Plain({"syscall"})
    /\ regs["rax"] \notin {1, 60, 231}
    /\ Abandon(regs, Status("kUnsupported", regs["rax"], rip, "syscall"))
    /\ UNCHANGED rip

-----------------------------------------------------------------------------
(* execute_string(): every iteration retires, so every iteration may run   *)
(* callbacks.                                                              *)

Families == {"movs", "stos", "lods", "scas", "cmps"}

StringBegin ==
    /\ Executes(Families)
    /\ rip' = After
    /\ left' = IF Cur.rep = "none" THEN 1 ELSE regs["rcx"]
    /\ ctl' = "string"
    /\ UNCHANGED <<regs, zf, df, console, exit, bytes>>

StringEnd ==
    /\ ctl = "string" /\ left = 0
    /\ ctl' = back
    /\ UNCHANGED <<cpu, bytes, sched, code, call, insn, left, snap, promise>>

Stride == IF df THEN AddrSpace - insn.w ELSE insn.w

Slip_Upwards(file, pointers) ==
    [r \in Reg |-> IF r \in pointers THEN Add(file[r], insn.w)
                   ELSE IF r = "rcx" /\ insn.rep # "none" THEN Sub(file[r], 1)
                   ELSE file[r]]

\* The registers after one iteration: the pointers move, rcx counts.
Advance(file, pointers) ==
    [r \in Reg |-> IF r \in pointers THEN Add(file[r], Stride)
                   ELSE IF r = "rcx" /\ insn.rep # "none" THEN Sub(file[r], 1)
                   ELSE file[r]]

Iterates(family) == ctl = "string" /\ left > 0 /\ insn.op = family

\* After an iteration: the loop goes on unless it faulted, the count is used
\* up, or (stops) the observed flag ends it.
Proceed(stops) ==
    /\ left' = IF ctl' = "retire" /\ ~stops THEN left - 1 ELSE 0
    /\ UNCHANGED <<rip, df, icount, console, insn_rip>>
    /\ UNCHANGED <<sched, code, call, insn, snap, promise>>

Movs ==
    /\ Iterates("movs")
    /\ LET v == Load(regs["rsi"], insn.w, insn_rip)
       IN  IF v.ok THEN Store(regs["rdi"], insn.w, v.value,
                              Advance(regs, {"rsi", "rdi"}), regs, insn_rip)
           ELSE Abandon(regs, v.status)
    /\ Proceed(FALSE)
    /\ UNCHANGED zf

Stos ==
    /\ Iterates("stos")
    /\ Store(regs["rdi"], insn.w, ReadGpr("rax", insn.w),
             Advance(regs, {"rdi"}), regs, insn_rip)
    /\ Proceed(FALSE)
    /\ UNCHANGED zf

Lods ==
    /\ Iterates("lods")
    /\ LET v == Load(regs["rsi"], insn.w, insn_rip)
       IN  IF v.ok
           THEN Finish(Advance(WriteGpr(regs, "rax", insn.w, v.value), {"rsi"}))
           ELSE Abandon(regs, v.status)
    /\ Proceed(FALSE)
    /\ UNCHANGED zf

\* scas and cmps: a comparison, and rep/repne end on the flag it sets.
Compare(family, pointers, x, y) ==
    /\ Iterates(family)
    /\ IF ~x.ok THEN Abandon(regs, x.status) /\ UNCHANGED zf
       ELSE IF ~y.ok THEN Abandon(regs, y.status) /\ UNCHANGED zf
       ELSE zf' = (x.value = y.value) /\ Finish(Advance(regs, pointers))
    /\ Proceed((insn.rep = "rep" /\ ~zf') \/ (insn.rep = "repne" /\ zf'))

Scas == Compare("scas", {"rdi"}, Loaded(ReadGpr("rax", insn.w)),
                Load(regs["rdi"], insn.w, insn_rip))
Cmps == Compare("cmps", {"rsi", "rdi"}, Load(regs["rsi"], insn.w, insn_rip),
                Load(regs["rdi"], insn.w, insn_rip))

-----------------------------------------------------------------------------
(* retire(): the clock advances and the scheduler is dispatched.           *)

Slip_DispatchBefore ==
    /\ ctl = "retire"
    /\ icount' = icount + 1
    /\ Sched!Dispatch(icount)
    /\ ctl' = "dispatch"
    /\ UNCHANGED <<regs, rip, zf, df, console, insn_rip, exit>>
    /\ UNCHANGED <<bytes, code, call, insn, left, snap, promise>>

Tick ==
    /\ ctl = "retire"
    /\ icount' = icount + 1
    /\ Sched!Dispatch(icount + 1)
    /\ ctl' = "dispatch"
    /\ UNCHANGED <<regs, rip, zf, df, console, insn_rip, exit>>
    /\ UNCHANGED <<bytes, code, call, insn, left, snap, promise>>

Fire ==
    /\ ctl = "dispatch"
    /\ Sched!Fire
    /\ UNCHANGED <<cpu, bytes, code, ctl, call, insn, left, snap, promise>>

Larger(a, b) == IF a > b THEN a ELSE b

\* A callback schedules an event; it is due in this pass if at has passed.
CallbackSchedule(at, action) ==
    /\ ctl = "dispatch"
    /\ Sched!CallbackSchedule(at, action)
    /\ promise' = [promise EXCEPT ![next_seq] = Larger(at, now)]
    /\ UNCHANGED <<cpu, bytes, code, ctl, call, insn, left, snap>>

\* The write of a device or of the host: an error stays with the writer.
BusWrite(address, w, v) ==
    /\ bytes' = Mem!Stored(address, w, v)
    /\ exit' = ExitAfter(address, w, v, insn_rip)
    /\ UNCHANGED <<regs, rip, zf, df, icount, console, insn_rip>>
    /\ UNCHANGED <<sched, code, ctl, call, insn, left, snap, promise>>

CallbackWrite(address, w, v) ==
    /\ ctl = "dispatch" /\ pc = "action"
    /\ BusWrite(address, w, v)

CallbackReturn ==
    /\ ctl = "dispatch"
    /\ Sched!Return
    /\ UNCHANGED <<cpu, bytes, code, ctl, call, insn, left, snap, promise>>

\* dispatch() returns into the string loop or to step()'s caller.
Retired ==
    /\ ctl = "dispatch"
    /\ Sched!Leave
    /\ ctl' = IF insn.op \in Families THEN "string" ELSE back
    /\ UNCHANGED <<cpu, bytes, code, call, insn, left, snap, promise>>

-----------------------------------------------------------------------------
(* The host between two calls.                                             *)

NoInsn == [op |-> "none", rep |-> "none"]

\* reset(): the queue of the scheduler is not the CPU's to clear.
Reset(entry, stack) ==
    /\ ctl = "host"
    /\ regs' = [r \in Reg |-> IF r = "rsp" THEN stack ELSE 0]
    /\ rip' = entry /\ insn_rip' = entry
    /\ zf' = TRUE /\ df' = FALSE
    /\ icount' = 0
    /\ console' = <<>>
    /\ exit' = Running
    /\ insn' = NoInsn
    /\ promise' = [s \in DOMAIN promise |->
          LET pending == {e \in queue : e.seq = s}
          IN  IF pending = {} THEN promise[s]
              ELSE Larger((CHOOSE e \in pending : TRUE).at, 1)]
    /\ UNCHANGED <<bytes, sched, code, ctl, call, left, snap>>

CallStep ==
    /\ ctl = "host" /\ icount < MaxTick
    /\ ctl' = "step"
    /\ UNCHANGED <<cpu, bytes, sched, code, call, insn, left, snap, promise>>

CallRun(budget) ==
    /\ ctl = "host" /\ icount + budget <= MaxTick
    /\ ctl' = "loop" /\ back' = "loop"
    /\ start' = icount /\ max' = budget
    /\ UNCHANGED <<cpu, bytes, sched, code, insn, left, snap, promise>>

Slip_StatusUnread == icount - start < max
Slip_OneMore == IsRunning /\ icount - start <= max

\* The condition of run()'s loop.
GoesOn == IsRunning /\ icount - start < max

RunStep ==
    /\ ctl = "loop" /\ GoesOn
    /\ ctl' = "step"
    /\ UNCHANGED <<cpu, bytes, sched, code, call, insn, left, snap, promise>>

RunReturn ==
    /\ ctl = "loop" /\ ~GoesOn
    /\ ctl' = "host" /\ back' = "host" /\ start' = 0 /\ max' = 0
    /\ UNCHANGED <<cpu, bytes, sched, code, insn, left, snap, promise>>

HostSchedule(at, action) ==
    /\ ctl = "host"
    /\ Sched!HostSchedule(at, action)
    /\ promise' = [promise EXCEPT ![next_seq] = Larger(at, icount + 1)]
    /\ UNCHANGED <<cpu, bytes, code, ctl, call, insn, left, snap>>

HostWrite(address, w, v) ==
    /\ ctl = "host"
    /\ BusWrite(address, w, v)

SetRip(value) ==
    /\ ctl = "host"
    /\ rip' = value
    /\ UNCHANGED <<regs, zf, df, icount, console, insn_rip, exit>>
    /\ UNCHANGED <<bytes, sched, code, ctl, call, insn, left, snap, promise>>

\* The registers are no longer those the last instruction left.
SetGpr(r, value) ==
    /\ ctl = "host"
    /\ regs' = [regs EXCEPT ![r] = value]
    /\ insn' = NoInsn
    /\ UNCHANGED <<rip, zf, df, icount, console, insn_rip, exit>>
    /\ UNCHANGED <<bytes, sched, code, ctl, call, left, snap, promise>>

-----------------------------------------------------------------------------
Init ==
    /\ regs = [r \in Reg |-> 0]
    /\ rip = 0 /\ insn_rip = 0
    /\ zf = FALSE /\ df = FALSE
    /\ icount = 0
    /\ console = <<>>
    /\ exit = Running
    /\ bytes = [r \in RamRegions |-> [o \in 0 .. Size[r] - 1 |-> 0]]
    /\ Sched!Init
    /\ code \in Programs
    /\ ctl = "host" /\ back = "host"
    /\ start = 0 /\ max = 0
    /\ insn = NoInsn
    /\ left = 0
    /\ snap = [regs |-> regs, icount |-> 0]
    /\ promise = [s \in 0 .. MaxEvents - 1 |-> 0]

Instruction ==
    \/ Mov \/ Lea \/ SetCc \/ Cmov
    \/ Alu \/ Unary \/ Shift \/ ScanBits \/ Divide
    \/ Xchg \/ Xadd \/ Cmpxchg \/ BitTest
    \/ PushInsn \/ Pop \/ Jmp \/ Call \/ Branch \/ Ret \/ Leave
    \/ Nop \/ Direction \/ Hlt \/ Outside
    \/ SyscallWrite \/ SyscallExit \/ SyscallOther
    \/ StringBegin \/ Movs \/ Stos \/ Lods \/ Scas \/ Cmps \/ StringEnd

\* What goes on by itself once the host has called step() or run().
Machine ==
    \/ Replay \/ FetchFault \/ DecodeError
    \/ Instruction
    \/ Tick \/ Fire \/ CallbackReturn \/ Retired
    \/ RunStep \/ RunReturn

Host ==
    \/ \E entry \in Entry, stack \in Stack : Reset(entry, stack)
    \/ CallStep
    \/ \E budget \in Budgets : CallRun(budget)
    \/ \E at \in Deadlines, action \in Actions : HostSchedule(at, action)
    \/ \E b \in HostWrites : HostWrite(b[1], b[2], b[3])
    \/ \E value \in HostRips : SetRip(value)
    \/ \E g \in HostGprs : SetGpr(g[1], g[2])

Callback ==
    \/ \E at \in Deadlines, action \in Actions : CallbackSchedule(at, action)
    \/ \E b \in HostWrites : CallbackWrite(b[1], b[2], b[3])

Next == Machine \/ Host \/ Callback
Spec == Init /\ [][Next]_vars

\* Fairness: the one thread is scheduled, and a callback returns.
LiveSpec == Spec /\ WF_vars(Machine)

-----------------------------------------------------------------------------
(* Properties.                                                             *)

TypeOK ==
    /\ regs \in [Reg -> Word] /\ {rip, insn_rip, left} \subseteq Word
    /\ {zf, df} \subseteq BOOLEAN
    /\ {icount, start, max} \subseteq Nat
    /\ ctl \in {"host", "loop", "step", "string", "retire", "dispatch"}
    /\ back \in {"host", "loop"}
    /\ \A r \in RamRegions : bytes[r] \in [0 .. Size[r] - 1 -> Mem!Byte]
    /\ pc # "idle" <=> ctl = "dispatch"

\* Virtual time (cpu.hpp 65, "advances the clock and dispatches the
\* scheduler"): whatever mix of instructions, string iterations, faults, run
\* and step calls retires them, every event fires at exactly the icount it
\* asked for, or at the first dispatch after it was scheduled if that is later.
OnTime ==
    /\ \A i \in 1 .. Len(log) : log[i].now = promise[log[i].seq]
    /\ \A e \in queue : promise[e.seq] >= (IF pc = "idle" THEN icount + 1 ELSE now)

\* Iterations of the current string instruction that are complete.
Iterated == icount - snap.icount + (IF ctl = "retire" THEN 1 ELSE 0)
Moved(r) == Sub(regs[r], snap.regs[r]) =
                (Iterated * Stride) % AddrSpace

\* A string instruction is its iterations, seen from any callback, at its end
\* and after a fault in the middle: rcx has counted and the family's pointers
\* have moved exactly once per retired iteration, nothing else has moved.
PointersOf == [movs |-> {"rsi", "rdi"}, cmps |-> {"rsi", "rdi"}, lods |-> {"rsi"},
               stos |-> {"rdi"}, scas |-> {"rdi"}]
StringProgress ==
    insn.op \in Families =>
        LET pointers == PointersOf[insn.op]
            result   == IF insn.op = "lods" THEN {"rax"} ELSE {}
        IN  /\ \A p \in pointers : Moved(p)
            /\ regs["rcx"] = IF insn.rep = "none" THEN snap.regs["rcx"]
                             ELSE snap.regs["rcx"] - Iterated
            /\ insn.rep = "none" => Iterated <= 1
            /\ \A r \in Reg \ (pointers \cup result \cup {"rcx"}) :
                  regs[r] = snap.regs[r]

\* An access that faults has changed nothing: no register, no memory, no
\* clock.  pop and leave are the exceptions the code makes: rsp has moved.  (The
\* console keeps what a faulting write syscall had read.)
FaultAtomic ==
    [][exit # exit' /\ exit'.detail = "kMemory" =>
         /\ UNCHANGED <<bytes, icount, queue>>
         /\ \A r \in Reg : regs'[r] = regs[r] \/ (r = "rsp" /\ insn'.op \in {"pop", "leave"})
      ]_vars

\* "RIP of the instruction that stopped the run" (cpu.hpp 44), however late
\* the status is read: a fetch or decode stop names an address that cannot be
\* executed, any other stop names the instruction that last began.
ExitBlames ==
    ~IsRunning =>
        IF exit.kind = "kDecodeError" \/ exit.detail = "kFetch"
        THEN ~Decodes(exit.rip)
        ELSE exit.rip = insn_rip

\* A stopped CPU stays stopped until reset(): only a debug exit replaces the
\* status, no further instruction begins, and no more than the string
\* instruction in progress retires.
StoppedStays ==
    [][~IsRunning /\ exit'.kind # "kRunning" =>
         /\ exit' = exit \/ exit'.kind = "kDebugExit"
         /\ UNCHANGED <<insn_rip, snap>>
         /\ icount' # icount => insn.op \in Families \/ icount = snap.icount]_vars

\* run(max): "the budget is honored at instruction granularity" (cpu.hpp 163).
\* It comes back early only with a terminal status, and overshoots only by
\* the iterations of the last string instruction.
BudgetHonoured ==
    [][ctl = "loop" /\ ctl' = "host" =>
         /\ IsRunning => icount - start >= max
         /\ icount - start > max =>
               insn.op \in Families /\ snap.icount - start < max]_vars

\* run() returns, whatever the guest and the callbacks do: every instruction
\* that goes back retires, and spends budget.
RunReturns == ctl = "loop" ~> ctl = "host"

\* cpu.hpp 25: "terminal kinds latch: further step()/run() calls replay the
\* same status until reset()".
ExitLatched == [][~IsRunning /\ exit' # exit => exit' = Running]_vars

\* cpu.hpp 69: the surface is "write collects into console(), exit/exit_group
\* stop the run": a program that asks for nothing else is never refused.
Asks(a) ==
    \E b \in DOMAIN code :
        /\ b + code[b].len = a
        /\ code[b].op = "mov" /\ code[b].a.reg = "rax"
        /\ code[b].b.kind = "imm" /\ code[b].b.disp \in {1, 60, 231}
SurfaceServed ==
    (\A a \in DOMAIN code : code[a].op = "syscall" => Asks(a)) =>
        (exit.kind = "kUnsupported" => code[exit.rip].op # "syscall")

\* cpu.hpp 63: "a memory operand under fs/gs reports kUnsupported instead of
\* guessing a base": an instruction that accesses one never completes.
SegmentsRefused ==
    ctl = "retire" /\ insn.op # "lea" => "fsgs" \notin {insn.a.kind, insn.b.kind}
==============================================================================
