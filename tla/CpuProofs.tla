------------------------------ MODULE CpuProofs ------------------------------
(***************************************************************************)
(* Proofs about the interpreter core, for every program, layout of memory, *)
(* budget, deadline and set of callbacks.                                  *)
(*                                                                         *)
(* An instruction is long, but what it may do to the control of the        *)
(* emulator is little: Settles says it once for all of them, and the       *)
(* theorems below use nothing else of what instructions compute.           *)
(***************************************************************************)
EXTENDS Cpu, NatFacts, TLAPS

IsFile(file) == file = [r \in Reg |-> file[r]]

\* The register file of an instruction that faulted is the one it began with.
Kept(file) ==
    \A r \in Reg : file[r] = regs[r] \/ (r = "rsp" /\ insn'.op \in {"pop", "leave"})

\* A status that the instruction at "at" may leave, and only if it may.
Blames(at) ==
    /\ exit'.rip = at
    /\ exit'.kind \notin {"kRunning", "kDecodeError"} /\ exit'.detail # "kFetch"
    /\ IsRunning \/ exit'.kind = "kDebugExit"

\* How an instruction, or an iteration of one, ends.
Settles(at) ==
    /\ ctl' \in {"retire", back}
    /\ exit' = exit \/ Blames(at)
    /\ exit' # exit /\ exit'.detail = "kMemory" => bytes' = bytes /\ Kept(regs')
    /\ IsFile(regs')

-----------------------------------------------------------------------------
(* The helpers that instructions end with.                                 *)

LEMMA KeptRegs == Kept(regs)
BY DEF Kept

LEMMA WriteGprFile ==
  ASSUME NEW file, IsFile(file), NEW r, NEW w, NEW v
  PROVE  IsFile(WriteGpr(file, r, w, v))
BY DEF IsFile, WriteGpr

LEMMA WriteRegFile ==
  ASSUME NEW file, IsFile(file), NEW o, NEW v
  PROVE  IsFile(WriteReg(file, o, v))
BY WriteGprFile DEF WriteReg

LEMMA ExceptFile ==
  ASSUME NEW file, IsFile(file), NEW r \in Reg, NEW v
  PROVE  /\ IsFile([file EXCEPT ![r] = v])
         /\ \A q \in Reg \ {r} : [file EXCEPT ![r] = v][q] = file[q]
BY DEF IsFile

LEMMA FinishSettles ==
  ASSUME NEW file, IsFile(file), NEW at, Finish(file)
  PROVE  Settles(at)
BY DEF Finish, Settles

\* A status of the instruction at "at" itself.
OwnStatus(status, at) ==
    /\ status.rip = at
    /\ status.kind \notin {"kRunning", "kDecodeError"} /\ status.detail # "kFetch"

LEMMA AbandonSettles ==
  ASSUME NEW file, IsFile(file), Kept(file),
         NEW status, NEW at, OwnStatus(status, at), Abandon(file, status)
  PROVE  Settles(at)
BY DEF OwnStatus, Abandon, Latch, Settles, Blames

LEMMA StoreSettles ==
  ASSUME NEW address, NEW w, NEW v, NEW done, IsFile(done),
         NEW failed, IsFile(failed), Kept(failed),
         NEW at, Store(address, w, v, done, failed, at)
  PROVE  Settles(at)
<1>1. CASE Mem!Errors(address, w, TRUE) = {}
  BY <1>1 DEF Store, ExitAfter, DebugExit, Status, Settles, Blames
<1>2. CASE Mem!Errors(address, w, TRUE) # {}
  <2>1. OwnStatus(MemoryFault(address, at), at)
    BY DEF OwnStatus, MemoryFault, Status
  <2>2. Abandon(failed, MemoryFault(address, at))
    BY <1>2 DEF Store
  <2> QED BY <2>1, <2>2, AbandonSettles
<1> QED BY <1>1, <1>2

LEMMA LoadRefused ==
  ASSUME NEW address, NEW w, NEW at, ~Load(address, w, at).ok
  PROVE  OwnStatus(Load(address, w, at).status, at)
BY DEF Load, Loaded, Refusal, OwnStatus, MemoryFault, Status

LEMMA UnsupportedOwn ==
  ASSUME Cur.op # "kFetch"
  PROVE  OwnStatus(Unsupported, rip)
BY DEF Unsupported, OwnStatus, Status

LEMMA SizedRefused ==
  ASSUME Cur.op # "kFetch", NEW o, NEW w, ~ReadSized(o, w).ok
  PROVE  OwnStatus(ReadSized(o, w).status, rip)
<1>1. CASE o.kind = "mem"
  <2>1. ReadSized(o, w) = Load(EffectiveAddress(o, regs), w, rip)
    BY <1>1 DEF ReadSized
  <2> QED BY <2>1, LoadRefused
<1>2. CASE o.kind \in {"fsgs", "bank"}
  <2>1. ReadSized(o, w) = Refusal(Unsupported)
    BY <1>2 DEF ReadSized
  <2> QED BY <2>1, UnsupportedOwn DEF Refusal
<1>3. CASE o.kind \notin {"mem", "fsgs", "bank"}
  BY <1>3 DEF ReadSized, Loaded
<1> QED BY <1>1, <1>2, <1>3

LEMMA ReadRefused ==
  ASSUME Cur.op # "kFetch", NEW o, ~ReadOperand(o).ok
  PROVE  OwnStatus(ReadOperand(o).status, rip)
BY SizedRefused DEF ReadOperand

LEMMA SourceRefused ==
  ASSUME Cur.op # "kFetch", ~Source.ok
  PROVE  OwnStatus(Source.status, rip)
BY SizedRefused DEF Source

LEMMA ReadBothRefused ==
  ASSUME Cur.op # "kFetch", ~ReadBoth.ok
  PROVE  OwnStatus(ReadBoth.status, rip)
BY ReadRefused, SourceRefused DEF ReadBoth

LEMMA WriteSettles ==
  ASSUME Cur.op # "kFetch", NEW o, NEW v, NEW file, IsFile(file), Kept(file),
         WriteOperand(o, v, file)
  PROVE  Settles(rip)
<1>1. CASE o.kind \in {"reg", "high"}
  <2>1. Finish(WriteReg(file, o, v))
    BY <1>1 DEF WriteOperand
  <2> QED BY <2>1, WriteRegFile, FinishSettles
<1>2. CASE o.kind = "mem"
  <2>1. Store(EffectiveAddress(o, file), Cur.w, v, file, file, rip)
    BY <1>2 DEF WriteOperand
  <2> QED BY <2>1, StoreSettles
<1>3. CASE o.kind \in {"fsgs", "bank"}
  <2>1. Abandon(file, Unsupported)
    BY <1>3 DEF WriteOperand
  <2> QED BY <2>1, UnsupportedOwn, AbandonSettles
<1>4. CASE o.kind \notin {"reg", "high", "mem", "fsgs", "bank"}
  <2>1. Finish(file)
    BY <1>4 DEF WriteOperand
  <2> QED BY <2>1, FinishSettles
<1> QED BY <1>1, <1>2, <1>3, <1>4

LEMMA PushSettles ==
  ASSUME IsFile(regs), NEW w, NEW v, Push(w, v)
  PROVE  Settles(rip)
BY KeptRegs, StoreSettles, ExceptFile DEF Push, Reg
-----------------------------------------------------------------------------
(* The instructions, one by one.                                           *)

Begun ==
    /\ ctl = "step" /\ IsRunning
    /\ insn' = Cur /\ insn_rip' = rip
    /\ snap' = [regs |-> regs, icount |-> icount]
    /\ UNCHANGED <<icount, sched, code, call, promise>>

\* An instruction that retires once at most.
Single == Begun /\ Cur.op \notin Families /\ Settles(rip)

LEMMA MovSingle == IsFile(regs) /\ Mov => Single
BY KeptRegs, SourceRefused, AbandonSettles, WriteSettles
   DEF Mov, Plain, Executes, Begun, Single, Families

LEMMA LeaSingle == IsFile(regs) /\ (Lea \/ SetCc) => Single
BY KeptRegs, WriteSettles DEF Lea, SetCc, Plain, Executes, Begun, Single, Families

LEMMA AluSingle == IsFile(regs) /\ Alu => Single
BY KeptRegs, ReadBothRefused, AbandonSettles, FinishSettles, WriteSettles
   DEF Alu, Combines, Executes, Begun, Single, Families

LEMMA UnarySingle == IsFile(regs) /\ Unary => Single
BY KeptRegs, ReadRefused, AbandonSettles, WriteSettles
   DEF Unary, Combines, Executes, Begun, Single, Families

LEMMA ShiftSingle == IsFile(regs) /\ Shift => Single
BY KeptRegs, ReadBothRefused, AbandonSettles, FinishSettles, WriteSettles
   DEF Shift, Combines, Executes, Begun, Single, Families

LEMMA ScanSingle == IsFile(regs) /\ ScanBits => Single
BY KeptRegs, ReadRefused, AbandonSettles, FinishSettles, WriteSettles
   DEF ScanBits, Combines, Executes, Begun, Single, Families

LEMMA DivideSingle == IsFile(regs) /\ Divide => Single
<1> SUFFICES ASSUME IsFile(regs), Divide PROVE Single
  OBVIOUS
<1>1. Begun /\ Cur.op \in {"mul", "div"}
  BY DEF Divide, Plain, Executes, Begun
<1> DEFINE v     == ReadOperand(Cur.a)
           limit == Span(Cur.w)
           low   == ReadGpr("rax", Cur.w)
           high  == IF Cur.w = 1 THEN ReadGpr("rax", 2) \div Span(1)
                    ELSE ReadGpr("rdx", Cur.w)
           pair  == high * limit + low
           into(l, h) == IF Cur.w = 1 THEN WriteGpr(regs, "rax", 2, h * Span(1) + l)
                         ELSE WriteGpr(WriteGpr(regs, "rax", Cur.w, l), "rdx", Cur.w, h)
           fault == Status("kFault", rip, rip, "kDivide")
<1>2. (CASE ~v.ok -> Abandon(regs, v.status)
         [] v.ok /\ Cur.op = "mul" ->
                Finish(into((low * v.value) % limit, (low * v.value) \div limit))
         [] v.ok /\ Cur.op = "div" /\ high >= v.value -> Abandon(regs, fault)
         [] OTHER -> Finish(into(pair \div v.value, pair % v.value)))
  BY DEF Divide
<1>3. \A l, h : IsFile(into(l, h))
  BY WriteGprFile
<1>4. ~v.ok => OwnStatus(v.status, rip)
  BY <1>1, ReadRefused
<1>5. OwnStatus(fault, rip)
  BY DEF OwnStatus, Status
<1>6. Settles(rip)
  <2> HIDE DEF v, limit, low, high, pair, into, fault
  <2>1. Abandon(regs, v.status) /\ ~v.ok => Settles(rip)
    BY <1>4, KeptRegs, AbandonSettles
  <2>2. Abandon(regs, fault) => Settles(rip)
    BY <1>5, KeptRegs, AbandonSettles
  <2>3. ASSUME NEW l, NEW h, Finish(into(l, h)) PROVE Settles(rip)
    BY <1>3, <2>3, FinishSettles
  <2> QED BY <1>2, <2>1, <2>2, <2>3
<1> QED BY <1>1, <1>6 DEF Single, Families

LEMMA WriteBothSettles ==
  ASSUME IsFile(regs), NEW v, NEW u, WriteBoth(v, u)
  PROVE  Settles(rip)
<1>1. CASE Cur.a.kind = "mem"
  BY <1>1, KeptRegs, WriteRegFile, StoreSettles DEF WriteBoth
<1>2. CASE Cur.a.kind # "mem"
  BY <1>2, WriteRegFile, FinishSettles DEF WriteBoth
<1> QED BY <1>1, <1>2

LEMMA XchgSingle == IsFile(regs) /\ Xchg => Single
BY KeptRegs, ReadBothRefused, AbandonSettles, WriteBothSettles
   DEF Xchg, Combines, Executes, Begun, Single, Families

LEMMA XaddSingle == IsFile(regs) /\ Xadd => Single
BY KeptRegs, ReadBothRefused, AbandonSettles, WriteBothSettles
   DEF Xadd, Combines, Executes, Begun, Single, Families

LEMMA CmpxchgSingle == IsFile(regs) /\ Cmpxchg => Single
BY KeptRegs, ReadBothRefused, AbandonSettles, FinishSettles, WriteSettles, WriteGprFile
   DEF Cmpxchg, Combines, Executes, Begun, Single, Families

LEMMA CmovSingle == IsFile(regs) /\ Cmov => Single
BY KeptRegs, SourceRefused, AbandonSettles, FinishSettles, WriteSettles
   DEF Cmov, Plain, Executes, Begun, Single, Families

LEMMA BitTestSingle == IsFile(regs) /\ BitTest => Single
<1> SUFFICES ASSUME IsFile(regs), BitTest PROVE Single
  OBVIOUS
<1>1. Begun /\ Cur.op \in {"bt", "bts", "btr", "btc"}
  BY DEF BitTest, Plain, Executes, Begun
<1> DEFINE index   == ReadOperand(Cur.b)
           inReg   == Cur.a.kind \in {"reg", "bank"}
           address == Add(EffectiveAddress(Cur.a, regs),
                          SignExtended(index.value, Cur.w) \div ByteBits)
           v       == IF inReg THEN ReadOperand(Cur.a) ELSE Load(address, 1, rip)
           bit     == index.value % (IF inReg THEN ByteBits * Cur.w ELSE ByteBits)
<1>2. (CASE ~index.ok -> Abandon(regs, index.status)
         [] index.ok /\ ~v.ok -> Abandon(regs, v.status)
         [] index.ok /\ v.ok /\ Cur.op = "bt" -> Finish(regs)
         [] index.ok /\ v.ok /\ Cur.op # "bt" /\ inReg ->
                WriteOperand(Cur.a, WithBit(v.value, bit), regs)
         [] OTHER -> Store(address, 1, WithBit(v.value, bit), regs, regs, rip))
  BY DEF BitTest
<1>3. ~v.ok => OwnStatus(v.status, rip)
  BY <1>1, ReadRefused, LoadRefused
<1>4. ~index.ok => OwnStatus(index.status, rip)
  BY <1>1, ReadRefused
<1>5. Settles(rip)
  <2> HIDE DEF index, inReg, address, v, bit
  <2>1. CASE ~index.ok
    BY <1>2, <1>4, <2>1, KeptRegs, AbandonSettles
  <2>2. CASE index.ok /\ ~v.ok
    BY <1>2, <1>3, <2>2, KeptRegs, AbandonSettles
  <2>3. CASE index.ok /\ v.ok /\ Cur.op = "bt"
    BY <1>2, <2>3, FinishSettles
  <2>4. CASE index.ok /\ v.ok /\ Cur.op # "bt" /\ inReg
    <3>1. WriteOperand(Cur.a, WithBit(v.value, bit), regs)
      BY <1>2, <2>4
    <3> QED BY <1>1, <3>1, KeptRegs, WriteSettles
  <2>5. CASE index.ok /\ v.ok /\ Cur.op # "bt" /\ ~inReg
    BY <1>2, <2>5, KeptRegs, StoreSettles
  <2> QED BY <2>1, <2>2, <2>3, <2>4, <2>5
<1> QED BY <1>1, <1>5 DEF Single, Families

LEMMA PushSingle == IsFile(regs) /\ PushInsn => Single
BY KeptRegs, ReadRefused, AbandonSettles, PushSettles
   DEF PushInsn, Plain, Executes, Begun, Single, Families

LEMMA PopSingle == IsFile(regs) /\ Pop => Single
<1> SUFFICES ASSUME IsFile(regs), Pop PROVE Single
  OBVIOUS
<1>1. Begun /\ Cur.op = "pop"
  BY DEF Pop, Plain, Executes, Begun
<1> DEFINE v    == Load(regs["rsp"], Cur.w, rip)
           file == [regs EXCEPT !["rsp"] = Add(@, Cur.w)]
<1>2. IF v.ok THEN WriteOperand(Cur.a, v.value, file) ELSE Abandon(regs, v.status)
  BY DEF Pop
<1>3. IsFile(file) /\ Kept(file)
  BY <1>1, ExceptFile DEF Begun, Kept, Reg
<1>4. ~v.ok => OwnStatus(v.status, rip)
  BY LoadRefused
<1>5. Settles(rip)
  <2> HIDE DEF v, file
  <2> QED BY <1>1, <1>2, <1>3, <1>4, KeptRegs, AbandonSettles, WriteSettles
<1> QED BY <1>1, <1>5 DEF Single, Families

LEMMA JmpSingle == IsFile(regs) /\ Jmp => Single
BY KeptRegs, ReadRefused, AbandonSettles, FinishSettles
   DEF Jmp, Plain, Executes, Begun, Single, Families

LEMMA CallSingle == IsFile(regs) /\ Call => Single
BY KeptRegs, ReadRefused, AbandonSettles, PushSettles
   DEF Call, Plain, Executes, Begun, Single, Families

LEMMA BranchSingle == IsFile(regs) /\ Branch => Single
BY ExceptFile, FinishSettles DEF Branch, Plain, Executes, Begun, Single, Families, Reg

LEMMA RetSingle == IsFile(regs) /\ Ret => Single
BY KeptRegs, ExceptFile, LoadRefused, AbandonSettles, FinishSettles
   DEF Ret, Plain, Executes, Begun, Single, Families, Reg

LEMMA LeaveSingle == IsFile(regs) /\ Leave => Single
<1> SUFFICES ASSUME IsFile(regs), Leave PROVE Single
  OBVIOUS
<1>1. Begun /\ Cur.op = "leave"
  BY DEF Leave, Plain, Executes, Begun
<1> DEFINE v    == Load(regs["rbp"], 8, rip)
           file == [regs EXCEPT !["rsp"] = regs["rbp"]]
           done == [file EXCEPT !["rsp"] = Add(@, 8), !["rbp"] = v.value]
<1>2. IF v.ok THEN Finish(done) ELSE Abandon(file, v.status)
  BY DEF Leave
<1>3. IsFile(file) /\ Kept(file)
  BY <1>1, ExceptFile DEF Begun, Kept, Reg
<1>4. IsFile(done)
  BY <1>3 DEF IsFile, Reg
<1>5. ~v.ok => OwnStatus(v.status, rip)
  BY LoadRefused
<1>6. Settles(rip)
  <2> HIDE DEF v, file, done
  <2> QED BY <1>2, <1>3, <1>4, <1>5, AbandonSettles, FinishSettles
<1> QED BY <1>1, <1>6 DEF Single, Families

LEMMA NopSingle == IsFile(regs) /\ (Nop \/ Direction) => Single
BY FinishSettles DEF Nop, Direction, Plain, Executes, Begun, Single, Families

LEMMA HltSingle == IsFile(regs) /\ Hlt => Single
BY DEF Hlt, Plain, Executes, Begun, Single, Families, Settles, Blames, Latch, Status

LEMMA OutsideSingle == IsFile(regs) /\ Outside => Single
BY KeptRegs, UnsupportedOwn, AbandonSettles
   DEF Outside, Plain, Executes, Begun, Single, Families

LEMMA SyscallSingle ==
  IsFile(regs) /\ (SyscallWrite \/ SyscallExit \/ SyscallOther) => Single
<1>1. ASSUME IsFile(regs), SyscallWrite PROVE Single
  BY <1>1, KeptRegs, ExceptFile, FinishSettles, AbandonSettles
     DEF SyscallWrite, Executes, Begun, Single, Families, Reg, OwnStatus, MemoryFault, Status
<1>2. ASSUME IsFile(regs), SyscallExit PROVE Single
  BY <1>2 DEF SyscallExit, Plain, Executes, Begun, Single, Families, Settles, Blames,
              Latch, Status
<1>3. ASSUME IsFile(regs), SyscallOther PROVE Single
  BY <1>3, KeptRegs, AbandonSettles
     DEF SyscallOther, Plain, Executes, Begun, Single, Families, OwnStatus, Status
<1> QED BY <1>1, <1>2, <1>3
LEMMA InstructionSingle ==
  ASSUME IsFile(regs), Instruction
  PROVE  \/ Single
         \/ StringBegin \/ StringEnd \/ Movs \/ Stos \/ Lods \/ Scas \/ Cmps
BY MovSingle, LeaSingle, AluSingle, UnarySingle, ShiftSingle, ScanSingle, DivideSingle,
   XchgSingle, XaddSingle, CmpxchgSingle, CmovSingle,
   BitTestSingle, PushSingle, PopSingle, JmpSingle, CallSingle, BranchSingle,
   RetSingle, LeaveSingle, NopSingle, HltSingle, OutsideSingle, SyscallSingle
   DEF Instruction

\* One iteration of a string instruction.
Iteration ==
    /\ ctl = "string" /\ insn.op \in Families
    /\ UNCHANGED <<icount, insn_rip, sched, code, call, insn, snap, promise>>
    /\ Settles(insn_rip)

LEMMA AdvanceFile == ASSUME NEW file, NEW pointers PROVE IsFile(Advance(file, pointers))
BY DEF Advance, IsFile

LEMMA MovsIteration == IsFile(regs) /\ Movs => Iteration
BY KeptRegs, LoadRefused, AbandonSettles, StoreSettles, AdvanceFile
   DEF Movs, Iterates, Proceed, Iteration, Families

LEMMA StosIteration == IsFile(regs) /\ Stos => Iteration
BY KeptRegs, StoreSettles, AdvanceFile DEF Stos, Iterates, Proceed, Iteration, Families

LEMMA LodsIteration == IsFile(regs) /\ Lods => Iteration
BY KeptRegs, LoadRefused, AbandonSettles, FinishSettles, AdvanceFile
   DEF Lods, Iterates, Proceed, Iteration, Families

LEMMA CompareIteration ==
  ASSUME IsFile(regs), NEW family \in Families, NEW pointers, NEW x, NEW y,
         ~x.ok => OwnStatus(x.status, insn_rip),
         ~y.ok => OwnStatus(y.status, insn_rip),
         Compare(family, pointers, x, y)
  PROVE  Iteration
BY KeptRegs, AbandonSettles, FinishSettles, AdvanceFile
   DEF Compare, Iterates, Proceed, Iteration

LEMMA ScasIteration == IsFile(regs) /\ Scas => Iteration
<1>1. Loaded(ReadGpr("rax", insn.w)).ok
  BY DEF Loaded
<1> QED BY <1>1, LoadRefused, CompareIteration DEF Scas, Families

LEMMA CmpsIteration == IsFile(regs) /\ Cmps => Iteration
BY LoadRefused, CompareIteration DEF Cmps, Families

-----------------------------------------------------------------------------
(* The steps of the machine, as far as control and time are concerned.     *)

\* step() and run() without an instruction.
Unexecuted == Replay \/ FetchFault \/ DecodeError

LEMMA StepKinds ==
  ASSUME IsFile(regs), [Next]_vars
  PROVE  \/ Single \/ StringBegin \/ StringEnd \/ Iteration
         \/ Unexecuted
         \/ Tick \/ Fire \/ CallbackReturn \/ Retired
         \/ RunStep \/ RunReturn
         \/ Host \/ Callback
         \/ UNCHANGED vars
BY InstructionSingle, MovsIteration, StosIteration, LodsIteration, ScasIteration,
   CmpsIteration DEF Next, Machine, Unexecuted

-----------------------------------------------------------------------------
(***************************************************************************)
(* Where the emulator stands, and how much time the current instruction    *)
(* and the current run() have used.                                        *)
(***************************************************************************)
Standing ==
    /\ IsFile(regs)
    /\ icount \in Nat /\ start \in Nat /\ max \in Nat /\ snap.icount \in Nat
    /\ ctl \in {"host", "loop", "step", "string", "retire", "dispatch"}
    /\ back \in {"host", "loop"}
    /\ pc \in {"idle", "loop", "action"} /\ (pc = "idle" <=> ctl # "dispatch")
    /\ ctl = "host" => back = "host"
    /\ ctl = "loop" => back = "loop"
    /\ ctl = "string" => insn.op \in Families

\* Only a string instruction retires more than once.
Elapsed ==
    /\ ctl \in {"string", "retire", "dispatch"} => snap.icount <= icount
    /\ insn.op \notin Families =>
          /\ ctl = "retire" => icount = snap.icount
          /\ ctl = "dispatch" => icount = snap.icount + 1

\* An instruction of run() begins within the budget.
Budgeted ==
    back = "loop" =>
        /\ start <= icount
        /\ ctl = "step" => icount - start < max
        /\ ctl \in {"string", "retire", "dispatch"} =>
              start <= snap.icount /\ snap.icount - start < max
        /\ ctl = "loop" /\ icount - start > max =>
              insn.op \in Families /\ snap.icount - start < max

Course == Standing /\ Elapsed /\ Budgeted

LEMMA CourseInit == Init => Course
BY DEF Init, Course, Standing, Elapsed, Budgeted, IsFile, Sched!Init

LEMMA CourseNext == Course /\ [Next]_vars => Course'
<1> SUFFICES ASSUME Course, [Next]_vars PROVE Course'
  OBVIOUS
<1> USE DEF Course, Standing, Elapsed, Budgeted
<1>1. CASE Single
  BY <1>1 DEF Single, Begun, Settles, call, sched
<1>2. CASE StringBegin
  BY <1>2 DEF StringBegin, Executes, call, sched
<1>3. CASE StringEnd
  BY <1>3 DEF StringEnd, cpu, call, sched
<1>4. CASE Iteration
  BY <1>4 DEF Iteration, Settles, call, sched
<1>5. CASE Unexecuted
  BY <1>5 DEF Unexecuted, Replay, FetchFault, DecodeError, NotExecuted, cpu, call, sched
<1>6. CASE Tick
  BY <1>6 DEF Tick, call, Sched!Dispatch
<1>7. CASE Fire \/ CallbackReturn
  BY <1>7 DEF Fire, CallbackReturn, cpu, call, Sched!Fire, Sched!Return
<1>8. CASE Retired
  BY <1>8 DEF Retired, cpu, call, Sched!Leave
<1>9. CASE RunStep \/ RunReturn
  BY <1>9 DEF RunStep, RunReturn, GoesOn, cpu, call, sched
<1>10. CASE Host
  <2>1. ASSUME NEW entry \in Entry, NEW stack \in Stack, Reset(entry, stack)
        PROVE  Course'
    BY <2>1 DEF Reset, IsFile, call, sched
  <2>2. CASE CallStep
    BY <2>2 DEF CallStep, cpu, call, sched
  <2>3. ASSUME NEW budget \in Budgets, CallRun(budget) PROVE Course'
    BY <2>3, ClockAssumption DEF CallRun, cpu, sched
  <2>4. ASSUME NEW at \in Deadlines, NEW action \in Actions, HostSchedule(at, action)
        PROVE  Course'
    BY <2>4 DEF HostSchedule, cpu, call, Sched!HostSchedule, Sched!Schedule
  <2>5. ASSUME NEW b \in HostWrites, HostWrite(b[1], b[2], b[3]) PROVE Course'
    BY <2>5 DEF HostWrite, BusWrite, call, sched
  <2>6. ASSUME NEW value \in HostRips, SetRip(value) PROVE Course'
    BY <2>6 DEF SetRip, call, sched
  <2>7. ASSUME NEW g \in HostGprs, SetGpr(g[1], g[2]) PROVE Course'
    BY <2>7 DEF SetGpr, IsFile, call, sched
  <2> QED BY <1>10, <2>1, <2>2, <2>3, <2>4, <2>5, <2>6, <2>7 DEF Host
<1>11. CASE Callback
  <2>1. ASSUME NEW at \in Deadlines, NEW action \in Actions,
               CallbackSchedule(at, action)
        PROVE  Course'
    BY <2>1 DEF CallbackSchedule, cpu, call, Sched!CallbackSchedule, Sched!Schedule
  <2>2. ASSUME NEW b \in HostWrites, CallbackWrite(b[1], b[2], b[3]) PROVE Course'
    BY <2>2 DEF CallbackWrite, BusWrite, call, sched
  <2> QED BY <1>11, <2>1, <2>2 DEF Callback
<1>12. CASE UNCHANGED vars
  BY <1>12 DEF vars, cpu, call, sched
<1> QED BY <1>1, <1>2, <1>3, <1>4, <1>5, <1>6, <1>7, <1>8, <1>9, <1>10, <1>11, <1>12,
           StepKinds

LEMMA CourseHolds == Spec => []Course
BY CourseInit, CourseNext, PTL DEF Spec
-----------------------------------------------------------------------------
(***************************************************************************)
(* A stopped CPU stays stopped until reset() (cpu.hpp 25): no instruction  *)
(* begins, time moves by the instruction in progress only, and the status  *)
(* is replaced by a debug exit or not at all, whatever callbacks do.       *)
(***************************************************************************)
StopStep ==
    ~IsRunning /\ exit'.kind # "kRunning" =>
        /\ exit' = exit \/ exit'.kind = "kDebugExit"
        /\ UNCHANGED <<insn_rip, snap>>
        /\ icount' # icount => insn.op \in Families \/ icount = snap.icount

\* A bus write from outside leaves the status or makes it a debug exit.
LEMMA BusWriteExit ==
  ASSUME NEW address, NEW w, NEW v, BusWrite(address, w, v)
  PROVE  \/ exit' = exit
         \/ exit'.kind = "kDebugExit" /\ exit'.rip = insn_rip /\ exit'.detail = "none"
BY DEF BusWrite, ExitAfter, DebugExit, Status

LEMMA StopStepHolds == Course /\ [Next]_vars => StopStep
<1> SUFFICES ASSUME Course, [Next]_vars, ~IsRunning, exit'.kind # "kRunning"
             PROVE  StopStep
  BY DEF StopStep
<1> USE DEF StopStep
<1>1. CASE Single \/ StringBegin
  BY <1>1 DEF Single, Begun, StringBegin, Executes
<1>2. CASE StringEnd
  BY <1>2 DEF StringEnd, cpu
<1>3. CASE Iteration
  BY <1>3 DEF Iteration, Settles, Blames
<1>4. CASE Unexecuted
  BY <1>4 DEF Unexecuted, Replay, FetchFault, DecodeError, NotExecuted, cpu
<1>5. CASE Tick
  BY <1>5 DEF Tick, Course, Standing, Elapsed
<1>6. CASE Fire \/ CallbackReturn \/ Retired
  BY <1>6 DEF Fire, CallbackReturn, Retired, cpu
<1>7. CASE RunStep \/ RunReturn
  BY <1>7 DEF RunStep, RunReturn, cpu
<1>8. CASE Host
  <2>1. ASSUME NEW entry \in Entry, NEW stack \in Stack, Reset(entry, stack)
        PROVE  StopStep
    BY <2>1 DEF Reset, Running
  <2>2. CASE CallStep
    BY <2>2 DEF CallStep, cpu
  <2>3. ASSUME NEW budget \in Budgets, CallRun(budget) PROVE StopStep
    BY <2>3 DEF CallRun, cpu
  <2>4. ASSUME NEW at \in Deadlines, NEW action \in Actions, HostSchedule(at, action)
        PROVE  StopStep
    BY <2>4 DEF HostSchedule, cpu
  <2>5. ASSUME NEW b \in HostWrites, HostWrite(b[1], b[2], b[3]) PROVE StopStep
    BY <2>5, BusWriteExit DEF HostWrite, BusWrite
  <2>6. ASSUME NEW value \in HostRips, SetRip(value) PROVE StopStep
    BY <2>6 DEF SetRip
  <2>7. ASSUME NEW g \in HostGprs, SetGpr(g[1], g[2]) PROVE StopStep
    BY <2>7 DEF SetGpr
  <2> QED BY <1>8, <2>1, <2>2, <2>3, <2>4, <2>5, <2>6, <2>7 DEF Host
<1>9. CASE Callback
  <2>1. ASSUME NEW at \in Deadlines, NEW action \in Actions,
               CallbackSchedule(at, action)
        PROVE  StopStep
    BY <2>1 DEF CallbackSchedule, cpu
  <2>2. ASSUME NEW b \in HostWrites, CallbackWrite(b[1], b[2], b[3]) PROVE StopStep
    BY <2>2, BusWriteExit DEF CallbackWrite, BusWrite
  <2> QED BY <1>9, <2>1, <2>2 DEF Callback
<1>10. CASE UNCHANGED vars
  BY <1>10 DEF vars, cpu
<1> QED BY <1>1, <1>2, <1>3, <1>4, <1>5, <1>6, <1>7, <1>8, <1>9, <1>10, StepKinds
           DEF Course, Standing

THEOREM StopIsFinal == Spec => StoppedStays
<1>1. Course /\ [Next]_vars => [StopStep]_vars
  BY StopStepHolds
<1>2. Spec => [][StopStep]_vars
  BY <1>1, CourseHolds, PTL DEF Spec
<1> QED BY <1>2 DEF StoppedStays, StopStep

-----------------------------------------------------------------------------
(***************************************************************************)
(* run() honours its budget (cpu.hpp 163): it comes back early only with a *)
(* terminal status, and late only by the iterations of a string            *)
(* instruction that began within the budget.                               *)
(***************************************************************************)
BudgetStep ==
    ctl = "loop" /\ ctl' = "host" =>
        /\ IsRunning => icount - start >= max
        /\ icount - start > max =>
              insn.op \in Families /\ snap.icount - start < max

LEMMA BudgetStepHolds == Course /\ [Next]_vars => BudgetStep
<1> SUFFICES ASSUME Course, [Next]_vars, ctl = "loop", ctl' = "host"
             PROVE  BudgetStep
  BY DEF BudgetStep
<1>1. CASE RunReturn
  BY <1>1 DEF RunReturn, GoesOn, BudgetStep, Course, Standing, Budgeted
<1>2. ~(Single \/ StringBegin \/ StringEnd \/ Iteration)
  BY DEF Single, Begun, StringBegin, Executes, StringEnd, Iteration
<1>3. ~(Unexecuted \/ Tick \/ Fire \/ CallbackReturn \/ Retired \/ RunStep)
  BY DEF Unexecuted, Replay, FetchFault, DecodeError, NotExecuted, Tick, Fire,
         CallbackReturn, Retired, RunStep
<1>4. ~(Host \/ Callback)
  BY DEF Host, Reset, CallStep, CallRun, HostSchedule, HostWrite, SetRip, SetGpr,
         Callback, CallbackSchedule, CallbackWrite
<1>5. ~(UNCHANGED vars)
  BY DEF vars
<1> QED BY <1>1, <1>2, <1>3, <1>4, <1>5, StepKinds DEF Course, Standing

THEOREM BudgetIsHonoured == Spec => BudgetHonoured
<1>1. Course /\ [Next]_vars => [BudgetStep]_vars
  BY BudgetStepHolds
<1>2. Spec => [][BudgetStep]_vars
  BY <1>1, CourseHolds, PTL DEF Spec
<1> QED BY <1>2 DEF BudgetHonoured, BudgetStep

-----------------------------------------------------------------------------
(***************************************************************************)
(* A fault is precise: the access that faults has changed no memory, no    *)
(* register (but rsp, in pop and leave) and no clock.                      *)
(***************************************************************************)
FaultStep ==
    exit # exit' /\ exit'.detail = "kMemory" =>
        /\ UNCHANGED <<bytes, icount, queue>>
        /\ \A r \in Reg : regs'[r] = regs[r] \/ (r = "rsp" /\ insn'.op \in {"pop", "leave"})

LEMMA FaultStepHolds == IsFile(regs) /\ [Next]_vars => FaultStep
<1> SUFFICES ASSUME IsFile(regs), [Next]_vars, exit # exit', exit'.detail = "kMemory"
             PROVE  FaultStep
  BY DEF FaultStep
<1>1. CASE Single \/ Iteration
  BY <1>1 DEF Single, Begun, Iteration, Settles, Kept, FaultStep, sched
<1>2. ~(StringBegin \/ StringEnd)
  BY DEF StringBegin, StringEnd, cpu
<1>3. ~Unexecuted
  BY DEF Unexecuted, Replay, FetchFault, DecodeError, NotExecuted, Latch, Status, cpu
<1>4. ~(Tick \/ Fire \/ CallbackReturn \/ Retired \/ RunStep \/ RunReturn)
  BY DEF Tick, Fire, CallbackReturn, Retired, RunStep, RunReturn, cpu
<1>5. ~(Host \/ Callback)
  BY BusWriteExit
     DEF Host, Reset, Running, CallStep, CallRun, HostSchedule, HostWrite, SetRip, SetGpr,
         Callback, CallbackSchedule, CallbackWrite, cpu
<1>6. ~(UNCHANGED vars)
  BY DEF vars, cpu
<1> QED BY <1>1, <1>2, <1>3, <1>4, <1>5, <1>6, StepKinds

THEOREM FaultsArePrecise == Spec => FaultAtomic
<1>1. Course /\ [Next]_vars => [FaultStep]_vars
  BY FaultStepHolds DEF Course, Standing
<1>2. Spec => [][FaultStep]_vars
  BY <1>1, CourseHolds, PTL DEF Spec
<1> QED BY <1>2 DEF FaultAtomic, FaultStep

-----------------------------------------------------------------------------
(***************************************************************************)
(* The status names the instruction that stopped the run (cpu.hpp 44).     *)
(* What can be decoded depends on the program and on the layout of memory, *)
(* and neither changes while the machine runs.                             *)
(***************************************************************************)
Blamed == code \in Programs /\ ExitBlames

LEMMA BlamedFrame ==
  ASSUME Blamed, UNCHANGED <<exit, insn_rip, code>>
  PROVE  Blamed'
BY DEF Blamed, ExitBlames, IsRunning, Decodes, Readable, ByteReadable, Mem!Errors

\* An address from which not a byte can be fetched has no instruction.
LEMMA FetchFaultBlamed == Blamed /\ FetchFault => Blamed'
<1> SUFFICES ASSUME Blamed, FetchFault PROVE Blamed'
  OBVIOUS
<1>1. ~Decodes(rip)
  BY FetchAssumption, ProgramAssumption DEF FetchFault, Decodes, Blamed, IsInsn
<1> QED BY <1>1 DEF FetchFault, NotExecuted, Latch, Status, Blamed, ExitBlames, IsRunning,
                    Decodes, Readable, ByteReadable, Mem!Errors

LEMMA DecodeErrorBlamed == Blamed /\ DecodeError => Blamed'
BY DEF DecodeError, NotExecuted, Latch, Status, Blamed, ExitBlames, IsRunning,
       Decodes, Readable, ByteReadable, Mem!Errors

LEMMA BlamedNext == IsFile(regs) /\ Blamed /\ [Next]_vars => Blamed'
<1> SUFFICES ASSUME IsFile(regs), Blamed, [Next]_vars PROVE Blamed'
  OBVIOUS
<1>1. CASE Single \/ StringBegin
  BY <1>1 DEF Single, Begun, StringBegin, Executes, Settles, Blames,
              Blamed, ExitBlames, IsRunning
<1>2. CASE Iteration
  BY <1>2, BlamedFrame DEF Iteration, Settles, Blames, Blamed, ExitBlames, IsRunning
<1>3. CASE Unexecuted
  BY <1>3, FetchFaultBlamed, DecodeErrorBlamed, BlamedFrame DEF Unexecuted, Replay, cpu
<1>4. CASE StringEnd \/ Tick \/ Fire \/ CallbackReturn \/ Retired \/ RunStep \/ RunReturn
  BY <1>4, BlamedFrame
     DEF StringEnd, Tick, Fire, CallbackReturn, Retired, RunStep, RunReturn, cpu
<1>5. ASSUME NEW address, NEW w, NEW v, BusWrite(address, w, v) PROVE Blamed'
  BY <1>5, BusWriteExit, BlamedFrame DEF BusWrite, Blamed, ExitBlames, IsRunning
<1>6. ASSUME NEW entry \in Entry, NEW stack \in Stack, Reset(entry, stack) PROVE Blamed'
  BY <1>6 DEF Reset, Running, Blamed, ExitBlames, IsRunning
<1>7. CASE Host
  BY <1>5, <1>6, <1>7, BlamedFrame
     DEF Host, CallStep, CallRun, HostSchedule, HostWrite, SetRip, SetGpr, cpu
<1>8. CASE Callback
  BY <1>5, <1>8, BlamedFrame DEF Callback, CallbackSchedule, CallbackWrite, cpu
<1>9. CASE UNCHANGED vars
  BY <1>9, BlamedFrame DEF vars, cpu
<1> QED BY <1>1, <1>2, <1>3, <1>4, <1>6, <1>7, <1>8, <1>9, StepKinds

THEOREM StopsBlame == Spec => []ExitBlames
<1>1. Init => Blamed
  BY DEF Init, Running, Blamed, ExitBlames, IsRunning
<1>2. Blamed => ExitBlames
  BY DEF Blamed
<1>3. Course /\ Blamed /\ [Next]_vars => Blamed'
  BY BlamedNext DEF Course, Standing
<1> QED BY <1>1, <1>2, <1>3, CourseHolds, PTL DEF Spec
-----------------------------------------------------------------------------
(***************************************************************************)
(* Virtual time: the composition of the core, which advances the clock one *)
(* retired instruction or iteration at a time, with the scheduler, whose   *)
(* callbacks schedule further events while it is being dispatched.         *)
(***************************************************************************)

Pending == [at : Nat, seq : Nat, action : Actions, born : Nat]
Past == [at : Nat, seq : Nat, action : Actions, born : Nat, now : Nat]

\* The first icount at which a dispatch can still fire an event.
Soonest == IF pc = "idle" THEN icount + 1 ELSE now

\* What the clock and the queue are.
Numbered ==
    /\ next_seq \in 0 .. MaxEvents
    /\ promise \in [0 .. MaxEvents - 1 -> Nat]
    /\ now \in Nat /\ (pc # "idle" => now = icount)
    /\ queue \in SUBSET Pending
    /\ log \in Seq(Past)

\* Sequence numbers identify events, pending and past.
Identified ==
    /\ \A e \in queue : e.seq < next_seq
    /\ \A e, f \in queue : e.seq = f.seq => e = f
    /\ \A i \in 1 .. Len(log) :
          log[i].seq < next_seq /\ \A e \in queue : e.seq # log[i].seq

\* A pending event is promised its deadline, or the next dispatch when that
\* has passed; a past one has had its promise kept.
Promised ==
    /\ \A e \in queue : promise[e.seq] = Larger(e.at, Soonest)
    /\ \A i \in 1 .. Len(log) : log[i].now = promise[log[i].seq]

Clocked == Numbered /\ Identified /\ Promised

-----------------------------------------------------------------------------
LEMMA LargerNat ==
  ASSUME NEW a \in Nat, NEW b \in Nat
  PROVE  Larger(a, b) \in Nat /\ Larger(a, b) >= a /\ Larger(a, b) >= b
BY DEF Larger

LEMMA PastEntry ==
  ASSUME log \in Seq(Past), NEW i \in 1 .. Len(log)
  PROVE  log[i] \in Past
<1> HIDE DEF Past
<1> QED OBVIOUS

LEMMA ClockedOnTime == Standing /\ Clocked => OnTime
<1> SUFFICES ASSUME Standing, Clocked PROVE OnTime
  OBVIOUS
<1>1. \A e \in queue : e.at \in Nat
  BY DEF Clocked, Numbered, Pending
<1>2. Soonest \in Nat
  BY DEF Soonest, Standing, Clocked, Numbered
<1> QED BY <1>1, <1>2, LargerNat DEF OnTime, Clocked, Promised, Soonest

LEMMA QuietClocked ==
  ASSUME Clocked, UNCHANGED <<queue, next_seq, pc, now, log, icount, promise>>
  PROVE  Clocked'
BY DEF Clocked, Numbered, Identified, Promised, Soonest

LEMMA TickClocked == Standing /\ Clocked /\ Tick => Clocked'
BY DEF Standing, Tick, Sched!Dispatch, Clocked, Numbered, Identified, Promised, Soonest

LEMMA ReturnClocked == Clocked /\ CallbackReturn => Clocked'
BY DEF CallbackReturn, cpu, Sched!Return, Clocked, Numbered, Identified, Promised, Soonest

LEMMA ScheduleClocked ==
  ASSUME Standing, Clocked, NEW at \in Nat, NEW action \in Actions,
         Sched!Schedule(at, action),
         promise' = [promise EXCEPT ![next_seq] = Larger(at, Soonest)],
         UNCHANGED <<pc, now, log, icount>>
  PROVE  Clocked'
<1> DEFINE r == [at |-> at, seq |-> next_seq, action |-> action, born |-> Len(log)]
<1>1. /\ next_seq < MaxEvents
      /\ queue' = queue \cup {r}
      /\ next_seq' = next_seq + 1
  BY DEF Sched!Schedule
<1>2. /\ next_seq \in 0 .. MaxEvents - 1 /\ next_seq \in Nat
      /\ Len(log) \in Nat
      /\ \A e \in queue : e.seq \in Nat /\ e.at \in Nat
  BY <1>1, ClockAssumption DEF Clocked, Numbered, Pending
<1>3. r \in Pending /\ r.seq = next_seq /\ r.at = at
  BY <1>2 DEF Pending
<1>4. Soonest \in Nat /\ Soonest' = Soonest
  BY DEF Soonest, Standing, Clocked, Numbered
<1>5. \A i \in 1 .. Len(log) : log[i].seq \in Nat
  BY PastEntry DEF Clocked, Numbered, Past
<1>6. /\ promise' \in [0 .. MaxEvents - 1 -> Nat]
      /\ promise'[next_seq] = Larger(at, Soonest)
      /\ \A s \in 0 .. MaxEvents - 1 : s # next_seq => promise'[s] = promise[s]
  BY <1>2, <1>4, LargerNat DEF Clocked, Numbered
<1> HIDE DEF r
<1>7. Numbered'
  BY <1>1, <1>2, <1>3, <1>6, ClockAssumption DEF Clocked, Numbered
<1>8. Identified'
  BY <1>1, <1>2, <1>3, <1>5 DEF Clocked, Identified
<1>9. Promised'
  <2>1. \A e \in queue : e.seq \in 0 .. MaxEvents - 1 /\ e.seq # next_seq
    BY <1>1, <1>2, ClockAssumption DEF Clocked, Identified
  <2>2. \A i \in 1 .. Len(log) : log[i].seq \in 0 .. MaxEvents - 1 /\ log[i].seq # next_seq
    BY <1>1, <1>2, <1>5, ClockAssumption DEF Clocked, Identified
  <2> QED BY <1>1, <1>3, <1>4, <1>6, <2>1, <2>2 DEF Clocked, Promised
<1> QED BY <1>7, <1>8, <1>9 DEF Clocked

LEMMA FireClocked == Standing /\ Clocked /\ Fire => Clocked'
<1> SUFFICES ASSUME Standing, Clocked, Fire PROVE Clocked'
  OBVIOUS
<1>1. PICK e \in queue :
        /\ e.at <= now
        /\ queue' = queue \ {e}
        /\ log' = Append(log, [at |-> e.at, seq |-> e.seq, action |-> e.action,
                               born |-> e.born, now |-> now])
  BY DEF Fire, Sched!Fire, Sched!IsDue
<1>2. /\ pc = "loop" /\ pc' = "action"
      /\ UNCHANGED <<next_seq, now, icount, promise>>
  BY DEF Fire, Sched!Fire, cpu
<1> DEFINE r == [at |-> e.at, seq |-> e.seq, action |-> e.action,
                 born |-> e.born, now |-> now]
           n == Len(log)
<1>3. e \in Pending /\ e.at \in Nat /\ e.seq \in Nat
  BY DEF Clocked, Numbered, Pending
<1>4. r \in Past /\ r.seq = e.seq /\ r.now = now
  BY <1>3 DEF Pending, Past, Clocked, Numbered
<1>5. /\ log' \in Seq(Past) /\ n \in Nat
      /\ Len(log') = n + 1
      /\ log'[n + 1] = r
      /\ \A i \in 1 .. n : log'[i] = log[i]
  <2> HIDE DEF r, Past
  <2>1. log \in Seq(Past) /\ log' = Append(log, r)
    BY <1>1 DEF Clocked, Numbered, r
  <2> QED BY <1>4, <2>1
<1>6. promise[e.seq] = now
  BY <1>1, <1>2, <1>3 DEF Clocked, Numbered, Promised, Soonest, Larger
<1> HIDE DEF r, n
<1>7. 1 .. Len(log') = (1 .. n) \cup {n + 1}
  BY <1>5
<1>8. Numbered'
  BY <1>1, <1>2, <1>5 DEF Clocked, Numbered
<1>9. Identified'
  BY <1>1, <1>2, <1>4, <1>5, <1>7 DEF Clocked, Identified, n
<1>10. Promised'
  BY <1>1, <1>2, <1>4, <1>5, <1>6, <1>7 DEF Clocked, Promised, Soonest, n
<1> QED BY <1>8, <1>9, <1>10 DEF Clocked

\* A queue that is not empty has a top.
LEMMA PendingTop ==
  ASSUME queue \in SUBSET Pending, queue # {}
  PROVE  \E e \in queue : Sched!IsTop(e)
<1>1. \A e \in queue : e.at \in Nat /\ e.seq \in Nat
  BY DEF Pending
<1> DEFINE Ats == {e.at : e \in queue}
<1>2. PICK t \in Ats : \A u \in Ats : t <= u
  <2>1. Ats \in SUBSET Nat /\ Ats # {}
    BY <1>1
  <2> HIDE DEF Ats
  <2> QED BY <2>1, LeastNatural
<1> DEFINE Seqs == {s \in Nat : \E e \in queue : e.at = t /\ e.seq = s}
<1>3. PICK s \in Seqs : \A u \in Seqs : s <= u
  <2>1. Seqs \in SUBSET Nat /\ Seqs # {}
    BY <1>1
  <2> HIDE DEF Seqs
  <2> QED BY <2>1, LeastNatural
<1>4. PICK e \in queue : e.at = t /\ e.seq = s
  OBVIOUS
<1>5. ASSUME NEW f \in queue, Sched!Before(f, e) PROVE FALSE
  <2>1. f.at \in Nat /\ f.seq \in Nat /\ e.at \in Nat /\ e.seq \in Nat
    BY <1>1
  <2>2. e.at <= f.at
    BY <1>2, <1>4
  <2>3. f.at = t /\ f.seq < s
    BY <1>4, <1>5, <2>1, <2>2 DEF Sched!Before
  <2>4. f.seq \in Seqs
    BY <2>1, <2>3
  <2> QED BY <1>3, <1>4, <2>1, <2>3, <2>4
<1> QED BY <1>4, <1>5 DEF Sched!IsTop

\* When dispatch() returns nothing pending is due, so the next icount comes
\* too late for no one.
LEMMA LeaveClocked == Standing /\ Clocked /\ Retired => Clocked'
<1> SUFFICES ASSUME Standing, Clocked, Retired PROVE Clocked'
  OBVIOUS
<1>1. /\ pc = "loop" /\ pc' = "idle" /\ now = icount
      /\ \A e \in queue : ~Sched!IsDue(e)
      /\ UNCHANGED <<queue, next_seq, now, log, icount, promise>>
  BY DEF Retired, Sched!Leave, cpu, Clocked, Numbered
<1>2. \A e \in queue : e.at \in Nat /\ e.seq \in Nat
  BY DEF Clocked, Numbered, Pending
<1>3. now \in Nat /\ icount \in Nat
  BY DEF Standing, Clocked, Numbered
<1>4. ASSUME NEW f \in queue PROVE f.at > now
  <2>1. PICK e \in queue : Sched!IsTop(e)
    BY PendingTop DEF Clocked, Numbered
  <2>2. e.at > now
    BY <1>1, <1>2, <1>3, <2>1 DEF Sched!IsDue
  <2>3. e.at <= f.at
    BY <1>2, <2>1 DEF Sched!IsTop, Sched!Before
  <2> QED BY <1>2, <1>3, <2>2, <2>3
<1>5. Promised'
  <2>1. Soonest = now /\ Soonest' = icount + 1
    BY <1>1 DEF Soonest
  <2> QED BY <1>1, <1>2, <1>3, <1>4, <2>1 DEF Clocked, Promised, Larger
<1> QED BY <1>1, <1>5 DEF Clocked, Numbered, Identified

\* reset() sets the clock back and leaves the queue alone: what was still
\* pending is promised anew.
LEMMA ResetClocked ==
  ASSUME Standing, Clocked, NEW entry, NEW stack, Reset(entry, stack)
  PROVE  Clocked'
<1>1. /\ pc = "idle" /\ icount' = 0
      /\ UNCHANGED <<queue, next_seq, pc, now, log>>
  BY DEF Reset, sched, Standing
<1> DEFINE pending(s) == {e \in queue : e.seq = s}
<1>2. /\ \A e \in queue : e.at \in Nat /\ e.seq \in 0 .. MaxEvents - 1
      /\ \A i \in 1 .. Len(log) : log[i].seq \in 0 .. MaxEvents - 1
  <2>1. \A e \in queue : e.at \in Nat /\ e.seq \in Nat /\ e.seq < next_seq
    BY DEF Clocked, Numbered, Identified, Pending
  <2>2. \A i \in 1 .. Len(log) : log[i].seq \in Nat /\ log[i].seq < next_seq
    BY PastEntry DEF Clocked, Numbered, Identified, Past
  <2> QED BY <2>1, <2>2, ClockAssumption DEF Clocked, Numbered
<1>3. promise' = [s \in 0 .. MaxEvents - 1 |->
          IF pending(s) = {} THEN promise[s]
          ELSE Larger((CHOOSE e \in pending(s) : TRUE).at, 1)]
  BY DEF Reset, Clocked, Numbered
<1>4. \A s \in 0 .. MaxEvents - 1 :
          pending(s) # {} => (CHOOSE e \in pending(s) : TRUE) \in queue
  OBVIOUS
<1>5. \A e \in queue : (CHOOSE f \in pending(e.seq) : TRUE) = e
  BY DEF Clocked, Identified
<1> HIDE DEF pending
<1>6. promise' \in [0 .. MaxEvents - 1 -> Nat]
  <2>1. \A s \in 0 .. MaxEvents - 1 :
           pending(s) # {} => Larger((CHOOSE e \in pending(s) : TRUE).at, 1) \in Nat
    BY <1>2, <1>4, LargerNat
  <2> QED BY <1>3, <2>1 DEF Clocked, Numbered
<1>7. \A e \in queue : promise'[e.seq] = Larger(e.at, 1)
  BY <1>2, <1>3, <1>5 DEF pending
<1>8. \A i \in 1 .. Len(log) : promise'[log[i].seq] = promise[log[i].seq]
  BY <1>2, <1>3 DEF pending, Clocked, Identified
<1>9. Soonest' = 1
  BY <1>1 DEF Soonest
<1> QED BY <1>1, <1>6, <1>7, <1>8, <1>9 DEF Clocked, Numbered, Identified, Promised

LEMMA ClockedInit == Init => Clocked
BY ClockAssumption DEF Init, Sched!Init, Clocked, Numbered, Identified, Promised

LEMMA ClockedNext == Standing /\ Clocked /\ [Next]_vars => Clocked'
<1> SUFFICES ASSUME Standing, Clocked, [Next]_vars PROVE Clocked'
  OBVIOUS
<1>1. CASE Single \/ StringBegin \/ StringEnd \/ Iteration
  BY <1>1, QuietClocked
     DEF Single, Begun, StringBegin, Executes, StringEnd, Iteration, cpu, sched
<1>2. CASE Unexecuted \/ RunStep \/ RunReturn
  BY <1>2, QuietClocked
     DEF Unexecuted, Replay, FetchFault, DecodeError, NotExecuted, RunStep, RunReturn,
         cpu, sched
<1>3. CASE Tick
  BY <1>3, TickClocked
<1>4. CASE Fire
  BY <1>4, FireClocked
<1>5. CASE CallbackReturn
  BY <1>5, ReturnClocked
<1>6. CASE Retired
  BY <1>6, LeaveClocked
<1>7. ASSUME NEW address, NEW w, NEW v, BusWrite(address, w, v) PROVE Clocked'
  BY <1>7, QuietClocked DEF BusWrite, sched
<1>8. CASE Host
  <2>1. ASSUME NEW entry \in Entry, NEW stack \in Stack, Reset(entry, stack)
        PROVE  Clocked'
    BY <2>1, ResetClocked
  <2>2. ASSUME NEW at \in Deadlines, NEW action \in Actions, HostSchedule(at, action)
        PROVE  Clocked'
    BY <2>2, ClockAssumption, ScheduleClocked
       DEF HostSchedule, Sched!HostSchedule, cpu, Soonest
  <2>3. ASSUME CallStep \/ (\E budget \in Budgets : CallRun(budget))
               \/ (\E value \in HostRips : SetRip(value))
               \/ (\E g \in HostGprs : SetGpr(g[1], g[2]))
        PROVE  Clocked'
    BY <2>3, QuietClocked DEF CallStep, CallRun, SetRip, SetGpr, cpu, sched
  <2> QED BY <1>7, <1>8, <2>1, <2>2, <2>3 DEF Host, HostWrite
<1>9. CASE Callback
  <2>1. ASSUME NEW at \in Deadlines, NEW action \in Actions, CallbackSchedule(at, action)
        PROVE  Clocked'
    BY <2>1, ClockAssumption, ScheduleClocked
       DEF CallbackSchedule, Sched!CallbackSchedule, cpu, Soonest
  <2> QED BY <1>7, <1>9, <2>1 DEF Callback, CallbackWrite
<1>10. CASE UNCHANGED vars
  BY <1>10, QuietClocked DEF vars, cpu, sched
<1> QED BY <1>1, <1>2, <1>3, <1>4, <1>5, <1>6, <1>8, <1>9, <1>10, StepKinds DEF Standing

(***************************************************************************)
(* Every event fires at exactly the icount it asked for, or at the first   *)
(* dispatch after it was scheduled if that is later (cpu.hpp 65), whatever *)
(* mix of instructions, string iterations, faults, calls and callbacks     *)
(* moves the clock.                                                        *)
(***************************************************************************)
THEOREM CpuOnTime == Spec => []OnTime
<1>1. Course => Standing
  BY DEF Course
<1>2. Spec => []Clocked
  BY <1>1, ClockedInit, ClockedNext, CourseHolds, PTL DEF Spec
<1> QED BY <1>1, <1>2, ClockedOnTime, CourseHolds, PTL
==============================================================================
