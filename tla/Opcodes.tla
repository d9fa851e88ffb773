------------------------------- MODULE Opcodes -------------------------------
(***************************************************************************)
(* The opcode tables of the decoder (arch/x86_64/tables.cpp).              *)
(*                                                                         *)
(* A table is a set of rows, each giving one entry to a set of opcodes; an *)
(* opcode in no row is invalid.  An entry names its instruction (families  *)
(* that decode alike share a name), where its operands come from, the rule *)
(* for its operand size, its trailing immediate and its group.             *)
(*                                                                         *)
(* The byte forms of the slots (kRm8, kReg8, kOpr8, kAcc8) in entries whose*)
(* size is one byte are written as the full forms, which have that width.  *)
(***************************************************************************)
EXTENDS Naturals, Sequences

\* make_ent().  islot is 1-based; 0 is kNoImm.
Ent(mn, slots, sz) ==
    [mn |-> mn, slots |-> slots, sz |-> sz, imm |-> "k0", islot |-> 0, grp |-> "none"]
Imm(ent, kind, i) == [ent EXCEPT !.imm = kind, !.islot = i]
Grouped(ent, g) == [ent EXCEPT !.grp = g]

Invalid == Ent("invalid", <<>>, "kD")
Plain(mn) == Ent(mn, <<>>, "kD")

Slip_RmReg == <<"kReg", "kRm">>
RmReg == <<"kRm", "kReg">>
RegRm == <<"kReg", "kRm">>

\* Opcode op works on bytes, op + 1 on the operand size.
Pair(op, mn, slots) ==
    {<<{op}, Ent(mn, slots, "kB")>>, <<{op + 1}, Ent(mn, slots, "kD")>>}
WithImm(rows, byte, full, i) ==
    {<<r[1], Imm(r[2], IF r[2].sz = "kB" THEN byte ELSE full, i)>> : r \in rows}
InGroup(rows, g) == {<<r[1], Grouped(r[2], g)>> : r \in rows}

\* The forms of add, or, adc, sbb, and, sub, xor and cmp.
AluFamily(base) ==
    Pair(base, "alu", RmReg) \cup Pair(base + 2, "alu", RegRm)
        \cup WithImm(Pair(base + 4, "alu", <<"kAcc">>), "k8", "kSz4", 2)

AluFamilies == UNION {AluFamily(8 * f) : f \in 0 .. 7}

kPrimary ==
    AluFamilies
    \cup Pair(\h84, "test", RmReg) \cup Pair(\h86, "xchg", RmReg)
    \cup Pair(\h88, "mov", RmReg) \cup Pair(\h8A, "mov", RegRm)
    \cup WithImm(Pair(\hA0, "mov", <<"kAcc", "kMem">>), "k64", "k64", 2)
    \cup WithImm(Pair(\hA2, "mov", <<"kMem", "kAcc">>), "k64", "k64", 1)
    \cup WithImm(Pair(\hA8, "test", <<"kAcc">>), "k8", "kSz4", 2)
    \cup WithImm(Pair(\hC6, "mov", <<"kRm">>), "k8", "kSz4", 2)
    \cup WithImm(Pair(\hE4, "in", <<"kAcc">>), "k8", "k8", 2)
    \cup WithImm(Pair(\hE6, "out", <<"kNone", "kAcc">>), "k8", "k8", 1)
    \cup Pair(\hEC, "in", <<"kAcc", "kDx">>) \cup Pair(\hEE, "out", <<"kDx", "kAcc">>)
    \cup InGroup(WithImm(Pair(\h80, "grp1", <<"kRm">>), "k8", "kSz4", 2), "kGrp1")
    \cup InGroup(WithImm(Pair(\hC0, "shift", <<"kRm">>), "k8", "k8", 2), "kGrp2")
    \cup InGroup(Pair(\hD0, "shift", <<"kRm", "kOne">>), "kGrp2")
    \cup InGroup(Pair(\hD2, "shift", <<"kRm", "kCl">>), "kGrp2")
    \cup InGroup(Pair(\hF6, "grp3", <<"kRm">>), "kGrp3")
    \cup {<<{\hFE}, Grouped(Ent("incdec", <<"kRm">>, "kB"), "kGrp4")>>,
          <<{\hFF}, Grouped(Ent("grp5", <<"kRm">>, "kD"), "kGrp5")>>,
          <<{\h83}, Grouped(Imm(Ent("grp1", <<"kRm">>, "kD"), "k8S", 2), "kGrp1")>>,
          <<\h50 .. \h57, Ent("push", <<"kOpr">>, "kP")>>,
          <<\h58 .. \h5F, Ent("pop", <<"kOpr">>, "kP")>>,
          <<{\h63}, Ent("movsx", <<"kReg", "kRm32">>, "kD")>>,
          <<{\h68}, Imm(Ent("push", <<>>, "kP"), "kSz4", 1)>>,
          <<{\h6A}, Imm(Ent("push", <<>>, "kP"), "k8S", 1)>>,
          <<{\h69}, Imm(Ent("imul", RegRm, "kD"), "kSz4", 3)>>,
          <<{\h6B}, Imm(Ent("imul", RegRm, "kD"), "k8S", 3)>>,
          <<\h70 .. \h7F, Imm(Plain("jcc"), "k8S", 1)>>,
          <<{\h8C}, Ent("mov", <<"kRm", "kSreg">>, "kD")>>,
          <<{\h8D}, Ent("lea", <<"kReg", "kMem">>, "kD")>>,
          <<{\h8E}, Ent("mov", <<"kSreg", "kRm">>, "kD")>>,
          <<{\h8F}, Ent("pop", <<"kRm">>, "kP")>>,
          <<\h91 .. \h97, Ent("xchg", <<"kOpr", "kAcc">>, "kD")>>,
          <<{\h90}, Plain("nop")>>,
          <<{\h98, \h99}, Plain("widen")>>,
          <<(\hA4 .. \hA7) \cup (\hAA .. \hAF), Plain("string")>>,
          <<\hB0 .. \hB7, Imm(Ent("mov", <<"kOpr">>, "kB"), "k8", 2)>>,
          <<\hB8 .. \hBF, Imm(Ent("mov", <<"kOpr">>, "kD"), "kSz4", 2)>>,
          <<{\hC2}, Imm(Ent("ret", <<>>, "kQ"), "k16", 1)>>,
          <<{\hC3}, Plain("ret")>>,
          <<{\hC9}, Plain("leave")>>,
          <<{\hCF}, Ent("iretq", <<>>, "kQ")>>,
          <<\hE0 .. \hE3, Imm(Ent("loop", <<>>, "kQ"), "k8S", 1)>>,
          <<{\hE8}, Imm(Ent("call", <<>>, "kQ"), "k32S", 1)>>,
          <<{\hE9}, Imm(Ent("jmp", <<>>, "kQ"), "k32S", 1)>>,
          <<{\hEB}, Imm(Ent("jmp", <<>>, "kQ"), "k8S", 1)>>,
          <<{\hF4}, Plain("hlt")>>,
          <<\hFA .. \hFD, Plain("flag")>>}

XRegRm == Ent("sse", <<"kXReg", "kXRm">>, "kV")
XRmReg == Ent("sse", <<"kXRm", "kXReg">>, "kV")

\* 0F xx without a mandatory prefix.
kEscNone ==
    Pair(\hB0, "cmpxchg", RmReg) \cup Pair(\hC0, "xadd", RmReg)
    \cup {<<{\h05}, Plain("syscall")>>,
          <<{\h07}, Plain("sysret")>>,
          <<{\h01}, Grouped(Ent("grp6", <<"kMem">>, "kQ"), "kGrp6")>>,
          <<{\h10, \h28}, XRegRm>>, <<{\h11, \h29}, XRmReg>>,
          <<\h18 .. \h1F, Ent("nop", <<"kRm">>, "kD")>>,
          <<{\h20}, Ent("mov", <<"kRm", "kCr">>, "kQ")>>,
          <<{\h21}, Ent("mov", <<"kRm", "kDr">>, "kQ")>>,
          <<{\h22}, Ent("mov", <<"kCr", "kRm">>, "kQ")>>,
          <<{\h23}, Ent("mov", <<"kDr", "kRm">>, "kQ")>>,
          <<\h30 .. \h32, Plain("msr")>>,
          <<\h40 .. \h4F, Ent("cmov", RegRm, "kD")>>,
          <<\h80 .. \h8F, Imm(Plain("jcc"), "k32S", 1)>>,
          <<\h90 .. \h9F, Ent("setcc", <<"kRm">>, "kB")>>,
          <<{\hA0, \hA8}, Ent("push", <<>>, "kQ")>>,
          <<{\hA1, \hA9}, Ent("pop", <<>>, "kQ")>>,
          <<{\hA2}, Plain("cpuid")>>,
          <<{\hA3, \hAB, \hB3, \hBB}, Ent("bt", RmReg, "kD")>>,
          <<{\hBA}, Grouped(Imm(Ent("bt", <<"kRm">>, "kD"), "k8", 2), "kGrp8")>>,
          <<{\hA4, \hAC}, Imm(Ent("shld", RmReg, "kD"), "k8", 3)>>,
          <<{\hA5, \hAD}, Ent("shld", <<"kRm", "kReg", "kCl">>, "kD")>>,
          <<{\hAF}, Ent("imul", RegRm, "kD")>>,
          <<{\hB6}, Ent("movzx", <<"kReg", "kRm8">>, "kD")>>,
          <<{\hB7}, Ent("movzx", <<"kReg", "kRm16">>, "kD")>>,
          <<{\hBE}, Ent("movsx", <<"kReg", "kRm8">>, "kD")>>,
          <<{\hBF}, Ent("movsx", <<"kReg", "kRm16">>, "kD")>>,
          <<{\hBC, \hBD}, Ent("scan", RegRm, "kD")>>,
          <<{\hC7}, Grouped(Ent("rdrand", <<"kReg">>, "kD"), "kGrp9")>>,
          <<\hC8 .. \hCF, Ent("bswap", <<"kOpr">>, "kD")>>,
          <<{\hAE}, Grouped(Ent("grpAe", <<"kRm">>, "kV"), "kGrpAe")>>}

\* 66 0F xx.
kEsc66 ==
    {<<{\h60, \h61, \h62} \cup (\h67 .. \h6A) \cup {\h6C, \h6D, \h6F, \h74, \h76}
        \cup (\hD1 .. \hD4) \cup {\hDB, \hDF, \hEB, \hEF} \cup (\hF1 .. \hF3)
        \cup {\hFA, \hFE}, XRegRm>>,
     <<{\h6E}, Ent("movd", <<"kXReg", "kRm32S">>, "kV")>>,
     <<{\h7E}, Ent("movd", <<"kXRm32", "kXReg">>, "kV")>>,
     <<{\hD6}, Ent("sse", <<"kXRm64", "kXReg">>, "kV")>>,
     <<{\h7F}, XRmReg>>,
     <<{\h70}, Imm(XRegRm, "k8", 3)>>,
     <<\h71 .. \h73, Grouped(Imm(Ent("sse", <<"kXReg">>, "kV"), "k8", 2), "kGrpPs")>>}

\* F3 0F xx.  F2 0F xx has no entries of its own.
kEscF3 ==
    {<<{\h6F}, XRegRm>>, <<{\h7F}, XRmReg>>,
     <<{\h7E}, Ent("sse", <<"kXReg", "kXRm64">>, "kV")>>,
     <<{\hBC, \hBD}, Ent("count", RegRm, "kD")>>,
     <<{\h1E}, Ent("endbr64", <<"kRm">>, "kQ")>>}

\* 66 0F 38 xx.
kEsc38Rows == {<<{\h29}, XRegRm>>}

-----------------------------------------------------------------------------
\* A table as the array that the decoder indexes.
Table(rows) ==
    [op \in 0 .. 255 |->
        LET found == {r \in rows : op \in r[1]}
        IN  IF found = {} THEN Invalid ELSE (CHOOSE r \in found : TRUE)[2]]

PrimaryTable == Table(kPrimary)
NoneTable == Table(kEscNone)
P66Table == Table(kEsc66)
P3Table == Table(kEscF3)
Esc38Table == Table(kEsc38Rows)
=============================================================================
