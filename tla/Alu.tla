--------------------------------- MODULE Alu ---------------------------------
(***************************************************************************)
(* The integer ALU: what the register forms of the instructions without a  *)
(* control of their own compute (arch/x86_64/dispatch.cpp) and the flags   *)
(* they record (execute.cpp), one instruction per behaviour.  Operands in  *)
(* memory, which may fault, are the business of Cpu.                       *)
(*                                                                         *)
(* A word is the set of the positions of its one bits, so the bitwise      *)
(* operations of the code are those of sets; Num and Word convert to and   *)
(* from the number.  A byte has ByteBits bits (8 in the code); everything  *)
(* the code writes as 16, 32, 64 or 3 (the top bit of a nibble) is derived *)
(* from it.                                                                *)
(***************************************************************************)
EXTENDS Integers, FiniteSets

CONSTANTS
    ByteBits,    \* bits of a byte: 8 in the code, 2 or 4 here
    Words,       \* what the registers hold when the instruction begins
    Counts       \* the shift counts of the instruction

ASSUME BitsAssumption == ByteBits \in {2, 4, 8}
ASSUME CountsAssumption == Counts \subseteq Nat

VARIABLES
    regs,        \* regs_, for two registers
    flags,       \* cf_, pf_, af_, zf_, sf_, of_
    insn,        \* the instruction that was executed
    before       \* history: registers and flags when it began

vars == <<regs, flags, insn, before>>

Reg == {"rax", "rdx"}
Width == {1, 2, 4, 8}
Bits(w) == w * ByteBits
WordBits == Bits(8)
Nibble == ByteBits \div 2
Field(w) == 0 .. Bits(w) - 1

ASSUME WordsAssumption == Words \subseteq SUBSET Field(8)

Num(s) ==
    LET sum[i \in 0 .. WordBits] ==
            IF i = 0 THEN 0 ELSE sum[i - 1] + (IF i - 1 \in s THEN 2 ^ (i - 1) ELSE 0)
    IN  sum[WordBits]
Word(n) == {i \in Field(8) : (n \div 2 ^ i) % 2 = 1}
Mod(n) == n % 2 ^ WordBits

Xor(s, t) == (s \ t) \cup (t \ s)
Left(s, n) == {i + n : i \in s} \cap Field(8)
Right(s, n) == {i - n : i \in {j \in s : j >= n}}
SignBit(w) == Bits(w) - 1

Slip_SignOfWord(s, w) == s \cap Field(w)

\* sign_extend() of the low w bytes.
SignExtend(s, w) ==
    IF SignBit(w) \in s THEN s \cup (Field(8) \ Field(w)) ELSE s \cap Field(w)

ReadGpr(r, w) == regs[r] \cap Field(w)

Slip_KeepUpper(file, r, w, v) ==
    [file EXCEPT ![r] = (@ \ Field(w)) \cup (v \cap Field(w))]

\* write_gpr(): 32-bit writes zero-extend, narrower ones keep the upper bits.
WriteGpr(file, r, w, v) ==
    [file EXCEPT ![r] = IF w >= 4 THEN v \cap Field(w)
                        ELSE (@ \ Field(w)) \cup (v \cap Field(w))]

-----------------------------------------------------------------------------
(* The flag-recording helpers.                                             *)

Flag == [cf : BOOLEAN, pf : BOOLEAN, af : BOOLEAN,
         zf : BOOLEAN, sf : BOOLEAN, of : BOOLEAN]
Done(v, f) == [value |-> v, flags |-> f]

ParityOf(v) == Cardinality(v \cap Field(1)) % 2 = 0

\* set_zsp().
Zsp(f, v, w) ==
    [f EXCEPT !.zf = (v \cap Field(w) = {}), !.sf = (SignBit(w) \in v), !.pf = ParityOf(v)]

Slip_WrapOnly(a, b, w, carry) ==
    LET sum1 == Mod(Num(a) + Num(b))
        sum2 == Mod(sum1 + IF carry THEN 1 ELSE 0)
        v    == Word(sum2) \cap Field(w)
        f    == [flags EXCEPT !.cf = (sum1 < Num(a) \/ sum2 < sum1),
                    !.of = SignBit(w) \in Xor(a, Word(sum2)) \ Xor(a, b)]
    IN  Done(v, Zsp(f, v, w))

\* alu_add() of two operands of w bytes.
AluAdd(a, b, w, carry) ==
    LET sum1 == Mod(Num(a) + Num(b))
        sum2 == Mod(sum1 + IF carry THEN 1 ELSE 0)
        sum  == Word(sum2)
        f    == [flags EXCEPT
                    !.cf = IF w < 8 THEN Right(sum, Bits(w)) # {}
                           ELSE sum1 < Num(a) \/ sum2 < sum1,
                    !.af = (Nibble - 1 \in Xor(Xor(a, b), sum)),
                    !.of = (SignBit(w) \in Xor(a, sum) \ Xor(a, b))]
    IN  Done(sum \cap Field(w), Zsp(f, sum \cap Field(w), w))

\* alu_sub().
AluSub(a, b, w, borrow) ==
    LET one   == IF borrow THEN 1 ELSE 0
        diff1 == Mod(Num(a) - Num(b))
        diff  == Word(Mod(diff1 - one))
        f     == [flags EXCEPT
                    !.cf = (Num(a) < Num(b) \/ diff1 < one),
                    !.af = (Nibble - 1 \in Xor(Xor(a, b), diff)),
                    !.of = (SignBit(w) \in Xor(a, b) \cap Xor(a, diff))]
    IN  Done(diff \cap Field(w), Zsp(f, diff \cap Field(w), w))

\* alu_logic().
AluLogic(v, w) ==
    Done(v \cap Field(w),
         Zsp([flags EXCEPT !.cf = FALSE, !.of = FALSE, !.af = FALSE], v \cap Field(w), w))

Slip_WholeCount(count, w) == count

\* The count an instruction of w bytes shifts by: the low 6 or 5 bits.
Masked(count, w) == count % Bits(IF w = 8 THEN 8 ELSE 4)

Shl(a, w, n) ==
    LET v  == IF n <= Bits(w) THEN Left(a, n) \cap Field(w) ELSE {}
        cf == n <= Bits(w) /\ 0 \in Left(a, Bits(w) - n)
    IN  Done(v, Zsp([flags EXCEPT !.cf = cf, !.of = (cf # (SignBit(w) \in v))], v, w))

Shr(a, w, n) ==
    LET v == IF n <= Bits(w) THEN Right(a, n) ELSE {}
    IN  Done(v, Zsp([flags EXCEPT !.cf = (n <= Bits(w) /\ n - 1 \in a),
                                  !.of = (SignBit(w) \in a)], v, w))

Slip_SarUnsigned(a, w, n) ==
    LET v == Right(a, n) \cap Field(w)
    IN  Done(v, Zsp([flags EXCEPT !.cf = (n - 1 \in a), !.of = FALSE], v, w))

\* sar: the sign fills from above the operand; the shift of a 64-bit int.
Sar(a, w, n) ==
    LET signed == SignExtend(a, w)
        v      == (Right(signed, n) \cup
                   IF WordBits - 1 \in signed THEN WordBits - n .. WordBits - 1 ELSE {})
                  \cap Field(w)
    IN  Done(v, Zsp([flags EXCEPT !.cf = (n - 1 \in signed), !.of = FALSE], v, w))

Rol(a, w, n) ==
    LET eff == n % Bits(w)
        v   == IF eff = 0 THEN a ELSE (Left(a, eff) \cup Right(a, Bits(w) - eff)) \cap Field(w)
        cf  == 0 \in v
    IN  Done(v, [flags EXCEPT !.cf = cf, !.of = (cf # (SignBit(w) \in v))])

Ror(a, w, n) ==
    LET eff == n % Bits(w)
        v   == IF eff = 0 THEN a ELSE (Right(a, eff) \cup Left(a, Bits(w) - eff)) \cap Field(w)
        cf  == SignBit(w) \in v
    IN  Done(v, [flags EXCEPT !.cf = cf, !.of = (cf # (SignBit(w) - 1 \in v))])

\* One turn of rcl and rcr through the carry.
RclOnce(p, w) ==
    [cf |-> SignBit(w) \in p.value,
     value |-> (Left(p.value, 1) \cap Field(w)) \cup IF p.cf THEN {0} ELSE {}]
RcrOnce(p, w) ==
    [cf |-> 0 \in p.value,
     value |-> Right(p.value, 1) \cup IF p.cf THEN {SignBit(w)} ELSE {}]

Slip_ModBits(n, w) == n % Bits(w)

\* How many turns rcl and rcr make: the carry is one more position.
Turns(n, w) == n % (Bits(w) + 1)

Rotated(left, a, w, n) ==
    LET turn[i \in 0 .. Turns(n, w)] ==
            IF i = 0 THEN [cf |-> flags.cf, value |-> a]
            ELSE IF left THEN RclOnce(turn[i - 1], w) ELSE RcrOnce(turn[i - 1], w)
        last == turn[Turns(n, w)]
        top  == IF left THEN SignBit(w) ELSE SignBit(w) - 1
    IN  Done(last.value, [flags EXCEPT !.cf = last.cf,
                             !.of = IF Turns(n, w) = 0 THEN @
                                    ELSE last.cf # (top \in last.value)])

\* shld and shrd.  For two-byte operands the masked count may exceed the
\* operand, and the shift by bits - n, a huge unsigned number, is undefined:
\* the builds give nothing or, on hosts that mask, a shift modulo the word.
Rest(s, w, n, huge) ==
    IF n <= Bits(w) THEN Bits(w) - n
    ELSE IF huge THEN WordBits ELSE (Bits(w) - n) % WordBits

Shld(a, b, w, n, huge) ==
    LET rest == Rest(b, w, n, huge)
        v    == (Left(a, n) \cup Right(b, rest)) \cap Field(w)
        cf   == 0 \in Right(a, rest)
    IN  Done(v, Zsp([flags EXCEPT !.cf = cf, !.of = (cf # (SignBit(w) \in v))], v, w))

Shrd(a, b, w, n, huge) ==
    LET v == (Right(a, n) \cup Left(b, Rest(b, w, n, huge))) \cap Field(w)
    IN  Done(v, Zsp([flags EXCEPT !.cf = (n - 1 \in a), !.of = (SignBit(w) \in a)], v, w))

-----------------------------------------------------------------------------
Slip_NoEqual(cc) ==
    LET f == flags
    IN  CASE cc = "o" -> f.of  [] cc = "b" -> f.cf  [] cc = "e" -> f.zf
          [] cc = "be" -> f.cf \/ f.zf [] cc = "s" -> f.sf [] cc = "p" -> f.pf
          [] cc = "l" -> f.sf # f.of [] cc = "le" -> f.sf # f.of

\* condition(), for the eight conditions whose negations are the other eight.
Condition(cc) ==
    LET f == flags
    IN  CASE cc = "o" -> f.of  [] cc = "b" -> f.cf  [] cc = "e" -> f.zf
          [] cc = "be" -> f.cf \/ f.zf [] cc = "s" -> f.sf [] cc = "p" -> f.pf
          [] cc = "l" -> f.sf # f.of [] cc = "le" -> f.zf \/ f.sf # f.of

Holds(cc, negated) == Condition(cc) # negated
Conditions == {"o", "b", "e", "be", "s", "p", "l", "le"}

-----------------------------------------------------------------------------
(* The instructions.  Executes is the frame, with the destination d and    *)
(* the source s, which may be the same register and is when there is one.  *)

NoInsn == [op |-> "none"]
Unary == {"inc", "dec", "neg", "not", "cwde", "cdq", "bswap", "setcc"}

Executes(ops, op, d, s, w, n) ==
    /\ op \in ops
    /\ op \in Unary => s = d
    /\ insn' = [op |-> op, d |-> d, s |-> s, w |-> w, n |-> n]
    /\ before' = [regs |-> regs, flags |-> flags]

\* A result written to d, and its flags.
Writes(d, w, r) ==
    /\ regs' = WriteGpr(regs, d, w, r.value)
    /\ flags' = r.flags

Arith(op, d, s, w) ==
    LET a == ReadGpr(d, w)
        b == ReadGpr(s, w)
        KeepCf(r) == [r EXCEPT !.flags.cf = flags.cf]
    IN  /\ Executes({"add", "adc", "sub", "sbb", "inc", "dec", "neg"}, op, d, s, w, 0)
        /\ Writes(d, w,
              CASE op = "add" -> AluAdd(a, b, w, FALSE)
                [] op = "adc" -> AluAdd(a, b, w, flags.cf)
                [] op = "sub" -> AluSub(a, b, w, FALSE)
                [] op = "sbb" -> AluSub(a, b, w, flags.cf)
                [] op = "inc" -> KeepCf(AluAdd(a, {0}, w, FALSE))
                [] op = "dec" -> KeepCf(AluSub(a, {0}, w, FALSE))
                [] op = "neg" -> AluSub({}, a, w, FALSE))

Logic(op, d, s, w) ==
    LET a == ReadGpr(d, w)
        b == ReadGpr(s, w)
    IN  /\ Executes({"and", "or", "xor", "not"}, op, d, s, w, 0)
        /\ Writes(d, w,
              CASE op = "and" -> AluLogic(a \cap b, w)
                [] op = "or"  -> AluLogic(a \cup b, w)
                [] op = "xor" -> AluLogic(Xor(a, b), w)
                [] op = "not" -> Done(Field(w) \ a, flags))

\* cmp and test record flags only.
Compare(op, d, s, w) ==
    LET a == ReadGpr(d, w)
        b == ReadGpr(s, w)
    IN  /\ Executes({"cmp", "test"}, op, d, s, w, 0)
        /\ flags' = (IF op = "cmp" THEN AluSub(a, b, w, FALSE)
                     ELSE AluLogic(a \cap b, w)).flags
        /\ UNCHANGED regs

\* The grp2 family: a masked count of zero does nothing at all.
Shift(op, d, w, count) ==
    LET a == ReadGpr(d, w)
        n == Masked(count, w)
    IN  /\ Executes({"shl", "shr", "sar", "rol", "ror", "rcl", "rcr"}, op, d, d, w, n)
        /\ IF n = 0 THEN UNCHANGED <<regs, flags>>
           ELSE Writes(d, w,
              CASE op = "shl" -> Shl(a, w, n)
                [] op = "shr" -> Shr(a, w, n)
                [] op = "sar" -> Sar(a, w, n)
                [] op = "rol" -> Rol(a, w, n)
                [] op = "ror" -> Ror(a, w, n)
                [] op = "rcl" -> Rotated(TRUE, a, w, n)
                [] op = "rcr" -> Rotated(FALSE, a, w, n))

DoubleShift(op, d, s, w, count) ==
    LET a == ReadGpr(d, w)
        b == ReadGpr(s, w)
        n == Masked(count, w)
    IN  /\ Executes({"shld", "shrd"}, op, d, s, w, n)
        /\ w >= 2
        /\ IF n = 0 THEN UNCHANGED <<regs, flags>>
           ELSE \E huge \in BOOLEAN :
                   Writes(d, w, IF op = "shld" THEN Shld(a, b, w, n, huge)
                                ELSE Shrd(a, b, w, n, huge))

\* bt, bts, btr, btc of a register: the index counts modulo the operand.
BitTest(op, d, s, w) ==
    LET a   == ReadGpr(d, w)
        pos == Num(ReadGpr(s, w)) % Bits(w)
        f   == [flags EXCEPT !.cf = (pos \in a)]
    IN  /\ Executes({"bt", "bts", "btr", "btc"}, op, d, s, w, 0)
        /\ w >= 2
        /\ IF op = "bt" THEN flags' = f /\ UNCHANGED regs
           ELSE Writes(d, w, Done(CASE op = "bts" -> a \cup {pos}
                                    [] op = "btr" -> a \ {pos}
                                    [] op = "btc" -> Xor(a, {pos}), f))

Slip_WordZeros(s, w) == WordBits - 1 - CHOOSE i \in s : \A j \in s : j <= i

\* Zeros above and below the one bits of an operand of w bytes.
Leading(s, w) == Bits(w) - 1 - CHOOSE i \in s : \A j \in s : j <= i
Trailing(s) == CHOOSE i \in s : \A j \in s : i <= j

\* bsf, bsr: a zero source sets zf and leaves the destination alone; only zf
\* is recorded.  tzcnt, lzcnt: a zero source counts the whole operand.
Scan(op, d, s, w) ==
    LET b == ReadGpr(s, w)
        n == IF b = {} THEN Bits(w)
             ELSE CASE op \in {"bsf", "tzcnt"} -> Trailing(b)
                    [] op = "bsr"   -> Bits(w) - 1 - Leading(b, w)
                    [] op = "lzcnt" -> Leading(b, w)
    IN  /\ Executes({"bsf", "bsr", "tzcnt", "lzcnt"}, op, d, s, w, 0)
        /\ w >= 2
        /\ \/ op \in {"bsf", "bsr"} /\ b = {}
              /\ flags' = [flags EXCEPT !.zf = TRUE]
              /\ UNCHANGED regs
           \/ op \in {"bsf", "bsr"} /\ b # {}
              /\ Writes(d, w, Done(Word(n), [flags EXCEPT !.zf = FALSE]))
           \/ op \in {"tzcnt", "lzcnt"}
              /\ Writes(d, w, Done(Word(n),
                    [flags EXCEPT !.cf = (b = {}), !.of = FALSE, !.zf = (n = 0),
                                  !.sf = FALSE, !.pf = ParityOf(Word(n))]))

\* The byte a bit index in memory selects, as an offset from the operand: the
\* index is sign-extended below 64 bits and shifted as an unsigned word.
BtOffset(index, w) ==
    Right(IF w < 8 THEN SignExtend(index, w) ELSE index,
          CHOOSE k \in 0 .. ByteBits : 2 ^ k = ByteBits)

\* xchg, xadd: two writes, the second from the value read before the first.
Exchange(op, d, s, w) ==
    LET a == ReadGpr(d, w)
        b == ReadGpr(s, w)
        r == IF op = "xadd" THEN AluAdd(a, b, w, FALSE) ELSE Done(b, flags)
    IN  /\ Executes({"xchg", "xadd"}, op, d, s, w, 0)
        /\ regs' = WriteGpr(WriteGpr(regs, d, w, r.value), s, w, a)
        /\ flags' = r.flags

CmpXchg(op, d, s, w) ==
    LET a == ReadGpr(d, w)
        r == AluSub(ReadGpr("rax", w), a, w, FALSE)
    IN  /\ Executes({"cmpxchg"}, op, d, s, w, 0)
        /\ regs' = IF r.flags.zf THEN WriteGpr(regs, d, w, ReadGpr(s, w))
                   ELSE WriteGpr(regs, "rax", w, a)
        /\ flags' = r.flags

\* movsx and movsxd, from n bytes, which movsxd may write to fewer.
MoveSigned(op, d, s, w, n) ==
    /\ Executes({"movsx"}, op, d, s, w, n)
    /\ w > 1 /\ n < 8
    /\ Writes(d, w, Done(SignExtend(ReadGpr(s, n), n), flags))

\* cbw..cdqe and cwd..cqo, from the half n of w bytes.
Widen(op, d, s, w, n) ==
    /\ Executes({"cwde", "cdq"}, op, d, s, w, n)
    /\ 2 * n = w
    /\ UNCHANGED flags
    /\ CASE op = "cwde" -> regs' = WriteGpr(regs, "rax", w, SignExtend(ReadGpr("rax", n), n))
         [] op = "cdq"  -> regs' = WriteGpr(regs, "rdx", w,
                              IF SignBit(w) \in regs["rax"] THEN Field(w) ELSE {})

\* bswap turns the whole word round, and then takes the operand's low bytes.
ByteSwap(op, d, s, w) ==
    /\ Executes({"bswap"}, op, d, s, w, 0)
    /\ w > 1
    /\ Writes(d, w, Done({WordBits - ByteBits - i + 2 * (i % ByteBits) : i \in ReadGpr(d, w)},
                         flags))

\* setcc and cmovcc.
Conditional(op, d, s, w, cc, negated) ==
    /\ Executes({"setcc", "cmovcc"}, op, d, s, w, 0)
    /\ UNCHANGED flags
    /\ \/ op = "setcc" /\ w = 1
          /\ regs' = WriteGpr(regs, d, 1, IF Holds(cc, negated) THEN {0} ELSE {})
       \/ op = "cmovcc" /\ w > 1
          /\ regs' = IF Holds(cc, negated) THEN WriteGpr(regs, d, w, ReadGpr(s, w)) ELSE regs

Init ==
    /\ regs \in [Reg -> Words]
    /\ \E cf \in BOOLEAN :
          flags = [cf |-> cf, pf |-> FALSE, af |-> FALSE, zf |-> cf, sf |-> FALSE, of |-> cf]
    /\ insn = NoInsn
    /\ before = [regs |-> regs, flags |-> flags]

Ops == {"add", "adc", "sub", "sbb", "inc", "dec", "neg", "and", "or", "xor", "not",
        "cmp", "test", "shl", "shr", "sar", "rol", "ror", "rcl", "rcr", "shld", "shrd",
        "bt", "bts", "btr", "btc", "bsf", "bsr", "tzcnt", "lzcnt", "xchg", "xadd", "cmpxchg",
        "movsx", "cwde", "cdq", "bswap", "setcc", "cmovcc"}

Next ==
    /\ insn = NoInsn
    /\ \E op \in Ops, d, s \in Reg, w \in Width :
           \/ Arith(op, d, s, w)
           \/ Logic(op, d, s, w)
           \/ Compare(op, d, s, w)
           \/ \E count \in Counts : Shift(op, d, w, count)
           \/ \E count \in Counts : DoubleShift(op, d, s, w, count)
           \/ BitTest(op, d, s, w)
           \/ Scan(op, d, s, w)
           \/ Exchange(op, d, s, w)
           \/ CmpXchg(op, d, s, w)
           \/ \E n \in Width : MoveSigned(op, d, s, w, n)
           \/ \E n \in Width : Widen(op, d, s, w, n)
           \/ ByteSwap(op, d, s, w)
           \/ \E cc \in Conditions, negated \in BOOLEAN : Conditional(op, d, s, w, cc, negated)

Spec == Init /\ [][Next]_vars

-----------------------------------------------------------------------------
(* Properties, against arithmetic on numbers.                              *)

Old(r, w) == before.regs[r] \cap Field(w)
Result == regs[insn.d] \cap Field(insn.w)
Signed(s, w) == Num(s) - IF SignBit(w) \in s THEN 2 ^ Bits(w) ELSE 0
Carry == IF before.flags.cf THEN 1 ELSE 0

\* Registers stay words, and no count that reaches a shift of the code exceeds
\* the word: 64-bit shifts by 64 or more are undefined.
TypeOK ==
    /\ regs \in [Reg -> SUBSET Field(8)]
    /\ flags \in Flag
    /\ insn # NoInsn => insn.n \in 0 .. WordBits - 1

\* Addition, subtraction and comparison at every width: the result is the sum
\* or difference modulo the operand, CF says that it left the unsigned range,
\* OF that it left the signed one, and ZF, SF, PF describe it.  inc and dec
\* leave CF alone.
Exact(op, x, y) ==
    CASE op = "add" -> x + y
      [] op = "adc" -> x + y + Carry
      [] op \in {"sub", "cmp"} -> x - y
      [] op = "sbb" -> x - y - Carry
      [] op = "inc" -> x + 1
      [] op = "dec" -> x - 1
      [] op = "neg" -> -x
ArithExact ==
    insn.op \in {"add", "adc", "sub", "cmp", "sbb", "inc", "dec", "neg"} =>
        LET w        == insn.w
            modulus  == 2 ^ Bits(w)
            a        == Old(insn.d, w)
            b        == Old(insn.s, w)
            unsigned == Exact(insn.op, Num(a), Num(b))
            signed   == Exact(insn.op, Signed(a, w), Signed(b, w))
            wrapped  == unsigned % modulus
        IN  /\ insn.op # "cmp" => Num(Result) = wrapped
            /\ flags.cf = IF insn.op \in {"inc", "dec"} THEN before.flags.cf
                          ELSE unsigned \notin 0 .. modulus - 1
            /\ flags.of <=> signed \notin -(modulus \div 2) .. modulus \div 2 - 1
            /\ flags.zf <=> wrapped = 0
            /\ flags.sf <=> 2 * wrapped >= modulus
            /\ flags.pf <=> Cardinality(Word(wrapped % 2 ^ ByteBits)) % 2 = 0

\* What a conditional jump, set or move decides after cmp is the comparison its
\* name promises, unsigned and signed, although it sees flags only.
ConditionsCompare ==
    insn.op = "cmp" =>
        LET w == insn.w
            a == Old(insn.d, w)
            b == Old(insn.s, w)
        IN  /\ Condition("e")  <=> Num(a) = Num(b)
            /\ Condition("b")  <=> Num(a) < Num(b)
            /\ Condition("be") <=> Num(a) <= Num(b)
            /\ Condition("l")  <=> Signed(a, w) < Signed(b, w)
            /\ Condition("le") <=> Signed(a, w) <= Signed(b, w)

\* shr and sar divide, rounding down, and shl multiplies; shld and shrd shift
\* the pair of operands; CF is the last bit out.  (shl's is ShlCarry's.)
ShiftExact ==
    LET w == insn.w
        n == insn.n
        a == Old(insn.d, w)
        b == Old(insn.s, w)
        high(s, t) == {i + Bits(w) : i \in s} \cup t
        part(s, k) == {i \in Field(w) : i + k \in s}
    IN  insn.op \in {"shl", "shr", "sar", "shld", "shrd"} /\ n \in 1 .. Bits(w) =>
          CASE insn.op = "shl" -> Num(Result) = (Num(a) % 2 ^ (Bits(w) - n)) * 2 ^ n
            [] insn.op = "shr" ->
                 /\ Num(Result) = Num(a) \div 2 ^ n
                 /\ flags.cf <=> (Num(a) \div 2 ^ (n - 1)) % 2 = 1
            [] insn.op = "sar" ->
                 /\ Num(Result) = (Signed(a, w) \div 2 ^ n) % 2 ^ Bits(w)
                 /\ flags.cf <=> (Signed(a, w) \div 2 ^ (n - 1)) % 2 = 1
            [] insn.op = "shld" ->
                 /\ Result = part(high(a, b), Bits(w) - n)
                 /\ flags.cf <=> Bits(w) - n \in a
            [] insn.op = "shrd" ->
                 /\ Result = part(high(b, a), n)
                 /\ flags.cf <=> n - 1 \in a

\* rol and ror turn the operand, rcl and rcr the operand with CF as one more
\* position, whatever the count; CF is the bit that went round last.
RotateExact ==
    LET w     == insn.w
        a     == Old(insn.d, w)
        carry == IF before.flags.cf THEN {Bits(w)} ELSE {}
        after == Result \cup IF flags.cf THEN {Bits(w)} ELSE {}
        turned(s, k, len) == {(i + k) % len : i \in s}
    IN  insn.op \in {"rol", "ror", "rcl", "rcr"} /\ insn.n > 0 =>
          CASE insn.op = "rol" -> /\ Result = turned(a, insn.n, Bits(w))
                                  /\ flags.cf <=> 0 \in Result
            [] insn.op = "ror" -> /\ Result = turned(a, -insn.n, Bits(w))
                                  /\ flags.cf <=> SignBit(w) \in Result
            [] insn.op = "rcl" -> after = turned(a \cup carry, insn.n, Bits(w) + 1)
            [] insn.op = "rcr" -> after = turned(a \cup carry, -insn.n, Bits(w) + 1)

\* The scans find the end they are named for: the lowest or highest power of
\* two in the source, counted from the right side of the operand.
ScanExact ==
    LET w == insn.w
        b == Num(Old(insn.s, w))
        n == Num(Result)
    IN  /\ insn.op \in {"bsf", "tzcnt"} /\ b > 0 => b % 2 ^ n = 0 /\ b % 2 ^ (n + 1) # 0
        /\ insn.op = "bsr" /\ b > 0 => b \div 2 ^ n = 1
        /\ insn.op = "lzcnt" /\ b > 0 => b \div 2 ^ (Bits(w) - 1 - n) = 1
        /\ insn.op \in {"tzcnt", "lzcnt"} /\ b = 0 => n = Bits(w) /\ flags.cf

\* Widening keeps the signed value.  (A movsxd to two bytes cuts it instead.)
SignKept ==
    LET w == insn.w
    IN  /\ insn.op = "movsx" /\ insn.n <= w =>
               Signed(Result, w) = Signed(Old(insn.s, insn.n), insn.n)
        /\ insn.op = "cwde" =>
               Signed(regs["rax"] \cap Field(w), w) = Signed(Old("rax", insn.n), insn.n)
        /\ insn.op = "cdq" =>
               Signed(regs["rdx"] \cap Field(w), w)
                   = IF Signed(Old("rax", w), w) < 0 THEN -1 ELSE 0

\* cpu.hpp 194, "GPR write at sub-register width (32-bit writes zero-extend)":
\* no instruction touches the bits above a narrow operand, and a 32-bit one
\* that writes a register leaves nothing above it.
UpperBits ==
    insn # NoInsn =>
        \A r \in Reg :
            IF insn.w < 4 THEN regs[r] \ Field(insn.w) = before.regs[r] \ Field(insn.w)
            ELSE regs[r] = before.regs[r] \/ regs[r] \subseteq Field(insn.w)

\* cpu.hpp 134, "Carry flag", as shl records it: the last bit shifted out.
ShlCarry ==
    insn.op = "shl" /\ insn.n \in 1 .. Bits(insn.w) =>
        (flags.cf <=> Bits(insn.w) - insn.n \in Old(insn.d, insn.w))

\* dispatch.cpp 266: "Shifting the sign-extended word as unsigned is
\* bit-identical to the arithmetic shift".
ShiftIdentical ==
    \A r \in Reg, w \in Width \ {1} :
        LET index == regs[r] \cap Field(w)
        IN  BtOffset(index, w) = Word((Signed(index, w) \div ByteBits) % 2 ^ WordBits)
=============================================================================
