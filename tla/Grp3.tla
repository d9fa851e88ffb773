-------------------------------- MODULE Grp3 ---------------------------------
(***************************************************************************)
(* Multiplication and division (arch/x86_64/grp3.cpp), one instruction per *)
(* behaviour: the narrow operands go through the host's arithmetic, the    *)
(* eight-byte ones through products and quotients put together from 64-bit *)
(* words.  A word is a number below Modulus(8); a byte has ByteBits bits.  *)
(* The source is any register; what the operand reads is Cpu's business.   *)
(***************************************************************************)
EXTENDS Integers

CONSTANTS
    ByteBits,    \* bits of a byte, 8 in the code
    Widths,      \* the operand widths checked, of 1, 2, 4, 8
    Accs,        \* what rax holds when the instruction begins,
    Highs,       \*   rdx,
    Sources      \*   and rbx and an immediate

ASSUME BitsAssumption == ByteBits \in Nat \ {0}
ASSUME WidthsAssumption == Widths \subseteq {1, 2, 4, 8}

VARIABLES
    regs,        \* regs_, for three registers
    overflow,    \* cf_ and of_, which this family sets alike
    exit,        \* exit_: "none", or "divide" for a latched kDivide
    insn,        \* the instruction that was executed
    before       \* history: regs and overflow when it began

vars == <<regs, overflow, exit, insn, before>>

Reg == {"rax", "rdx", "rbx"}
Bits(w) == w * ByteBits
Modulus(w) == 2 ^ Bits(w)
Word == 0 .. Modulus(8) - 1
Wrap(n) == n % Modulus(8)

Low(n, w) == n % Modulus(w)
Signed(n, w) == Low(n, w) - IF 2 * Low(n, w) >= Modulus(w) THEN Modulus(w) ELSE 0

ASSUME ValuesAssumption == Accs \cup Highs \cup Sources \subseteq Word

ReadGpr(r, w) == Low(regs[r], w)

Slip_NoTruncate(file, r, w, v) ==
    [file EXCEPT ![r] = IF w >= 4 THEN v ELSE @ - Low(@, w) + Low(v, w)]

\* write_gpr().
WriteGpr(file, r, w, v) ==
    [file EXCEPT ![r] = IF w >= 4 THEN Low(v, w) ELSE @ - Low(@, w) + Low(v, w)]

\* The two halves of a result: rdx and rax, or for bytes ah and al.
WritePair(w, high, low) ==
    IF w = 1 THEN WriteGpr(regs, "rax", 2, Low(high, 1) * Modulus(1) + Low(low, 1))
    ELSE WriteGpr(WriteGpr(regs, "rax", w, low), "rdx", w, high)

\* The narrow dividends.
Dividend(w) ==
    IF w = 1 THEN ReadGpr("rax", 2)
    ELSE ReadGpr("rdx", w) * Modulus(w) + ReadGpr("rax", w)

-----------------------------------------------------------------------------
(* The arithmetic on pairs of words.                                       *)

Half == Modulus(4)

Upper(n) == n \div Half
Lower(n) == Low(n, 4)

Slip_NoMidCarry(a, b) ==
    LET p0  == Lower(a) * Lower(b)
        p1  == Lower(a) * Upper(b)
        p2  == Upper(a) * Lower(b)
        mid == Upper(p0) + Lower(p1) + Lower(p2)
    IN  [low  |-> Lower(mid) * Half + Lower(p0),
         high |-> Upper(a) * Upper(b) + Upper(p1) + Upper(p2)]

\* mul_wide(): the product of two words by their halves.
MulWide(a, b) ==
    LET p0  == Lower(a) * Lower(b)
        p1  == Lower(a) * Upper(b)
        p2  == Upper(a) * Lower(b)
        mid == Upper(p0) + Lower(p1) + Lower(p2)
    IN  [low  |-> Lower(mid) * Half + Lower(p0),
         high |-> Upper(a) * Upper(b) + Upper(p1) + Upper(p2) + Upper(mid)]

\* imul_high(), of signed words; its result as the word it is.
ImulHigh(a, b) ==
    Wrap(MulWide(Wrap(a), Wrap(b)).high - (IF a < 0 THEN b ELSE 0)
                                        - (IF b < 0 THEN a ELSE 0))

SignFillOf(low) == IF Signed(low, 8) < 0 THEN Modulus(8) - 1 ELSE 0

Bit(n, i) == (n \div 2 ^ i) % 2

Slip_LostBit(high, low, divisor) ==
    LET step[i \in 0 .. Bits(8)] ==
            IF i = 0 THEN [rem |-> high, quot |-> 0]
            ELSE LET r   == Wrap(2 * step[i - 1].rem) + Bit(low, Bits(8) - i)
                     fit == r >= divisor
                 IN  [rem  |-> IF fit THEN Wrap(r - divisor) ELSE r,
                      quot |-> Wrap(2 * step[i - 1].quot) + IF fit THEN 1 ELSE 0]
    IN  step[Bits(8)]

\* udiv128(): shift and subtract, from the top bit of low down; the bit that
\* leaves the remainder on a shift also says that the divisor fits.
Udiv128(high, low, divisor) ==
    LET step[i \in 0 .. Bits(8)] ==
            IF i = 0 THEN [rem |-> high, quot |-> 0]
            ELSE LET old == step[i - 1]
                     r   == Wrap(2 * old.rem) + Bit(low, Bits(8) - i)
                     fit == 2 * old.rem >= Modulus(8) \/ r >= divisor
                 IN  [rem  |-> IF fit THEN Wrap(r - divisor) ELSE r,
                      quot |-> Wrap(2 * old.quot) + IF fit THEN 1 ELSE 0]
    IN  step[Bits(8)]

\* abs128(): complement both words, and carry from the low one.
Abs128(high, low) ==
    IF Signed(high, 8) >= 0 THEN [neg |-> FALSE, high |-> high, low |-> low]
    ELSE [neg  |-> TRUE,
          low  |-> Wrap(-low),
          high |-> Wrap(Modulus(8) - 1 - high + IF low = 0 THEN 1 ELSE 0)]

\* mul_upper(): the half of a product that leaves the operand.
MulUpper(low, high, w) ==
    CASE w = 1 -> Low(low \div Modulus(1), 1)
      [] w = 8 -> high
      [] OTHER -> low \div Modulus(w)

Slip_NoEdge(mag, sameSign) == 2 * mag <= Modulus(8)

\* Whether the magnitude of a quotient is one of a signed word.
MagnitudeFits(mag, sameSign) ==
    ~ (2 * mag > Modulus(8) \/ (2 * mag = Modulus(8) /\ sameSign))

\* q_min and q_max of the narrow operands.
QuotientFits(quot, w) == quot \in -(Modulus(w) \div 2) .. Modulus(w) \div 2 - 1

\* Division and remainder of the host's signed integers: towards zero.
Abs(n) == IF n < 0 THEN -n ELSE n
Quot(a, b) == IF (a < 0) = (b < 0) THEN Abs(a) \div Abs(b) ELSE -(Abs(a) \div Abs(b))
Rem(a, b) == a - b * Quot(a, b)

-----------------------------------------------------------------------------
(* The instructions.                                                       *)

NoInsn == [op |-> "none"]

Executes(op, w, lhs, rhs) ==
    /\ insn' = [op |-> op, w |-> w, lhs |-> lhs, rhs |-> rhs]
    /\ before' = [regs |-> regs, overflow |-> overflow]

\* fault_divide(): latched before any register is written.
FaultDivide ==
    /\ exit' = "divide"
    /\ UNCHANGED <<regs, overflow>>

Mul(s, w) ==
    LET acc   == ReadGpr("rax", w)
        src   == ReadGpr(s, w)
        p     == IF w = 8 THEN MulWide(acc, src) ELSE [low |-> acc * src, high |-> 0]
        upper == MulUpper(p.low, p.high, w)
    IN  /\ Executes("mul", w, acc, src)
        /\ regs' = WritePair(w, upper, p.low)
        /\ overflow' = (upper # 0)
        /\ UNCHANGED exit

\* Whether a signed product fits the operand, as both imul forms decide it.
ProductFits(lhs, rhs, low, w) ==
    IF w = 8 THEN ImulHigh(lhs, rhs) = SignFillOf(low)
    ELSE Signed(low, w) = lhs * rhs

Imul(s, w) ==
    LET acc == Signed(ReadGpr("rax", w), w)
        val == Signed(ReadGpr(s, w), w)
        low == Wrap(acc * val)
    IN  /\ Executes("imul", w, acc, val)
        /\ regs' = WritePair(w, MulUpper(low, ImulHigh(acc, val), w), low)
        /\ overflow' = ~ ProductFits(acc, val, low, w)
        /\ UNCHANGED exit

\* execute_imul23(): the destination times the source, or the source times an
\* immediate, and only the low half kept.
Imul23(s, w, immediates) ==
    LET src == Signed(ReadGpr(s, w), w)
    IN  \E other \in {Signed(v, w) : v \in immediates} \cup {Signed(ReadGpr("rax", w), w)} :
          LET low == Wrap(other * src)
          IN  /\ w > 1
              /\ Executes("imul23", w, other, src)
              /\ regs' = WriteGpr(regs, "rax", w, low)
              /\ overflow' = ~ ProductFits(other, src, low, w)
              /\ UNCHANGED exit

\* The narrow forms.
Div(s, w) ==
    LET src  == ReadGpr(s, w)
        quot == Dividend(w) \div src
    IN  /\ w < 8
        /\ Executes("div", w, Dividend(w), src)
        /\ \/ src = 0 /\ FaultDivide
           \/ src # 0 /\ quot >= Modulus(w) /\ FaultDivide
           \/ /\ src # 0 /\ quot < Modulus(w)
              /\ regs' = WritePair(w, Dividend(w) % src, quot)
              /\ UNCHANGED <<overflow, exit>>

\* Eight bytes: a high word that reaches the divisor means no quotient fits.
DivWide(s) ==
    LET src  == ReadGpr(s, 8)
        high == ReadGpr("rdx", 8)
        res  == Udiv128(high, ReadGpr("rax", 8), src)
    IN  /\ 8 \in Widths
        /\ Executes("div", 8, high * Modulus(8) + ReadGpr("rax", 8), src)
        /\ \/ (src = 0 \/ high >= src) /\ FaultDivide
           \/ /\ src # 0 /\ high < src
              /\ regs' = WritePair(8, res.rem, res.quot)
              /\ UNCHANGED <<overflow, exit>>

\* The code also refuses the least dividend over -1, which the host's division
\* could not represent; with unbounded integers the range check does.
Idiv(s, w) ==
    LET divisor  == Signed(ReadGpr(s, w), w)
        dividend == Signed(Dividend(w), 2 * w)
        quot     == Quot(dividend, divisor)
    IN  /\ w < 8
        /\ Executes("idiv", w, dividend, divisor)
        /\ \/ divisor = 0 /\ FaultDivide
           \/ divisor # 0 /\ ~ QuotientFits(quot, w) /\ FaultDivide
           \/ /\ divisor # 0 /\ QuotientFits(quot, w)
              /\ regs' = WritePair(w, Rem(dividend, divisor), quot)
              /\ UNCHANGED <<overflow, exit>>

\* On magnitudes, the signs put back afterwards.
IdivWide(s) ==
    LET divisor  == Signed(ReadGpr(s, 8), 8)
        high     == ReadGpr("rdx", 8)
        low      == ReadGpr("rax", 8)
        mag      == Abs128(high, low)
        res      == Udiv128(mag.high, mag.low, Abs(divisor))
        sameSign == mag.neg = (divisor < 0)
        fits     == mag.high < Abs(divisor) /\ MagnitudeFits(res.quot, sameSign)
    IN  /\ 8 \in Widths
        /\ Executes("idiv", 8, Signed(high, 8) * Modulus(8) + low, divisor)
        /\ \/ divisor = 0 /\ FaultDivide
           \/ divisor # 0 /\ ~ fits /\ FaultDivide
           \/ /\ divisor # 0 /\ fits
              /\ regs' = WritePair(8, Wrap(IF mag.neg THEN -res.rem ELSE res.rem),
                                      Wrap(IF sameSign THEN res.quot ELSE -res.quot))
              /\ UNCHANGED <<overflow, exit>>

Init ==
    /\ regs \in {[rax |-> a, rdx |-> h, rbx |-> s] : a \in Accs, h \in Highs, s \in Sources}
    /\ overflow \in BOOLEAN
    /\ exit = "none"
    /\ insn = NoInsn
    /\ before = [regs |-> regs, overflow |-> overflow]

Next ==
    /\ insn = NoInsn
    /\ \E s \in Reg :
          \/ \E w \in Widths :
                \/ Mul(s, w)
                \/ Imul(s, w)
                \/ Imul23(s, w, Sources)
                \/ Div(s, w)
                \/ Idiv(s, w)
          \/ DivWide(s)
          \/ IdivWide(s)

Spec == Init /\ [][Next]_vars

-----------------------------------------------------------------------------
\* Registers stay words: every narrowing of the code is made.
TypeOK ==
    /\ regs \in [Reg -> Word]
    /\ overflow \in BOOLEAN
    /\ exit \in {"none", "divide"}

\* The result as one number: rdx:rax, or ax for bytes.
Pair(w) == IF w = 1 THEN Low(regs["rax"], 2)
           ELSE Low(regs["rdx"], w) * Modulus(w) + Low(regs["rax"], w)

\* Every multiplication gives the exact product, and CF and OF say when the low
\* half is not all of it: unsigned for mul, signed for the imul forms, whichever
\* of the two routes computed it.
MulExact ==
    LET w       == insn.w
        product == insn.lhs * insn.rhs
        fits    == product \in -(Modulus(w) \div 2) .. Modulus(w) \div 2 - 1
    IN  /\ insn.op = "mul" => /\ Pair(w) = product
                              /\ overflow <=> product >= Modulus(w)
        /\ insn.op = "imul" => /\ Pair(w) = product % (Modulus(w) * Modulus(w))
                               /\ overflow <=> ~ fits
        /\ insn.op = "imul23" => /\ ReadGpr("rax", w) = product % Modulus(w)
                                 /\ overflow <=> ~ fits

\* The quotient and the remainder a division leaves, as the numbers they mean.
Halves ==
    LET w    == insn.w
        quot == ReadGpr("rax", w)
        rem  == IF w = 1 THEN Low(regs["rax"] \div Modulus(1), 1) ELSE ReadGpr("rdx", w)
    IN  IF insn.op = "div" THEN [quot |-> quot, rem |-> rem]
        ELSE [quot |-> Signed(quot, w), rem |-> Signed(rem, w)]

\* A division that does not fault leaves the quotient towards zero: the
\* dividend is quotient times divisor and a remainder that is smaller than the
\* divisor and has the sign of the dividend.
DivExact ==
    insn.op \in {"div", "idiv"} /\ exit = "none" =>
        /\ Halves.quot * insn.rhs + Halves.rem = insn.lhs
        /\ Abs(Halves.rem) < Abs(insn.rhs)
        /\ Halves.rem = 0 \/ (Halves.rem < 0) = (insn.lhs < 0)

\* A division faults exactly when the divisor is zero or the true quotient does
\* not fit the operand, and a fault leaves every register and flag as it was.
DivideFaults ==
    LET w     == insn.w
        range == IF insn.op = "div" THEN 0 .. Modulus(w) - 1
                 ELSE -(Modulus(w) \div 2) .. Modulus(w) \div 2 - 1
    IN  /\ insn.op \in {"div", "idiv"} =>
               (exit = "divide" <=>
                   insn.rhs = 0 \/ ~ \E q \in range : q = Quot(insn.lhs, insn.rhs))
        /\ exit = "divide" => regs = before.regs /\ overflow = before.overflow
=============================================================================
