----------------------------- MODULE Grp3Proofs ------------------------------
(***************************************************************************)
(* Theorems about Grp3: for every size of a byte, every width and all      *)
(* values of the registers, products are exact, a quotient and remainder   *)
(* are the ones of the dividend, and a division faults exactly when it     *)
(* must.  A behaviour runs one instruction, so each invariant is shown to  *)
(* hold after each of them; the lemmas say what the code's arithmetic on   *)
(* words computes.                                                         *)
(***************************************************************************)
EXTENDS Grp3, NatFacts, TLAPS

Width == {1, 2, 4, 8}

\* The signed numbers of a width.
SignedRange(w) == -(Modulus(w) \div 2) .. Modulus(w) \div 2 - 1

-----------------------------------------------------------------------------
(* Powers of two as moduli.                                                *)

LEMMA Moduli ==
  ASSUME NEW w \in Width
  PROVE  /\ Modulus(w) \in Nat \ {0}
         /\ \E h \in Nat \ {0} : Modulus(w) = 2 * h /\ Modulus(w) \div 2 = h
<1> DEFINE b == w * ByteBits
<1>1. b \in Nat \ {0}
  <2>1. ByteBits \in Nat \ {0} /\ w \in Nat \ {0}
    BY BitsAssumption DEF Width
  <2> QED BY <2>1
<1> HIDE DEF b
<1>2. b - 1 \in Nat /\ (b - 1) + 1 = b
  BY <1>1
<1>3. 2 ^ ((b - 1) + 1) = 2 * 2 ^ (b - 1) /\ 2 ^ (b - 1) \in Nat /\ 2 ^ (b - 1) >= 1
  BY <1>2, PowerStep, PowerPositive
<1> DEFINE h == 2 ^ (b - 1)
<1> HIDE DEF h
<1>4. 2 ^ b = 2 * h /\ h \in Nat \ {0}
  BY <1>2, <1>3 DEF h
<1>5. (2 * h) \div 2 = h
  BY <1>4
<1> QED BY <1>4, <1>5 DEF Modulus, Bits, b

LEMMA Squares ==
  /\ Modulus(2) = Modulus(1) * Modulus(1)
  /\ Modulus(4) = Modulus(2) * Modulus(2)
  /\ Modulus(8) = Modulus(4) * Modulus(4)
<1>1. ASSUME NEW v \in {1, 2, 4} PROVE Modulus(2 * v) = Modulus(v) * Modulus(v)
  <2> DEFINE b == v * ByteBits
  <2>1. ByteBits \in Nat /\ v \in Nat
    BY BitsAssumption
  <2>2. b \in Nat /\ (2 * v) * ByteBits = b + b
    BY <2>1
  <2> HIDE DEF b
  <2>3. 2 ^ (b + b) = 2 ^ b * 2 ^ b
    BY <2>2, PowerSum
  <2> QED BY <2>2, <2>3 DEF Modulus, Bits, b
<1>2. Modulus(2 * 1) = Modulus(1) * Modulus(1)
  BY <1>1
<1>3. Modulus(2 * 2) = Modulus(2) * Modulus(2)
  BY <1>1
<1>4. Modulus(2 * 4) = Modulus(4) * Modulus(4)
  BY <1>1
<1>5. 2 * 1 = 2 /\ 2 * 2 = 4 /\ 2 * 4 = 8
  OBVIOUS
<1> QED BY <1>2, <1>3, <1>4, <1>5

\* A smaller modulus divides a larger one.
LEMMA Divides ==
  ASSUME NEW v \in Width, NEW w \in Width, v <= w
  PROVE  \E k \in Nat \ {0} : Modulus(w) = k * Modulus(v)
<1> DEFINE a == v * ByteBits
           b == w * ByteBits
<1>1. ByteBits \in Nat /\ v \in Nat /\ w \in Nat
  BY BitsAssumption DEF Width
<1>2. a \in Nat /\ b \in Nat /\ a <= b
  BY <1>1
<1> HIDE DEF a, b
<1> DEFINE c == b - a
<1>3. c \in Nat /\ c + a = b
  BY <1>2
<1> HIDE DEF c
<1>4. 2 ^ (c + a) = 2 ^ c * 2 ^ a /\ 2 ^ c \in Nat \ {0}
  BY <1>2, <1>3, PowerSum, PowerPositive
<1> QED BY <1>3, <1>4 DEF Modulus, Bits, a, b

LEMMA LowFacts ==
  ASSUME NEW n \in Int, NEW w \in Width
  PROVE  /\ Low(n, w) \in Nat /\ Low(n, w) < Modulus(w)
         /\ n \in Nat /\ n < Modulus(w) => Low(n, w) = n
         /\ \A m \in Int : Low(n + m * Modulus(w), w) = Low(n, w)
<1> DEFINE d == Modulus(w)
<1>1. d \in Nat \ {0}
  BY Moduli
<1> HIDE DEF d
<1>2. n % d \in Nat /\ n % d < d
  BY <1>1, IntDivision
<1>3. n \in Nat /\ n < d => n % d = n
  BY <1>1, SmallDividend
<1>4. \A m \in Int : (n + m * d) % d = n % d
  BY <1>1, IntModMultiple
<1> QED BY <1>2, <1>3, <1>4 DEF Low, d

\* What is left of a number does not depend on a wider cut made before.
LEMMA LowLow ==
  ASSUME NEW n \in Int, NEW v \in Width, NEW w \in Width, v <= w
  PROVE  Low(Low(n, w), v) = Low(n, v)
<1> DEFINE d == Modulus(v)
<1>1. PICK k \in Nat \ {0} : Modulus(w) = k * d
  BY Divides
<1>2. d \in Nat \ {0}
  BY Moduli
<1> HIDE DEF d
<1>3. (n % (k * d)) % d = n % d
  BY <1>1, <1>2, IntModSplit
<1> QED BY <1>1, <1>3 DEF Low, d

LEMMA LowWrap ==
  ASSUME NEW n \in Int, NEW w \in Width
  PROVE  Low(Wrap(n), w) = Low(n, w)
<1>1. w <= 8 /\ 8 \in Width
  BY DEF Width
<1>2. Wrap(n) = Low(n, 8)
  BY DEF Wrap, Low
<1> QED BY <1>1, <1>2, LowLow

LEMMA WordFacts ==
  ASSUME NEW n
  PROVE  /\ n \in Word <=> n \in Nat /\ n < Modulus(8)
         /\ n \in Int => Wrap(n) \in Word
         /\ n \in Int => \A w \in Width : Low(n, w) \in Word
<1> DEFINE d == Modulus(8)
<1>1. 8 \in Width /\ d \in Nat \ {0}
  BY Moduli DEF Width
<1>2. Word = 0 .. d - 1
  BY DEF Word
<1> HIDE DEF d
<1>3. n \in Word <=> n \in Nat /\ n < d
  BY <1>1, <1>2
<1>4. ASSUME NEW m \in Int, NEW w \in Width PROVE Low(m, w) \in Word
  <2>1. PICK k \in Nat \ {0} : d = k * Modulus(w)
    <3>1. w <= 8
      BY DEF Width
    <3> QED BY <1>1, <3>1, Divides DEF d
  <2> DEFINE e == Modulus(w)
             l == Low(m, w)
  <2>2. e \in Nat \ {0} /\ l \in Nat /\ l < e
    BY Moduli, LowFacts
  <2> HIDE DEF e, l
  <2>3. d = k * e
    BY <2>1 DEF e
  <2>4. e <= d
    BY <2>2, <2>3
  <2>5. l \in 0 .. d - 1
    BY <1>1, <2>2, <2>4
  <2> QED BY <1>2, <2>5 DEF l
<1>5. n \in Int => Wrap(n) \in Word
  BY <1>1, <1>4 DEF Wrap, Low
<1> QED BY <1>3, <1>4, <1>5 DEF d

\* A signed number is the one in the range that is congruent.
LEMMA SignedFacts ==
  ASSUME NEW n \in Int, NEW w \in Width
  PROVE  /\ Signed(n, w) \in SignedRange(w)
         /\ Signed(n, w) \in Int
         /\ Low(Signed(n, w), w) = Low(n, w)
         /\ Signed(n, w) < 0 <=> 2 * Low(n, w) >= Modulus(w)
         /\ Signed(n, w) >= 0 => Signed(n, w) = Low(n, w)
         /\ Signed(n, w) < 0 => Signed(n, w) = Low(n, w) - Modulus(w)
<1> DEFINE d == Modulus(w)
           l == Low(n, w)
           s == Signed(n, w)
<1>1. PICK h \in Nat \ {0} : d = 2 * h /\ d \div 2 = h
  BY Moduli
<1>2. l \in Nat /\ l < d
  BY LowFacts
<1>3. s = l - IF 2 * l >= d THEN d ELSE 0
  BY DEF Signed
<1>4. SignedRange(w) = -h .. h - 1
  BY <1>1 DEF SignedRange
<1>5. d \in Nat \ {0}
  BY <1>1
<1> HIDE DEF d, l, s
<1>6. s \in -h .. h - 1 /\ s \in Int
  BY <1>1, <1>2, <1>3
<1>7. (s < 0 <=> 2 * l >= d) /\ (s >= 0 => s = l) /\ (s < 0 => s = l - d)
  BY <1>1, <1>2, <1>3
<1>8. Low(s, w) = l
  <2>1. l % d = l
    BY <1>2, <1>5, SmallDividend
  <2>2. (l + (-1) * d) % d = l % d
    <3>1. l \in Int /\ -1 \in Int
      BY <1>2
    <3> QED BY <1>5, <3>1, IntModMultiple
  <2>3. s = l \/ s = l + (-1) * d
    BY <1>2, <1>3, <1>5
  <2>4. s % d = l
    BY <2>1, <2>2, <2>3
  <2> QED BY <2>4 DEF Low, d
<1> QED BY <1>4, <1>6, <1>7, <1>8 DEF d, l, s

LEMMA SignedUnique ==
  ASSUME NEW n \in Int, NEW w \in Width, NEW x \in SignedRange(w), Low(x, w) = Low(n, w)
  PROVE  Signed(n, w) = x
<1> DEFINE d == Modulus(w)
           l == Low(n, w)
           s == Signed(n, w)
<1>1. PICK h \in Nat \ {0} : d = 2 * h /\ d \div 2 = h
  BY Moduli
<1>2. l \in Nat /\ l < d
  BY LowFacts
<1>3. s = l - IF 2 * l >= d THEN d ELSE 0
  BY DEF Signed
<1>4. x \in -h .. h - 1
  BY <1>1 DEF SignedRange
<1>5. x % d = l
  BY DEF Low
<1> HIDE DEF d, l, s
<1>6. d \in Nat \ {0} /\ x \in Int
  BY <1>1, <1>4
<1>7. CASE x >= 0
  <2>1. x \in Nat /\ x < d
    BY <1>1, <1>4, <1>7
  <2>2. x = l
    BY <1>5, <1>6, <2>1, SmallDividend
  <2> QED BY <1>1, <1>2, <1>3, <1>4, <2>2 DEF s
<1>8. CASE x < 0
  <2>1. x + d \in Nat /\ x + d < d
    BY <1>1, <1>4, <1>8
  <2>2. (x + d) % d = x + d
    BY <1>6, <2>1, SmallDividend
  <2>3. \A m \in Int : (x + m * d) % d = x % d
    BY <1>6, IntModMultiple
  <2>4. PICK m \in Int : m = 1
    OBVIOUS
  <2>5. x + m * d = x + d
    BY <1>6, <2>4
  <2>6. l = x + d
    BY <1>5, <2>2, <2>3, <2>5
  <2> QED BY <1>1, <1>2, <1>3, <1>4, <1>6, <2>6 DEF s
<1> QED BY <1>6, <1>7, <1>8

-----------------------------------------------------------------------------
(* Writing a result.                                                       *)

LEMMA Written ==
  ASSUME NEW file \in [Reg -> Word], NEW r \in Reg, NEW w \in Width, NEW v \in Int
  PROVE  /\ WriteGpr(file, r, w, v) \in [Reg -> Word]
         /\ Low(WriteGpr(file, r, w, v)[r], w) = Low(v, w)
         /\ \A q \in Reg \ {r} : WriteGpr(file, r, w, v)[q] = file[q]
<1> DEFINE old == file[r]
           d == Modulus(w)
           l == Low(v, w)
           new == IF w >= 4 THEN l ELSE old - Low(old, w) + l
<1>1. WriteGpr(file, r, w, v) = [file EXCEPT ![r] = new]
  BY DEF WriteGpr
<1>2. old \in Word /\ old \in Nat /\ l \in Nat /\ l < d /\ l \in Word
  BY LowFacts, WordFacts
<1>3. d \in Nat \ {0}
  BY Moduli
<1>4. Low(l, w) = l
  BY <1>2, LowFacts
<1>5. CASE w >= 4
  <2>1. new = l
    BY <1>5
  <2> QED BY <1>1, <1>2, <1>4, <2>1
<1>6. CASE ~(w >= 4)
  <2> DEFINE q == old \div d
             e == q * d
             o == old % d
  <2>1. q \in Nat /\ o \in Nat /\ o < d /\ old = e + o
    BY <1>2, <1>3, Division, DivModNat
  <2>2. new = old - o + l
    BY <1>6 DEF Low
  <2> HIDE DEF o
  <2>3. PICK k \in Nat \ {0} : Modulus(8) = k * d
    <3>1. w <= 8 /\ 8 \in Width
      BY DEF Width
    <3> QED BY <3>1, Divides
  <2>4. old < k * d
    BY <1>2, <2>3, WordFacts
  <2> HIDE DEF d, l, q, old, new
  <2>5. e + d <= k * d
    <3>1. q < k
      <4> SUFFICES ASSUME q >= k PROVE FALSE
        BY <2>1
      <4>1. q * d >= k * d
        BY <1>3, <2>1
      <4> QED BY <1>3, <2>1, <2>4, <4>1
    <3>2. (q + 1) * d <= k * d
      BY <1>3, <2>1, <3>1
    <3>3. (q + 1) * d = q * d + d
      BY <1>3, <2>1
    <3> QED BY <3>2, <3>3
  <2>6. e \in Nat
    BY <1>3, <2>1
  <2>7. new = e + l
    BY <1>2, <2>1, <2>2, <2>6
  <2>8. new \in Nat /\ new < Modulus(8)
    BY <1>2, <1>3, <2>3, <2>5, <2>6, <2>7
  <2>9. new \in Word
    BY <2>8, WordFacts
  <2>10. new % d = l
    BY <1>2, <1>3, <2>1, <2>7, DivisionUnique
  <2>11. Low(new, w) = l
    BY <2>10 DEF Low, d
  <2> QED BY <1>1, <2>9, <2>11 DEF l
<1> QED BY <1>5, <1>6

\* The halves of a result, where WritePair puts them.
PairIn(file, w) ==
    IF w = 1 THEN Low(file["rax"], 2)
    ELSE Low(file["rdx"], w) * Modulus(w) + Low(file["rax"], w)
QuotIn(file, w) == Low(file["rax"], w)
RemIn(file, w) ==
    IF w = 1 THEN Low(file["rax"] \div Modulus(1), 1) ELSE Low(file["rdx"], w)

LEMMA PairWritten ==
  ASSUME regs \in [Reg -> Word], NEW w \in Width, NEW high \in Int, NEW low \in Int
  PROVE  /\ WritePair(w, high, low) \in [Reg -> Word]
         /\ PairIn(WritePair(w, high, low), w) = Low(high, w) * Modulus(w) + Low(low, w)
         /\ QuotIn(WritePair(w, high, low), w) = Low(low, w)
         /\ RemIn(WritePair(w, high, low), w) = Low(high, w)
<1> DEFINE file == WritePair(w, high, low)
<1>0. "rax" \in Reg /\ "rdx" \in Reg \ {"rax"} /\ "rax" \in Reg \ {"rdx"}
  BY DEF Reg
<1>1. CASE w = 1
  <2> DEFINE d == Modulus(1)
             h == Low(high, 1)
             l == Low(low, 1)
             v == h * d + l
             x == file["rax"]
  <2>1. 1 \in Width /\ 2 \in Width
    BY DEF Width
  <2>2. file = WriteGpr(regs, "rax", 2, v)
    BY <1>1 DEF WritePair
  <2>3. d \in Nat \ {0} /\ h \in Nat /\ h < d /\ l \in Nat /\ l < d
    BY <2>1, Moduli, LowFacts
  <2> HIDE DEF d, h, l, file
  <2>4. v \in Nat /\ v < d * d /\ v \in Int
    <3>1. v \in Nat
      BY <2>3
    <3>2. h + 1 <= d
      BY <2>3
    <3>3. (h + 1) * d <= d * d
      BY <2>3, <3>2
    <3>4. (h + 1) * d = h * d + d
      BY <2>3
    <3> QED BY <2>3, <3>1, <3>3, <3>4
  <2>5. v % d = l /\ v \div d = h
    BY <2>3, DivisionUnique
  <2>6. Modulus(2) = d * d
    BY Squares DEF d
  <2> HIDE DEF v
  <2>7. Low(v, 2) = v
    BY <2>1, <2>4, <2>6, LowFacts
  <2>8. file \in [Reg -> Word] /\ Low(x, 2) = v
    BY <1>0, <2>1, <2>2, <2>4, <2>7, Written
  <2>9. x \in Int
    BY <1>0, <2>8, WordFacts
  <2> HIDE DEF x
  <2>10. x % (d * d) = ((x \div d) % d) * d + (x % d) /\ (x % (d * d)) % d = x % d
    BY <2>3, <2>9, IntModSplit
  <2>11. x % (d * d) = v
    BY <2>6, <2>8 DEF Low
  <2>12. x % d = l
    BY <2>5, <2>10, <2>11
  <2>13. (x \div d) % d = h
    <3> DEFINE y == (x \div d) % d
    <3>1. x \div d \in Int
      BY <2>3, <2>9, IntDivision
    <3>2. y \in Nat
      BY <2>3, <3>1, IntDivision
    <3>3. v = y * d + l
      BY <2>10, <2>11, <2>12
    <3> HIDE DEF y
    <3>4. v \div d = y
      BY <2>3, <3>2, <3>3, DivisionUnique
    <3> QED BY <2>5, <3>4 DEF y
  <2>14. PairIn(file, w) = v /\ QuotIn(file, w) = l /\ RemIn(file, w) = h
    BY <1>1, <2>8, <2>12, <2>13 DEF PairIn, QuotIn, RemIn, Low, x, d
  <2> QED BY <1>1, <2>8, <2>14 DEF v, d, h, l, file
<1>2. CASE w # 1
  <2> DEFINE mid == WriteGpr(regs, "rax", w, low)
  <2>1. file = WriteGpr(mid, "rdx", w, high)
    BY <1>2 DEF WritePair
  <2>2. mid \in [Reg -> Word] /\ Low(mid["rax"], w) = Low(low, w)
    BY <1>0, Written
  <2> HIDE DEF mid, file
  <2>3. file \in [Reg -> Word] /\ Low(file["rdx"], w) = Low(high, w) /\ file["rax"] = mid["rax"]
    BY <1>0, <2>1, <2>2, Written
  <2>4. /\ PairIn(file, w) = Low(high, w) * Modulus(w) + Low(low, w)
        /\ QuotIn(file, w) = Low(low, w)
        /\ RemIn(file, w) = Low(high, w)
    BY <1>2, <2>2, <2>3, Zenon DEF PairIn, QuotIn, RemIn
  <2> QED BY <2>3, <2>4 DEF file
<1> QED BY <1>1, <1>2

-----------------------------------------------------------------------------
(* Products.                                                               *)

LEMMA Halves2 ==
  ASSUME NEW n \in Nat
  PROVE  /\ Upper(n) \in Nat /\ Lower(n) \in Nat /\ Lower(n) < Half
         /\ n = Upper(n) * Half + Lower(n)
<1> DEFINE d == Modulus(4)
<1>1. d \in Nat \ {0}
  BY Moduli DEF Width
<1> HIDE DEF d
<1>2. n \div d \in Nat /\ n % d \in Nat /\ n % d < d /\ n = (n \div d) * d + (n % d)
  BY <1>1, Division, DivModNat
<1> QED BY <1>2 DEF Upper, Lower, Half, Low, d

\* Four products of halves add up to the product.
LEMMA SchoolProduct ==
  ASSUME NEW d \in Nat,
         NEW a1 \in Nat, NEW a0 \in Nat, NEW b1 \in Nat, NEW b0 \in Nat
  PROVE  (a1 * d + a0) * (b1 * d + b0)
             = (a1 * b1) * (d * d) + (a0 * b1) * d + (a1 * b0) * d + a0 * b0
<1> DEFINE x == a1 * d
           y == b1 * d
<1>1. x \in Nat /\ y \in Nat
  OBVIOUS
<1>2. x * y = (a1 * b1) * (d * d) /\ x * b0 = (a1 * b0) * d /\ a0 * y = (a0 * b1) * d
  OBVIOUS
<1> HIDE DEF x, y
<1>3. (x + a0) * (y + b0) = x * y + a0 * y + x * b0 + a0 * b0
  BY <1>1
<1> QED BY <1>2, <1>3 DEF x, y

LEMMA MulWideExact ==
  ASSUME NEW a \in Word, NEW b \in Word
  PROVE  /\ MulWide(a, b).low \in Word /\ MulWide(a, b).high \in Word
         /\ MulWide(a, b).high * Modulus(8) + MulWide(a, b).low = a * b
<1> DEFINE d == Half
           p0 == Lower(a) * Lower(b)
           p1 == Lower(a) * Upper(b)
           p2 == Upper(a) * Lower(b)
           p3 == Upper(a) * Upper(b)
           mid == Upper(p0) + Lower(p1) + Lower(p2)
           low == Lower(mid) * Half + Lower(p0)
           high == p3 + Upper(p1) + Upper(p2) + Upper(mid)
<1>1. MulWide(a, b).low = low /\ MulWide(a, b).high = high
  BY DEF MulWide
<1>2. a \in Nat /\ b \in Nat /\ a < Modulus(8) /\ b < Modulus(8)
  BY WordFacts
<1>3. Modulus(8) = d * d /\ d \in Nat \ {0}
  BY Squares, Moduli DEF Half, Width
<1>4. /\ Upper(a) \in Nat /\ Lower(a) \in Nat /\ a = Upper(a) * d + Lower(a)
      /\ Upper(b) \in Nat /\ Lower(b) \in Nat /\ b = Upper(b) * d + Lower(b)
  BY <1>2, Halves2
<1>5. a * b = p3 * (d * d) + p1 * d + p2 * d + p0
  <2> DEFINE a1 == Upper(a)
             a0 == Lower(a)
             b1 == Upper(b)
             b0 == Lower(b)
  <2> HIDE DEF a1, a0, b1, b0, d
  <2>1. (a1 * d + a0) * (b1 * d + b0)
             = (a1 * b1) * (d * d) + (a0 * b1) * d + (a1 * b0) * d + a0 * b0
    BY <1>3, <1>4, SchoolProduct DEF a1, a0, b1, b0
  <2>2. a = a1 * d + a0 /\ b = b1 * d + b0
    BY <1>4 DEF a1, a0, b1, b0
  <2> QED BY <2>1, <2>2, Zenon DEF a1, a0, b1, b0
<1>6. p0 \in Nat /\ p1 \in Nat /\ p2 \in Nat /\ p3 \in Nat
  BY <1>4
<1> HIDE DEF p0, p1, p2, p3
<1>7. /\ Upper(p0) \in Nat /\ Lower(p0) \in Nat /\ Lower(p0) < d /\ p0 = Upper(p0) * d + Lower(p0)
      /\ Upper(p1) \in Nat /\ Lower(p1) \in Nat /\ p1 = Upper(p1) * d + Lower(p1)
      /\ Upper(p2) \in Nat /\ Lower(p2) \in Nat /\ p2 = Upper(p2) * d + Lower(p2)
  BY <1>6, Halves2
<1>8. mid \in Nat
  BY <1>7
<1>9. /\ Upper(mid) \in Nat /\ Lower(mid) \in Nat /\ Lower(mid) < d
      /\ mid = Upper(mid) * d + Lower(mid)
  <2> HIDE DEF mid
  <2> QED BY <1>8, Halves2
<1> DEFINE u0 == Upper(p0)
           l0 == Lower(p0)
           u1 == Upper(p1)
           l1 == Lower(p1)
           u2 == Upper(p2)
           l2 == Lower(p2)
           um == Upper(mid)
           lm == Lower(mid)
           dd == d * d
<1>10. /\ u0 \in Nat /\ l0 \in Nat /\ u1 \in Nat /\ l1 \in Nat /\ u2 \in Nat /\ l2 \in Nat
       /\ um \in Nat /\ lm \in Nat /\ d \in Nat /\ l0 < d /\ lm < d
       /\ p0 = u0 * d + l0 /\ p1 = u1 * d + l1 /\ p2 = u2 * d + l2
       /\ u0 + l1 + l2 = um * d + lm
       /\ low = lm * d + l0 /\ high = p3 + u1 + u2 + um
  BY <1>3, <1>7, <1>9
<1>11. a * b = p3 * dd + p1 * d + p2 * d + p0
  BY <1>5
<1> HIDE DEF u0, l0, u1, l1, u2, l2, um, lm, low, high, d, mid
<1>12. high * dd + low = a * b
  <2>1. p1 * d = u1 * dd + l1 * d /\ p2 * d = u2 * dd + l2 * d
    BY <1>10
  <2>2. (u0 + l1 + l2) * d = (um * d + lm) * d
    BY <1>10
  <2>3. (u0 + l1 + l2) * d = u0 * d + l1 * d + l2 * d /\ (um * d + lm) * d = um * dd + lm * d
    BY <1>10
  <2>4. high * dd = p3 * dd + u1 * dd + u2 * dd + um * dd
    BY <1>6, <1>10
  <2>5. /\ u0 * d \in Nat /\ l1 * d \in Nat /\ l2 * d \in Nat /\ um * dd \in Nat /\ lm * d \in Nat
        /\ p3 * dd \in Nat /\ u1 * dd \in Nat /\ u2 * dd \in Nat
    BY <1>6, <1>10
  <2>6. a * b = p3 * dd + (u1 * dd + l1 * d) + (u2 * dd + l2 * d) + (u0 * d + l0)
    BY <1>10, <1>11, <2>1
  <2>7. l1 * d + l2 * d + u0 * d = um * dd + lm * d
    BY <2>2, <2>3, <2>5
  <2> DEFINE x1 == p3 * dd
             x2 == u1 * dd
             x3 == u2 * dd
             x4 == um * dd
             y1 == l1 * d
             y2 == l2 * d
             y3 == u0 * d
             y4 == lm * d
  <2>8. /\ a * b = x1 + (x2 + y1) + (x3 + y2) + (y3 + l0)
        /\ y1 + y2 + y3 = x4 + y4
        /\ high * dd = x1 + x2 + x3 + x4
        /\ low = y4 + l0
    BY <1>10, <2>4, <2>6, <2>7
  <2>9. /\ x1 \in Nat /\ x2 \in Nat /\ x3 \in Nat /\ x4 \in Nat
        /\ y1 \in Nat /\ y2 \in Nat /\ y3 \in Nat /\ y4 \in Nat /\ l0 \in Nat
    BY <1>10, <2>5
  <2> HIDE DEF x1, x2, x3, x4, y1, y2, y3, y4, dd
  <2> QED BY <2>8, <2>9
<1>13. low \in Nat /\ high \in Nat /\ low < dd
  <2>1. low \in Nat /\ high \in Nat
    BY <1>6, <1>10
  <2>2. (lm + 1) * d <= d * d
    BY <1>10
  <2>3. (lm + 1) * d = lm * d + d
    BY <1>10
  <2> QED BY <1>10, <2>1, <2>2, <2>3
<1>14. high < dd
  <2> SUFFICES ASSUME high >= dd PROVE FALSE
    BY <1>10, <1>13
  <2> DEFINE m == dd
  <2>1. m \in Nat \ {0} /\ a < m /\ b < m /\ high >= m /\ high * m + low = a * b
    BY <1>2, <1>3, <1>12
  <2> HIDE DEF m, dd
  <2>2. high * m >= m * m
    BY <1>13, <2>1
  <2>3. a * b < m * m
    <3>1. a * b <= a * m
      BY <1>2, <2>1
    <3>2. a * m < m * m
      BY <1>2, <2>1
    <3> QED BY <1>2, <2>1, <3>1, <3>2
  <2> QED BY <1>2, <1>13, <2>1, <2>2, <2>3
<1> QED BY <1>1, <1>3, <1>12, <1>13, <1>14, WordFacts DEF low, high

\* A number and what is above its low part, as the two halves of a result.
LEMMA TwoParts ==
  ASSUME NEW n \in Int, NEW w \in Width
  PROVE  Low(n \div Modulus(w), w) * Modulus(w) + Low(n, w) = n % (Modulus(w) * Modulus(w))
<1> DEFINE d == Modulus(w)
<1>1. d \in Nat \ {0}
  BY Moduli
<1> HIDE DEF d
<1>2. n % (d * d) = ((n \div d) % d) * d + (n % d)
  BY <1>1, IntModSplit
<1> QED BY <1>2 DEF Low, d

LEMMA SignedProduct ==
  ASSUME NEW h \in Nat \ {0}, NEW a \in -h .. h - 1, NEW b \in -h .. h - 1
  PROVE  a * b \in Int /\ a * b <= h * h /\ a * b >= -(h * h)
<1>1. ASSUME NEW x \in Nat, NEW y \in Nat, x <= h, y <= h
      PROVE  x * y \in Nat /\ x * y <= h * h
  <2>1. x * y <= x * h
    BY <1>1
  <2>2. x * h <= h * h
    BY <1>1
  <2> QED BY <2>1, <2>2
<1> DEFINE x == IF a < 0 THEN -a ELSE a
           y == IF b < 0 THEN -b ELSE b
<1>2. x \in Nat /\ y \in Nat /\ x <= h /\ y <= h
  OBVIOUS
<1>3. x * y \in Nat /\ x * y <= h * h
  <2> HIDE DEF x, y
  <2> QED BY <1>1, <1>2
<1>4. a * b = x * y \/ a * b = -(x * y)
  <2>1. (a = x \/ a = -x) /\ (b = y \/ b = -y)
    OBVIOUS
  <2> HIDE DEF x, y
  <2>2. (-x) * y = -(x * y) /\ x * (-y) = -(x * y) /\ (-x) * (-y) = x * y
    BY <1>2
  <2> QED BY <2>1, <2>2
<1> QED BY <1>3, <1>4

LEMMA RangeFacts ==
  ASSUME NEW w \in Width
  PROVE  \E h \in Nat \ {0} : /\ Modulus(w) = 2 * h
                              /\ SignedRange(w) = -h .. h - 1
                              /\ \A x \in SignedRange(w) : x \in Int
<1>1. PICK h \in Nat \ {0} : Modulus(w) = 2 * h /\ Modulus(w) \div 2 = h
  BY Moduli
<1> QED BY <1>1 DEF SignedRange

\* imul_high() is the upper word of the signed product, as the word it is.
LEMMA ImulHighExact ==
  ASSUME NEW a \in SignedRange(8), NEW b \in SignedRange(8)
  PROVE  ImulHigh(a, b) = Wrap((a * b) \div Modulus(8))
<1> DEFINE d == Modulus(8)
           x == IF a < 0 THEN 1 ELSE 0
           y == IF b < 0 THEN 1 ELSE 0
           high == MulWide(Wrap(a), Wrap(b)).high
           low == MulWide(Wrap(a), Wrap(b)).low
<1>0. 8 \in Width
  BY DEF Width
<1>1. PICK h \in Nat \ {0} : d = 2 * h /\ SignedRange(8) = -h .. h - 1
  BY <1>0, RangeFacts
<1>2. a \in Int /\ b \in Int /\ d \in Nat \ {0} /\ a >= -d /\ a < d /\ b >= -d /\ b < d
  BY <1>1
<1>3. ASSUME NEW c \in Int, c >= -d, c < d
      PROVE  Wrap(c) = c + (IF c < 0 THEN 1 ELSE 0) * d
  <2>1. CASE c >= 0
    <3>1. c % d = c
      BY <1>2, <1>3, <2>1, SmallDividend
    <3>2. Wrap(c) = c
      BY <3>1 DEF Wrap
    <3> HIDE DEF d
    <3> QED BY <1>2, <2>1, <3>2
  <2>2. CASE c < 0
    <3> HIDE DEF d
    <3>1. c + d \in Nat /\ c + d < d
      BY <1>2, <1>3, <2>2
    <3>2. (c + d) % d = c + d
      BY <1>2, <3>1, SmallDividend
    <3>3. \A m \in Int : (c + m * d) % d = c % d
      BY <1>2, IntModMultiple
    <3>4. PICK m \in Int : m = 1
      OBVIOUS
    <3>5. c + m * d = c + d
      BY <1>2, <3>4
    <3>6. c % d = c + d
      BY <3>2, <3>3, <3>5
    <3>7. Wrap(c) = c + d
      BY <3>6 DEF Wrap, d
    <3> QED BY <1>2, <2>2, <3>7
  <2> QED BY <2>1, <2>2
<1>4. Wrap(a) = a + x * d /\ Wrap(b) = b + y * d
  BY <1>2, <1>3
<1>5. Wrap(a) \in Word /\ Wrap(b) \in Word
  BY <1>2, WordFacts
<1>6. /\ high \in Nat /\ low \in Nat /\ low < d
      /\ high * d + low = Wrap(a) * Wrap(b)
  BY <1>5, MulWideExact, WordFacts
<1>7. ImulHigh(a, b) = Wrap(high - x * b - y * a)
  <2>1. /\ x * b = IF a < 0 THEN b ELSE 0
        /\ y * a = IF b < 0 THEN a ELSE 0
    BY <1>2
  <2> QED BY <2>1 DEF ImulHigh
<1>8. x \in Int /\ y \in Int
  OBVIOUS
<1> DEFINE e == high - x * b - y * a
           q == e + (-(x * y)) * d
<1> HIDE DEF d, x, y, high, low
<1>9. a * b = q * d + low
  <2>1. (a + x * d) * (b + y * d) = a * b + (x * b) * d + (y * a) * d + ((x * y) * d) * d
    <3>1. (a + x * d) * (b + y * d) = a * b + a * (y * d) + (x * d) * b + (x * d) * (y * d)
      <4> DEFINE u == x * d
                 v == y * d
      <4>1. u \in Int /\ v \in Int
        BY <1>2, <1>8
      <4> HIDE DEF u, v
      <4>2. (a + u) * (b + v) = a * b + a * v + u * b + u * v
        BY <1>2, <4>1
      <4> QED BY <4>2 DEF u, v
    <3>2. /\ a * (y * d) = (y * a) * d /\ (x * d) * b = (x * b) * d
          /\ (x * d) * (y * d) = ((x * y) * d) * d
      BY <1>2, <1>8
    <3>3. a * b \in Int /\ (y * a) * d \in Int /\ (x * b) * d \in Int /\ ((x * y) * d) * d \in Int
      BY <1>2, <1>8
    <3> QED BY <3>1, <3>2, <3>3
  <2>2. q * d = high * d - (x * b) * d - (y * a) * d - ((x * y) * d) * d
    BY <1>2, <1>6, <1>8
  <2>3. high * d + low = (a + x * d) * (b + y * d)
    BY <1>4, <1>6
  <2> DEFINE p == a * b
             p1 == (x * b) * d
             p2 == (y * a) * d
             p3 == ((x * y) * d) * d
             p4 == high * d
             p5 == q * d
  <2>4. /\ p \in Int /\ p1 \in Int /\ p2 \in Int /\ p3 \in Int /\ p4 \in Int /\ p5 \in Int
        /\ low \in Int
    BY <1>2, <1>6, <1>8
  <2>5. p4 + low = p + p1 + p2 + p3 /\ p5 = p4 - p1 - p2 - p3
    BY <2>1, <2>2, <2>3
  <2>6. p = p5 + low
    <3> HIDE DEF p, p1, p2, p3, p4, p5
    <3> QED BY <2>4, <2>5
  <2> QED BY <2>6
<1>10. q \in Int /\ e \in Int
  BY <1>2, <1>6, <1>8
<1>11. (a * b) \div d = q
  <2> HIDE DEF q
  <2> QED BY <1>2, <1>6, <1>9, <1>10, IntDivisionUnique
<1>12. q % d = e % d
  <2> DEFINE m == -(x * y)
  <2>1. m \in Int /\ q = e + m * d
    BY <1>2, <1>8
  <2> HIDE DEF m, q, e
  <2>2. (e + m * d) % d = e % d
    BY <1>2, <1>10, <2>1, IntModMultiple
  <2> QED BY <2>1, <2>2
<1> QED BY <1>7, <1>11, <1>12 DEF Wrap, d

\* CF and OF say whether the product is a number of the operand's width.
LEMMA FitsExactly ==
  ASSUME NEW w \in Width, NEW a \in SignedRange(w), NEW b \in SignedRange(w)
  PROVE  ProductFits(a, b, Wrap(a * b), w) <=> a * b \in SignedRange(w)
<1> DEFINE p == a * b
<1>0. PICK h \in Nat \ {0} : Modulus(w) = 2 * h /\ SignedRange(w) = -h .. h - 1
  BY RangeFacts
<1>1. p \in Int /\ p <= h * h /\ p >= -(h * h)
  BY <1>0, SignedProduct
<1>2. CASE w # 8
  <2> HIDE DEF p
  <2>1. ProductFits(a, b, Wrap(p), w) <=> Signed(Wrap(p), w) = a * b
    BY <1>2 DEF ProductFits
  <2>2. Wrap(p) \in Int
    BY <1>1, WordFacts
  <2>3. Signed(Wrap(p), w) \in SignedRange(w)
    BY <2>2, SignedFacts
  <2>4. Low(p, w) = Low(Wrap(p), w)
    BY <1>1, LowWrap
  <2>5. p \in SignedRange(w) => Signed(Wrap(p), w) = p
    BY <2>2, <2>4, SignedUnique
  <2> QED BY <2>1, <2>3, <2>5 DEF p
<1>3. CASE w = 8
  <2> DEFINE d == Modulus(8)
             q == p \div d
             l == p % d
  <2>1. d = 2 * h /\ d \in Nat \ {0}
    BY <1>0, <1>3
  <2>2. q \in Int /\ l \in Nat /\ l < d /\ p = q * d + l
    BY <1>1, <2>1, IntDivision
  <2>3. ImulHigh(a, b) = q % d
    BY <1>3, ImulHighExact DEF Wrap
  <2>4. SignFillOf(l) = IF 2 * l >= d THEN d - 1 ELSE 0
    <3>1. l < Modulus(8) /\ l \in Int /\ 8 \in Width
      BY <2>2 DEF Width
    <3>2. Low(l, 8) = l
      BY <2>2, <3>1, LowFacts
    <3>3. Signed(l, 8) < 0 <=> 2 * l >= d
      BY <3>1, <3>2, SignedFacts
    <3> QED BY <3>3 DEF SignFillOf
  <2>5. ProductFits(a, b, l, 8) <=> q % d = IF 2 * l >= d THEN d - 1 ELSE 0
    BY <2>3, <2>4 DEF ProductFits
  <2>6. Wrap(p) = l
    BY DEF Wrap
  <2> HIDE DEF d, q, l, p
  <2>7. q >= -h /\ q < h
    <3>1. ASSUME q >= h PROVE FALSE
      <4>1. q * d >= h * d
        BY <2>1, <2>2, <3>1
      <4>2. h * d = h * h + h * h
        BY <2>1
      <4>3. h * h \in Nat /\ h * h >= 1
        OBVIOUS
      <4> DEFINE hh == h * h
                 qd == q * d
      <4>4. hh \in Nat /\ hh >= 1 /\ qd \in Int /\ qd >= hh + hh /\ p <= hh /\ p = qd + l
        BY <1>1, <2>1, <2>2, <4>1, <4>2, <4>3
      <4> HIDE DEF hh, qd
      <4> QED BY <2>2, <4>4
    <3>2. ASSUME q <= -h - 1 PROVE FALSE
      <4>1. q * d <= (-h - 1) * d
        BY <2>1, <2>2, <3>2
      <4>2. (-h - 1) * d = -(h * h) - h * h - d
        BY <2>1
      <4>3. h * h \in Nat /\ h * h >= 1
        OBVIOUS
      <4> QED BY <1>1, <2>1, <2>2, <4>1, <4>2, <4>3
    <3> QED BY <2>2, <3>1, <3>2
  <2>8. q % d = IF q < 0 THEN q + d ELSE q
    <3>1. CASE q >= 0
      <4>1. q \in Nat /\ q < d
        BY <2>1, <2>2, <2>7, <3>1
      <4> QED BY <2>1, <3>1, <4>1, SmallDividend
    <3>2. CASE q < 0
      <4>1. q + d \in Nat /\ q + d < d
        BY <2>1, <2>2, <2>7, <3>2
      <4>2. (-1) * d + (q + d) = q
        BY <2>1, <2>2
      <4>3. ((-1) * d + (q + d)) % d = q + d
        <5> DEFINE m == -1
                   r == q + d
        <5>1. m \in Int /\ r \in Nat /\ r < d
          BY <4>1
        <5> HIDE DEF m, r
        <5>2. (m * d + r) % d = r
          BY <2>1, <5>1, IntDivisionUnique
        <5> QED BY <5>2 DEF m, r
      <4> QED BY <3>2, <4>2, <4>3
    <3> QED BY <2>2, <3>1, <3>2
  <2>9. p \in -h .. h - 1 <=> (q = 0 /\ 2 * l < d) \/ (q = -1 /\ 2 * l >= d)
    <3>1. q >= 1 => p >= d
      <4>1. q >= 1 => q * d >= d
        BY <2>1, <2>2
      <4> QED BY <2>1, <2>2, <4>1
    <3>2. q <= -2 => p < -d
      <4>1. q <= -2 => q * d <= (-2) * d
        BY <2>1, <2>2
      <4> QED BY <2>1, <2>2, <4>1
    <3>3. q = 0 => p = l
      BY <2>1, <2>2
    <3>4. q = -1 => p = l - d
      BY <2>1, <2>2
    <3>5. q >= 1 \/ q <= -2 \/ q = 0 \/ q = -1
      BY <2>2
    <3> QED BY <1>1, <2>1, <2>2, <3>1, <3>2, <3>3, <3>4, <3>5
  <2>10. p \in -h .. h - 1 <=> q % d = IF 2 * l >= d THEN d - 1 ELSE 0
    BY <2>1, <2>2, <2>7, <2>8, <2>9
  <2> QED BY <1>0, <1>3, <2>5, <2>6, <2>10 DEF p
<1> QED BY <1>2, <1>3

-----------------------------------------------------------------------------
(* The division of two words by one.                                       *)

LEMMA BitSplits ==
  ASSUME NEW n \in Nat, NEW j \in Nat
  PROVE  /\ Bit(n, j) \in {0, 1} /\ n \div 2 ^ j \in Nat
         /\ n \div 2 ^ j = 2 * (n \div 2 ^ (j + 1)) + Bit(n, j)
<1> DEFINE d == 2 ^ j
           q == n \div d
           r == n % d
           t == q \div 2
           b == q % 2
<1>1. d \in Nat \ {0} /\ 2 ^ (j + 1) = 2 * d
  BY PowerStep, PowerPositive
<1>2. Bit(n, j) = b
  BY DEF Bit
<1> HIDE DEF d
<1>3. q \in Nat /\ r \in Nat /\ r < d /\ n = q * d + r
  BY <1>1, Division, DivModNat
<1> HIDE DEF q, r
<1>4. t \in Nat /\ b \in {0, 1} /\ q = 2 * t + b
  BY <1>3
<1> HIDE DEF t, b
<1> DEFINE dd == 2 * d
           s == b * d + r
<1>5. n = t * dd + s /\ s \in Nat /\ s < dd /\ dd \in Nat
  <2>1. (2 * t + b) * d = t * (2 * d) + b * d
    BY <1>1, <1>4
  <2>2. b * d \in Nat /\ b * d <= d
    BY <1>1, <1>4
  <2> QED BY <1>1, <1>3, <1>4, <2>1, <2>2
<1> HIDE DEF dd, s
<1>6. n \div dd = t
  BY <1>4, <1>5, DivisionUnique
<1> QED BY <1>1, <1>2, <1>3, <1>4, <1>6 DEF dd, q, d

\* One turn of the loop of udiv128.
Turn(old, bit, divisor) ==
    LET r   == Wrap(2 * old.rem) + bit
        fit == 2 * old.rem >= Modulus(8) \/ r >= divisor
    IN  [rem  |-> IF fit THEN Wrap(r - divisor) ELSE r,
         quot |-> Wrap(2 * old.quot) + IF fit THEN 1 ELSE 0]

LEMMA TurnExact ==
  ASSUME NEW divisor \in Word, NEW rem \in Nat, rem < divisor, NEW bit \in {0, 1},
         NEW quot \in Nat, 2 * quot + 1 < Modulus(8)
  PROVE  LET t == Turn([rem |-> rem, quot |-> quot], bit, divisor)
         IN  /\ t = [rem |-> t.rem, quot |-> t.quot]
             /\ t.rem \in Nat /\ t.rem < divisor
             /\ t.quot \in Nat /\ t.quot <= 2 * quot + 1
             /\ t.quot * divisor + t.rem = 2 * (quot * divisor + rem) + bit
<1> SUFFICES \E r \in Nat, q \in Nat :
                /\ Turn([rem |-> rem, quot |-> quot], bit, divisor) = [rem |-> r, quot |-> q]
                /\ r < divisor /\ q <= 2 * quot + 1
                /\ q * divisor + r = 2 * (quot * divisor + rem) + bit
  <2> DEFINE t == Turn([rem |-> rem, quot |-> quot], bit, divisor)
  <2> SUFFICES ASSUME NEW r \in Nat, NEW q \in Nat, t = [rem |-> r, quot |-> q],
                      r < divisor, q <= 2 * quot + 1,
                      q * divisor + r = 2 * (quot * divisor + rem) + bit
               PROVE  /\ t = [rem |-> t.rem, quot |-> t.quot]
                      /\ t.rem \in Nat /\ t.rem < divisor
                      /\ t.quot \in Nat /\ t.quot <= 2 * quot + 1
                      /\ t.quot * divisor + t.rem = 2 * (quot * divisor + rem) + bit
    OBVIOUS
  <2> HIDE DEF t
  <2>1. t.rem = r /\ t.quot = q
    OBVIOUS
  <2> QED BY <2>1
<1> DEFINE d == Modulus(8)
           a == Wrap(2 * rem) + bit
           fit == 2 * rem >= d \/ a >= divisor
           r == IF fit THEN Wrap(a - divisor) ELSE a
           q == Wrap(2 * quot) + IF fit THEN 1 ELSE 0
<1>1. Turn([rem |-> rem, quot |-> quot], bit, divisor) = [rem |-> r, quot |-> q]
  BY DEF Turn
<1>2. d \in Nat \ {0} /\ divisor \in Nat /\ divisor < d
  BY WordFacts, Moduli DEF Width
<1>3. Wrap(2 * quot) = 2 * quot
  <2>1. 2 * quot \in Nat /\ 2 * quot < d
    BY <1>2
  <2>2. (2 * quot) % d = 2 * quot
    <3> DEFINE e == 2 * quot
    <3>1. e \in Nat /\ e < d
      BY <2>1
    <3> HIDE DEF e, d
    <3>2. e % d = e
      BY <1>2, <3>1, SmallDividend
    <3> QED BY <3>2 DEF e
  <2> QED BY <2>2 DEF Wrap
<1>4. ASSUME NEW n \in Nat, n < d PROVE Wrap(n) = n /\ \A m \in Int : m = n - d => Wrap(m) = n
  <2> HIDE DEF d
  <2>1. n % d = n
    BY <1>2, <1>4, SmallDividend
  <2>2. ASSUME NEW m \in Int, m = n - d PROVE m % d = n
    <3>1. (m + 1 * d) = n
      BY <1>2, <2>2
    <3>2. \A k \in Int : (m + k * d) % d = m % d
      BY <1>2, IntModMultiple
    <3>3. PICK k \in Int : k = 1
      OBVIOUS
    <3>4. m + k * d = n
      BY <3>1, <3>3
    <3> QED BY <2>1, <3>2, <3>4
  <2> QED BY <2>1, <2>2 DEF Wrap, d
<1>5. CASE 2 * rem >= d
  <2>1. 2 * rem - d \in Nat /\ 2 * rem - d < d
    BY <1>2, <1>5
  <2>2. Wrap(2 * rem) = 2 * rem - d
    <3> DEFINE e == 2 * rem - d
    <3>1. e \in Nat /\ e < d
      BY <2>1
    <3> HIDE DEF e, d
    <3>2. (e + 1 * d) % d = e
      <4>1. PICK k \in Nat : k = 1
        OBVIOUS
      <4>2. (k * d + e) % d = e
        BY <1>2, <3>1, DivisionUnique
      <4>3. k * d + e = e + 1 * d
        BY <1>2, <3>1, <4>1
      <4> QED BY <4>2, <4>3
    <3>3. e + 1 * d = 2 * rem
      BY <1>2 DEF e
    <3>4. (2 * rem) % d = e
      BY <3>2, <3>3
    <3> QED BY <3>4 DEF Wrap, d, e
  <2>3. fit /\ q = 2 * quot + 1
    BY <1>3, <1>5
  <2>4. r = Wrap(a - divisor)
    BY <2>3
  <2> DEFINE n == 2 * rem + bit - divisor
  <2>5. n \in Nat /\ n < divisor /\ a - divisor = n - d /\ a - divisor \in Int
    BY <1>2, <1>5, <2>2
  <2> HIDE DEF n, d, a, fit
  <2>6. Wrap(a - divisor) = n
    BY <1>2, <1>4, <2>5
  <2> HIDE DEF r, q
  <2>7. r \in Nat /\ r < divisor /\ r = 2 * rem + bit - divisor
    BY <2>4, <2>5, <2>6 DEF n
  <2>8. q * divisor + r = 2 * (quot * divisor + rem) + bit
    <3>1. q * divisor = 2 * (quot * divisor) + divisor
      BY <1>2, <2>3
    <3> QED BY <1>2, <2>7, <3>1
  <2> QED BY <1>1, <2>3, <2>7, <2>8
<1>6. CASE 2 * rem < d
  <2>1. Wrap(2 * rem) = 2 * rem
    <3> DEFINE e == 2 * rem
    <3>1. e \in Nat /\ e < d
      BY <1>6
    <3> HIDE DEF e, d
    <3> QED BY <1>4, <3>1 DEF e
  <2>2. a = 2 * rem + bit /\ (fit <=> a >= divisor)
    BY <1>2, <1>6, <2>1
  <2> HIDE DEF d, a, fit
  <2>3. CASE fit
    <3> DEFINE n == a - divisor
    <3>1. n \in Nat /\ n < divisor /\ n < d
      BY <1>2, <2>2, <2>3
    <3> HIDE DEF n
    <3>2. Wrap(n) = n
      BY <1>4, <3>1
    <3>3. r = n /\ q = 2 * quot + 1
      BY <1>3, <2>3, <3>2 DEF n
    <3> HIDE DEF r, q
    <3>4. q * divisor + r = 2 * (quot * divisor + rem) + bit
      <4>1. q * divisor = 2 * (quot * divisor) + divisor
        BY <1>2, <3>3
      <4> QED BY <1>2, <2>2, <3>3, <4>1 DEF n
    <3> QED BY <1>1, <3>1, <3>3, <3>4
  <2>4. CASE ~fit
    <3>1. r = a /\ q = 2 * quot
      BY <1>3, <2>4
    <3>2. a \in Nat /\ a < divisor
      BY <1>2, <2>2, <2>4
    <3> HIDE DEF r, q
    <3>3. q * divisor + r = 2 * (quot * divisor + rem) + bit
      <4>1. q * divisor = 2 * (quot * divisor)
        BY <1>2, <3>1
      <4> QED BY <1>2, <2>2, <3>1, <4>1
    <3> QED BY <1>1, <3>1, <3>2, <3>3
  <2> QED BY <2>3, <2>4
<1>7. 2 * rem >= d \/ 2 * rem < d
  <2> HIDE DEF d
  <2> QED BY <1>2
<1> HIDE DEF d
<1> QED BY <1>5, <1>6, <1>7

\* The quotient and the remainder of two words by one.
IsDivision(res, high, low, divisor) ==
    \E r \in Nat, q \in Nat :
        /\ res = [rem |-> r, quot |-> q]
        /\ r < divisor /\ q < Modulus(8)
        /\ q * divisor + r = high * Modulus(8) + low

\* The loop turns once for each bit of the low word: after i turns quot and
\* rem divide what the high word and the top i bits of the low one make.
LEMMA Udiv128Exact ==
  ASSUME NEW high \in Word, NEW low \in Word, NEW divisor \in Word, high < divisor
  PROVE  IsDivision(Udiv128(high, low, divisor), high, low, divisor)
<1> DEFINE n == Bits(8)
           S == [rem : Nat, quot : Nat]
           first == [rem |-> high, quot |-> 0]
           turn == [x \in (1 .. n) \X S |-> Turn(x[2], Bit(low, n - x[1]), divisor)]
           Loop(f) == [i \in 0 .. n |-> IF i = 0 THEN first
                                        ELSE Turn(f[i - 1], Bit(low, n - i), divisor)]
           step == CHOOSE f : f = Loop(f)
<1>0. n \in Nat /\ Modulus(8) = 2 ^ n
  <2>1. ByteBits \in Nat
    BY BitsAssumption
  <2>2. 8 * ByteBits \in Nat
    BY <2>1
  <2> QED BY <2>2 DEF Modulus, Bits
<1>1. Udiv128(high, low, divisor) = step[n]
  BY Zenon DEF Udiv128, Turn
<1>2. high \in Nat /\ low \in Nat /\ low < Modulus(8) /\ divisor \in Nat /\ divisor < Modulus(8)
  BY WordFacts
<1> HIDE DEF n, step
<1>3. \A i \in 1 .. n : n - i \in Nat /\ Bit(low, n - i) \in {0, 1}
  <2> SUFFICES ASSUME NEW i \in 1 .. n PROVE n - i \in Nat /\ Bit(low, n - i) \in {0, 1}
    OBVIOUS
  <2> DEFINE j == n - i
  <2>1. j \in Nat
    BY <1>0
  <2> HIDE DEF j
  <2>2. Bit(low, j) \in {0, 1}
    BY <1>2, <2>1, BitSplits
  <2> QED BY <2>1, <2>2 DEF j
<1>4. ASSUME NEW old \in S, NEW bit \in {0, 1} PROVE Turn(old, bit, divisor) \in S
  <2>1. \A m \in Int : Wrap(m) \in Nat
    BY WordFacts
  <2> DEFINE a == Wrap(2 * old.rem) + bit
             b == Wrap(a - divisor)
             c == Wrap(2 * old.quot)
  <2>2. a \in Nat /\ c \in Nat
    BY <2>1
  <2>3. b \in Nat
    <3> HIDE DEF a
    <3>1. a - divisor \in Int
      BY <1>2, <2>2
    <3> QED BY <2>1, <3>1
  <2>4. Turn(old, bit, divisor)
          = LET fit == 2 * old.rem >= Modulus(8) \/ a >= divisor
            IN  [rem |-> IF fit THEN b ELSE a, quot |-> c + IF fit THEN 1 ELSE 0]
    BY DEF Turn
  <2> HIDE DEF a, b, c
  <2> QED BY <2>2, <2>3, <2>4
<1>5. turn \in [(1 .. n) \X S -> S]
  <2> HIDE DEF S
  <2> QED BY <1>3, <1>4
<1>6. first \in S
  BY <1>2
<1>7. PICK f \in [0 .. n -> S] :
            f[0] = first /\ \A i \in 1 .. n : f[i] = turn[<<i, f[i - 1]>>]
  <2>1. n \in Nat
    BY <1>0
  <2> HIDE DEF S, turn, first
  <2>2. PICK f : IsRecursion(f, S, first, n, turn)
    BY <2>1, <1>5, <1>6, RecursionExists
  <2> QED BY <2>2 DEF IsRecursion
<1>8. f = Loop(f)
  <2> HIDE DEF S, first
  <2>1. ASSUME NEW i \in 1 .. n
        PROVE  turn[<<i, f[i - 1]>>] = Turn(f[i - 1], Bit(low, n - i), divisor)
    <3>1. i - 1 \in 0 .. n /\ f[i - 1] \in S
      BY <1>0, <1>7
    <3> QED BY <3>1
  <2> HIDE DEF turn
  <2>2. ASSUME NEW i \in 0 .. n
        PROVE  f[i] = IF i = 0 THEN first ELSE Turn(f[i - 1], Bit(low, n - i), divisor)
    <3>1. CASE i = 0
      BY <1>7, <3>1
    <3>2. CASE i # 0
      <4>1. i \in 1 .. n
        BY <3>2
      <4> QED BY <1>7, <2>1, <3>2, <4>1
    <3> QED BY <3>1, <3>2
  <2> QED BY <1>7, <2>2
<1> HIDE DEF turn
<1>9. step = Loop(step)
  BY <1>8 DEF step
<1>10. /\ step[0] = first
       /\ \A k \in 0 .. n - 1 : step[k + 1] = Turn(step[k], Bit(low, n - (k + 1)), divisor)
  <2> HIDE DEF first
  <2>1. \A i \in 0 .. n :
           step[i] = IF i = 0 THEN first ELSE Turn(step[i - 1], Bit(low, n - i), divisor)
    BY <1>9
  <2>2. ASSUME NEW k \in 0 .. n - 1
        PROVE  step[k + 1] = Turn(step[k], Bit(low, n - (k + 1)), divisor)
    <3>1. k + 1 \in 0 .. n /\ k + 1 # 0 /\ (k + 1) - 1 = k
      BY <1>0
    <3> QED BY <2>1, <3>1
  <2>3. 0 \in 0 .. n
    BY <1>0
  <2> QED BY <2>1, <2>2, <2>3
<1> HIDE DEF Loop, S
<1> DEFINE Right(k, r, q) ==
              /\ step[k] = [rem |-> r, quot |-> q]
              /\ r < divisor /\ q < 2 ^ k
              /\ q * divisor + r = high * 2 ^ k + low \div 2 ^ (n - k)
           T == {k \in Nat : k <= n => \E r \in Nat, q \in Nat : Right(k, r, q)}
<1>11. 0 \in T
  <2>1. low \div 2 ^ (n - 0) = 0
    <3>1. low \div Modulus(8) = 0
      BY <1>2, SmallDividend, Moduli DEF Width
    <3>2. n - 0 = n
      BY <1>0
    <3> QED BY <1>0, <3>1, <3>2
  <2>2. high * 2 ^ 0 = high
    BY <1>2, PowerZero
  <2>3. 0 * divisor + high = high * 2 ^ 0 + low \div 2 ^ (n - 0) /\ 0 < 2 ^ 0
    BY <1>2, <2>1, <2>2, PowerZero
  <2>4. Right(0, high, 0)
    BY <1>10, <2>3
  <2> QED BY <1>2, <2>4
<1>12. ASSUME NEW k \in T PROVE k + 1 \in T
  <2> SUFFICES ASSUME k + 1 <= n PROVE \E r \in Nat, q \in Nat : Right(k + 1, r, q)
    OBVIOUS
  <2>1. k \in Nat /\ k <= n /\ k \in 0 .. n - 1
    BY <1>0
  <2>2. PICK rem \in Nat, quot \in Nat : Right(k, rem, quot)
    BY <2>1
  <2> HIDE DEF T
  <2> DEFINE j == n - (k + 1)
             bit == Bit(low, j)
             p == 2 ^ k
             t == low \div 2 ^ (n - k)
             u == low \div 2 ^ (n - (k + 1))
  <2>3. j \in Nat /\ j + 1 = n - k
    BY <1>0, <2>1
  <2>4. bit \in {0, 1} /\ u = 2 * t + bit /\ t \in Nat
    <3> HIDE DEF j
    <3>1. /\ Bit(low, j) \in {0, 1} /\ low \div 2 ^ (j + 1) \in Nat
          /\ low \div 2 ^ j = 2 * (low \div 2 ^ (j + 1)) + Bit(low, j)
      BY <1>2, <2>3, BitSplits
    <3> QED BY <2>3, <3>1 DEF j
  <2>5. p \in Nat /\ 2 ^ (k + 1) = 2 * p
    BY <2>1, PowerStep
  <2>6. 2 * p <= Modulus(8)
    <3> DEFINE i == k + 1
    <3>1. j \in Nat /\ j + i = n /\ i \in Nat /\ 2 ^ i = 2 * p
      BY <1>0, <2>1, <2>3, <2>5
    <3> HIDE DEF j, i
    <3>2. 2 ^ (j + i) = 2 ^ j * 2 ^ i /\ 2 ^ j \in Nat \ {0}
      BY <3>1, PowerSum, PowerPositive
    <3> DEFINE c == 2 ^ j
    <3> HIDE DEF c, p
    <3>3. c \in Nat \ {0} /\ Modulus(8) = c * (2 * p)
      BY <1>0, <3>1, <3>2 DEF c
    <3> QED BY <2>5, <3>3
  <2>7. /\ step[k] = [rem |-> rem, quot |-> quot] /\ rem < divisor /\ quot < p
        /\ quot * divisor + rem = high * p + t
    BY <2>2
  <2>8. step[k + 1] = Turn([rem |-> rem, quot |-> quot], bit, divisor)
    BY <1>10, <2>1, <2>7
  <2> HIDE DEF p, t, u, bit, Right
  <2>9. 2 * quot + 1 < Modulus(8)
    BY <2>5, <2>6, <2>7, Moduli DEF Width
  <2> DEFINE new == Turn([rem |-> rem, quot |-> quot], bit, divisor)
             r == new.rem
             q == new.quot
  <2>10. /\ new = [rem |-> r, quot |-> q]
         /\ r \in Nat /\ r < divisor /\ q \in Nat /\ q <= 2 * quot + 1
         /\ q * divisor + r = 2 * (quot * divisor + rem) + bit
    BY <2>4, <2>7, <2>9, TurnExact
  <2> HIDE DEF r, q
  <2>11. q * divisor + r = high * (2 * p) + u
    <3>1. 2 * (high * p + t) + bit = high * (2 * p) + u
      BY <1>2, <2>4, <2>5
    <3> QED BY <2>7, <2>10, <3>1
  <2>12. q < 2 * p
    BY <2>5, <2>7, <2>10
  <2>13. Right(k + 1, r, q)
    BY <2>5, <2>8, <2>10, <2>11, <2>12 DEF Right, u
  <2> QED BY <2>10, <2>13
<1>13. T \in SUBSET Nat
  OBVIOUS
<1>14. T = Nat
  <2> HIDE DEF T
  <2> QED BY <1>11, <1>12, <1>13, NatSetInduction
<1>15. PICK r \in Nat, q \in Nat : Right(n, r, q)
  <2>1. n \in T
    <3> HIDE DEF T
    <3> QED BY <1>0, <1>14
  <2>2. n <= n
    BY <1>0
  <2> HIDE DEF Right
  <2> QED BY <2>1, <2>2
<1>16. low \div 2 ^ (n - n) = low
  <2>1. n - n = 0
    BY <1>0
  <2>2. low \div 1 = low
    BY <1>2
  <2> QED BY <2>1, <2>2, PowerZero
<1> QED BY <1>0, <1>1, <1>15, <1>16 DEF IsDivision

-----------------------------------------------------------------------------
(* Truncated division and signs.                                           *)

\* t and u are the quotient and the remainder of the magnitudes.
Splits(a, b, t, u) == u < Abs(b) /\ Abs(a) = t * Abs(b) + u

\* The host's quotient and remainder are those of the magnitudes with the
\* signs put back.
LEMMA Truncates ==
  ASSUME NEW a \in Int, NEW b \in Int, NEW t \in Nat, NEW u \in Nat, Splits(a, b, t, u)
  PROVE  /\ Quot(a, b) = IF (a < 0) = (b < 0) THEN t ELSE -t
         /\ Rem(a, b) = IF a < 0 THEN -u ELSE u
         /\ Quot(a, b) \in Int /\ Rem(a, b) \in Int
         /\ Quot(a, b) * b + Rem(a, b) = a
         /\ Abs(Rem(a, b)) < Abs(b)
         /\ Rem(a, b) = 0 \/ (Rem(a, b) < 0) = (a < 0)
<1> DEFINE y == Abs(b)
           q == IF (a < 0) = (b < 0) THEN t ELSE -t
           r == IF a < 0 THEN -u ELSE u
<1>0. u < y /\ Abs(a) = t * y + u
  BY DEF Splits
<1>1. y \in Nat /\ u < y /\ (b < 0 => b = -y) /\ (b >= 0 => b = y)
  BY <1>0 DEF Abs
<1>2. /\ a < 0 => a = -(t * y + u)
      /\ a >= 0 => a = t * y + u
  BY <1>0 DEF Abs
<1>3. Abs(a) \div Abs(b) = t
  <2> HIDE DEF y
  <2>1. (t * y + u) \div y = t
    BY <1>1, DivisionUnique
  <2> QED BY <1>0, <2>1 DEF y
<1>4. Quot(a, b) = q
  BY <1>3, Zenon DEF Quot
<1>5. Rem(a, b) = a - b * Quot(a, b)
  BY DEF Rem
<1> HIDE DEF y
<1>6. b * q = IF a < 0 THEN -(t * y) ELSE t * y
  <2>1. y * t = t * y /\ (-y) * t = -(t * y) /\ y * (-t) = -(t * y) /\ (-y) * (-t) = t * y
    BY <1>1
  <2>2. (b = y \/ b = -y) /\ (b < 0 <=> b = -y) /\ (b >= 0 <=> b = y)
    BY <1>1
  <2>3. CASE b < 0
    <3>1. b = -y
      BY <1>1, <2>3
    <3> QED BY <2>1, <2>3, <3>1
  <2>4. CASE b >= 0
    <3>1. b = y
      BY <1>1, <2>4
    <3> QED BY <2>1, <2>4, <3>1
  <2> QED BY <2>3, <2>4
<1>7. t * y \in Nat
  BY <1>1
<1>8. Rem(a, b) = r
  <2> DEFINE z == t * y
             x == b * q
  <2>1. z \in Nat /\ Rem(a, b) = a - x /\ (a < 0 => a = -(z + u) /\ x = -z) /\ (a >= 0 => a = z + u /\ x = z)
    BY <1>2, <1>4, <1>5, <1>6, <1>7
  <2> HIDE DEF z, x
  <2> QED BY <2>1
<1>9. q \in Int /\ r \in Int
  OBVIOUS
<1>10. q * b + r = a
  <2>1. q * b = b * q
    BY <1>9
  <2> DEFINE x == b * q
  <2>2. x \in Int /\ r = a - x
    BY <1>4, <1>5, <1>8, <1>9
  <2> HIDE DEF x, r
  <2>3. x + r = a
    BY <1>9, <2>2
  <2> QED BY <2>1, <2>3 DEF x
<1>11. Abs(r) < y /\ (r = 0 \/ (r < 0) = (a < 0))
  BY <1>1 DEF Abs
<1> QED BY <1>4, <1>8, <1>9, <1>10, <1>11, Zenon DEF y

LEMMA AbsNat ==
  ASSUME NEW n \in Int
  PROVE  Abs(n) \in Nat /\ (Abs(n) = 0 <=> n = 0) /\ (n >= 0 => Abs(n) = n) /\ (n < 0 => Abs(n) = -n)
BY DEF Abs

\* What two's complement writes back can be read again.
LEMMA ReadBack ==
  ASSUME NEW w \in Width, NEW x \in SignedRange(w)
  PROVE  Signed(Low(x, w), w) = x /\ Signed(Low(Wrap(x), w), w) = x
<1>1. x \in Int
  BY RangeFacts
<1>2. Low(x, w) \in Int /\ Low(Low(x, w), w) = Low(x, w)
  BY <1>1, LowFacts
<1>3. Low(Wrap(x), w) = Low(x, w)
  BY <1>1, LowWrap
<1> QED BY <1>2, <1>3, SignedUnique

LEMMA RemainderFits ==
  ASSUME NEW w \in Width, NEW b \in SignedRange(w), NEW r \in Int, Abs(r) < Abs(b)
  PROVE  r \in SignedRange(w)
<1>1. PICK h \in Nat \ {0} : SignedRange(w) = -h .. h - 1
  BY RangeFacts
<1> QED BY <1>1 DEF Abs

-----------------------------------------------------------------------------
(* The results of a multiplication.                                        *)

LEMMA ProductBelow ==
  ASSUME NEW m \in Nat, NEW a \in Nat, NEW b \in Nat, a < m, b < m
  PROVE  a * b \in Nat /\ a * b < m * m
<1>1. a * b \in Nat /\ a * b <= a * m
  OBVIOUS
<1>2. a * m < m * m
  OBVIOUS
<1> QED BY <1>1, <1>2

LEMMA MulResult ==
  ASSUME NEW w \in Width, NEW a \in Nat, NEW b \in Nat, a < Modulus(w), b < Modulus(w),
         NEW low, NEW high,
         w = 8 => low = MulWide(a, b).low /\ high = MulWide(a, b).high,
         w # 8 => low = a * b
  PROVE  /\ low \in Int /\ MulUpper(low, high, w) \in Int
         /\ Low(MulUpper(low, high, w), w) * Modulus(w) + Low(low, w) = a * b
         /\ MulUpper(low, high, w) # 0 <=> a * b >= Modulus(w)
<1> DEFINE d == Modulus(w)
           upper == MulUpper(low, high, w)
<1>0. d \in Nat \ {0}
  BY Moduli
<1> SUFFICES \E u \in Nat, l \in Nat :
                /\ low \in Int /\ upper = u /\ u < d /\ Low(low, w) = l /\ l < d
                /\ u * d + l = a * b
  <2> SUFFICES ASSUME NEW u \in Nat, NEW l \in Nat,
                      low \in Int, upper = u, u < d, Low(low, w) = l, l < d, u * d + l = a * b
               PROVE  Low(upper, w) * d + Low(low, w) = a * b /\ (upper # 0 <=> a * b >= d)
    OBVIOUS
  <2> HIDE DEF upper
  <2>1. Low(upper, w) = u
    BY LowFacts
  <2> DEFINE p == a * b
  <2> HIDE DEF p, d
  <2>2. p = u * d + l
    BY DEF p
  <2>3. u = 0 => u * d = 0
    BY <1>0
  <2>4. u >= 1 => u * d >= d
    BY <1>0
  <2> QED BY <1>0, <2>1, <2>2, <2>3, <2>4 DEF p
<1>1. CASE w = 8
  <2>1. a \in Word /\ b \in Word
    BY <1>1, WordFacts
  <2>2. low \in Word /\ high \in Word /\ high * d + low = a * b
    BY <1>1, <2>1, MulWideExact
  <2>3. low \in Nat /\ low < d /\ high \in Nat /\ high < d
    BY <1>1, <2>2, WordFacts
  <2>4. upper = high
    BY <1>1 DEF MulUpper
  <2>5. Low(low, w) = low
    BY <2>3, LowFacts
  <2> QED BY <2>2, <2>3, <2>4, <2>5
<1>2. CASE w # 8
  <2>1. low = a * b /\ low \in Nat /\ low < d * d
    BY <1>2, <1>0, ProductBelow
  <2> DEFINE u == low \div d
             l == low % d
  <2> HIDE DEF d
  <2>2. u \in Nat /\ l \in Nat /\ l < d /\ low = u * d + l
    BY <1>0, <2>1, Division, DivModNat
  <2> HIDE DEF u, l
  <2>3. u < d
    <3> SUFFICES ASSUME u >= d PROVE FALSE
      BY <1>0, <2>2
    <3>1. u * d >= d * d
      BY <1>0, <2>2
    <3> QED BY <1>0, <2>1, <2>2, <3>1
  <2>4. Low(u, w) = u
    BY <2>2, <2>3, LowFacts DEF d
  <2>5. upper = u
    <3>1. CASE w = 1
      <4>1. upper = Low(u, w)
        BY <3>1 DEF MulUpper, u, d
      <4> QED BY <2>4, <4>1
    <3>2. CASE w # 1
      BY <1>2, <3>2 DEF MulUpper, u, d
    <3> QED BY <3>1, <3>2
  <2>6. Low(low, w) = l
    BY DEF Low, l, d
  <2> HIDE DEF upper
  <2> QED BY <2>1, <2>2, <2>3, <2>5, <2>6
<1> QED BY <1>1, <1>2

LEMMA ImulResult ==
  ASSUME NEW w \in Width, NEW a \in SignedRange(w), NEW b \in SignedRange(w)
  PROVE  LET low   == Wrap(a * b)
             upper == MulUpper(low, ImulHigh(a, b), w)
         IN  /\ low \in Int /\ upper \in Int
             /\ Low(upper, w) * Modulus(w) + Low(low, w) = (a * b) % (Modulus(w) * Modulus(w))
<1> DEFINE p == a * b
           d == Modulus(w)
           low == Wrap(p)
           upper == MulUpper(low, ImulHigh(a, b), w)
<1>0. p \in Int /\ d \in Nat \ {0}
  <2>1. a \in Int /\ b \in Int
    BY RangeFacts
  <2> QED BY <2>1, Moduli
<1>1. low \in Int /\ low \in Word
  <2> HIDE DEF p
  <2> QED BY <1>0, WordFacts
<1>2. Low(low, w) = Low(p, w)
  <2> HIDE DEF p
  <2> QED BY <1>0, LowWrap
<1>3. p \div d \in Int /\ low \div d \in Int
  <2> HIDE DEF p, low, d
  <2> QED BY <1>0, <1>1, IntDivision
<1>4. CASE w = 8
  <2>1. upper = Wrap(p \div d)
    BY <1>4, ImulHighExact DEF MulUpper
  <2>2. upper \in Int
    BY <1>3, <2>1, WordFacts
  <2>3. Low(upper, w) = Low(p \div d, w)
    BY <1>3, <2>1, LowWrap
  <2> HIDE DEF p, upper
  <2>4. Low(p \div d, w) * d + Low(p, w) = p % (d * d)
    BY <1>0, TwoParts
  <2> HIDE DEF low, d
  <2>5. Low(upper, w) * d + Low(low, w) = p % (d * d)
    BY <1>2, <2>3, <2>4
  <2> QED BY <1>1, <2>2, <2>5 DEF p, d, low, upper
<1>5. CASE w # 8
  <2> DEFINE v == 2 * w
  <2>1. v \in Width /\ Modulus(v) = d * d
    <3>1. w \in {1, 2, 4}
      BY <1>5 DEF Width
    <3>2. v \in {2, 4, 8}
      BY <3>1
    <3>3. w = 1 => v = 2
      OBVIOUS
    <3>4. w = 2 => v = 4
      OBVIOUS
    <3>5. w = 4 => v = 8
      OBVIOUS
    <3> HIDE DEF v
    <3> QED BY <3>1, <3>2, <3>3, <3>4, <3>5, Squares DEF Width
  <2>2. Low(low, v) = Low(p, v)
    <3> HIDE DEF p, v
    <3> QED BY <1>0, <2>1, LowWrap
  <2>3. low % (d * d) = p % (d * d)
    BY <2>1, <2>2 DEF Low
  <2>4. upper \in Int /\ Low(upper, w) = Low(low \div d, w)
    <3>1. CASE w = 1
      <4> DEFINE u == low \div d
      <4>1. upper = Low(u, 1)
        BY <3>1 DEF MulUpper
      <4> HIDE DEF u, upper
      <4>2. u \in Int
        BY <1>3 DEF u
      <4>3. Low(u, 1) \in Nat /\ Low(Low(u, w), w) = Low(u, w)
        BY <3>1, <4>2, LowFacts
      <4> QED BY <3>1, <4>1, <4>3 DEF u
    <3>2. CASE w # 1
      <4>1. upper = low \div d
        BY <1>5, <3>2 DEF MulUpper
      <4> QED BY <1>3, <4>1
    <3> QED BY <3>1, <3>2
  <2> HIDE DEF low, upper
  <2>5. Low(low \div d, w) * d + Low(low, w) = low % (d * d)
    BY <1>1, TwoParts
  <2> HIDE DEF p, d
  <2>6. Low(upper, w) * d + Low(low, w) = p % (d * d)
    BY <2>3, <2>4, <2>5
  <2> QED BY <1>1, <2>4, <2>6 DEF p, d, low, upper
<1> QED BY <1>4, <1>5

-----------------------------------------------------------------------------
(* What each instruction leaves.                                           *)

Exact == MulExact /\ DivExact /\ DivideFaults

LEMMA ReadFacts ==
  ASSUME TypeOK, NEW r \in Reg, NEW w \in Width
  PROVE  ReadGpr(r, w) \in Nat /\ ReadGpr(r, w) < Modulus(w)
<1>1. regs[r] \in Word
  BY DEF TypeOK
<1>2. regs[r] \in Int
  BY <1>1, WordFacts
<1> QED BY <1>2, LowFacts DEF ReadGpr

\* A multiplication says nothing about divisions.
LEMMA NoDivision ==
  ASSUME insn'.op \notin {"div", "idiv"}, exit' = "none"
  PROVE  DivExact' /\ DivideFaults'
BY DEF DivExact, DivideFaults

LEMMA MulStep ==
  ASSUME TypeOK, exit = "none", NEW s \in Reg, NEW w \in Width, Mul(s, w)
  PROVE  TypeOK' /\ Exact'
<1> DEFINE a == ReadGpr("rax", w)
           b == ReadGpr(s, w)
           p == IF w = 8 THEN MulWide(a, b) ELSE [low |-> a * b, high |-> 0]
           low == p.low
           high == p.high
           upper == MulUpper(low, high, w)
           file == WritePair(w, upper, low)
           d == Modulus(w)
<1>1. /\ insn' = [op |-> "mul", w |-> w, lhs |-> a, rhs |-> b]
      /\ regs' = file /\ overflow' = (upper # 0) /\ exit' = exit
  BY DEF Mul, Executes
<1>2. a \in Nat /\ a < d /\ b \in Nat /\ b < d
  BY ReadFacts DEF Reg
<1>3. /\ w = 8 => low = MulWide(a, b).low /\ high = MulWide(a, b).high
      /\ w # 8 => low = a * b
  OBVIOUS
<1> HIDE DEF a, b, p
<1> HIDE DEF low, high, d
<1>4. /\ low \in Int /\ upper \in Int
      /\ Low(upper, w) * d + Low(low, w) = a * b
      /\ upper # 0 <=> a * b >= d
  BY <1>2, <1>3, MulResult DEF d
<1> HIDE DEF upper
<1>5. file \in [Reg -> Word] /\ PairIn(file, w) = a * b
  <2>1. regs \in [Reg -> Word]
    BY DEF TypeOK
  <2> QED BY <1>4, <2>1, PairWritten DEF d
<1> HIDE DEF file
<1>6. insn'.op = "mul" /\ insn'.w = w /\ insn'.lhs = a /\ insn'.rhs = b /\ exit' = "none"
  BY <1>1
<1>7. MulExact'
  <2>1. Pair(w)' = a * b
    BY <1>1, <1>5 DEF Pair, PairIn
  <2> QED BY <1>1, <1>4, <1>6, <2>1 DEF MulExact, Pair, d
<1> QED BY <1>1, <1>5, <1>6, <1>7, NoDivision DEF TypeOK, Exact

LEMMA ImulStep ==
  ASSUME TypeOK, exit = "none", NEW s \in Reg, NEW w \in Width, Imul(s, w)
  PROVE  TypeOK' /\ Exact'
<1> DEFINE a == Signed(ReadGpr("rax", w), w)
           b == Signed(ReadGpr(s, w), w)
           low == Wrap(a * b)
           upper == MulUpper(low, ImulHigh(a, b), w)
           file == WritePair(w, upper, low)
           d == Modulus(w)
<1>1. /\ insn' = [op |-> "imul", w |-> w, lhs |-> a, rhs |-> b]
      /\ regs' = file /\ overflow' = ~ ProductFits(a, b, low, w) /\ exit' = exit
  BY DEF Imul, Executes
<1>2. a \in SignedRange(w) /\ b \in SignedRange(w)
  <2>1. "rax" \in Reg
    BY DEF Reg
  <2>2. ReadGpr("rax", w) \in Int /\ ReadGpr(s, w) \in Int
    BY <2>1, ReadFacts
  <2> QED BY <2>2, SignedFacts
<1> HIDE DEF a, b
<1>3. /\ low \in Int /\ upper \in Int
      /\ Low(upper, w) * d + Low(low, w) = (a * b) % (d * d)
  BY <1>2, ImulResult
<1>4. ProductFits(a, b, low, w) <=> a * b \in SignedRange(w)
  BY <1>2, FitsExactly
<1> HIDE DEF low, upper, d
<1>5. file \in [Reg -> Word] /\ PairIn(file, w) = (a * b) % (d * d)
  <2>1. regs \in [Reg -> Word]
    BY DEF TypeOK
  <2> QED BY <1>3, <2>1, PairWritten DEF d
<1> HIDE DEF file
<1>6. insn'.op = "imul" /\ insn'.w = w /\ insn'.lhs = a /\ insn'.rhs = b /\ exit' = "none"
  BY <1>1
<1>7. MulExact'
  <2>1. Pair(w)' = (a * b) % (d * d)
    BY <1>1, <1>5 DEF Pair, PairIn
  <2> QED BY <1>1, <1>4, <1>6, <2>1 DEF MulExact, Pair, SignedRange, d
<1> QED BY <1>1, <1>5, <1>6, <1>7, NoDivision DEF TypeOK, Exact

LEMMA Imul23Step ==
  ASSUME TypeOK, exit = "none", NEW s \in Reg, NEW w \in Width, Imul23(s, w, Sources)
  PROVE  TypeOK' /\ Exact'
<1> DEFINE b == Signed(ReadGpr(s, w), w)
           Others == {Signed(v, w) : v \in Sources} \cup {Signed(ReadGpr("rax", w), w)}
<1>1. PICK a \in Others :
         /\ insn' = [op |-> "imul23", w |-> w, lhs |-> a, rhs |-> b]
         /\ regs' = WriteGpr(regs, "rax", w, Wrap(a * b))
         /\ overflow' = ~ ProductFits(a, b, Wrap(a * b), w)
         /\ exit' = exit
  BY DEF Imul23, Executes
<1>2. a \in SignedRange(w) /\ b \in SignedRange(w)
  <2>1. "rax" \in Reg
    BY DEF Reg
  <2>2. ReadGpr("rax", w) \in Int /\ ReadGpr(s, w) \in Int
    BY <2>1, ReadFacts
  <2>3. \A v \in Sources : v \in Int
    BY ValuesAssumption, WordFacts
  <2>4. \A n \in Int : Signed(n, w) \in SignedRange(w)
    BY SignedFacts
  <2> QED BY <2>2, <2>3, <2>4
<1> HIDE DEF b
<1> DEFINE p == a * b
           low == Wrap(p)
           file == WriteGpr(regs, "rax", w, low)
           d == Modulus(w)
<1>3. p \in Int
  <2>1. a \in Int /\ b \in Int
    BY <1>2, RangeFacts
  <2> QED BY <2>1
<1>4. ProductFits(a, b, low, w) <=> p \in SignedRange(w)
  BY <1>2, FitsExactly
<1>5. file \in [Reg -> Word] /\ Low(file["rax"], w) = p % d
  <2> HIDE DEF p
  <2>1. regs \in [Reg -> Word] /\ "rax" \in Reg
    BY DEF TypeOK, Reg
  <2>2. low \in Int /\ Low(low, w) = Low(p, w)
    BY <1>3, WordFacts, LowWrap
  <2> HIDE DEF low
  <2>3. file \in [Reg -> Word] /\ Low(file["rax"], w) = Low(low, w)
    BY <2>1, <2>2, Written
  <2> QED BY <2>2, <2>3 DEF Low
<1>6. insn'.op = "imul23" /\ insn'.w = w /\ insn'.lhs = a /\ insn'.rhs = b /\ exit' = "none"
  BY <1>1
<1>7. regs' = file /\ overflow' = ~ ProductFits(a, b, low, w)
  BY <1>1
<1> HIDE DEF file, low
<1>8. MulExact'
  <2>1. ReadGpr("rax", w)' = p % d
    BY <1>5, <1>7 DEF ReadGpr
  <2> QED BY <1>4, <1>6, <1>7, <2>1 DEF MulExact, SignedRange
<1> QED BY <1>5, <1>6, <1>7, <1>8, NoDivision DEF TypeOK, Exact

\* The quotients an operand can hold.
QuotRange(op, w) == IF op = "div" THEN 0 .. Modulus(w) - 1 ELSE SignedRange(w)

\* A latched fault leaves everything as it was.
LEMMA Faulted ==
  ASSUME TypeOK, NEW op \in {"div", "idiv"}, NEW w, NEW lhs, NEW rhs,
         Executes(op, w, lhs, rhs), FaultDivide,
         rhs = 0 \/ Quot(lhs, rhs) \notin QuotRange(op, w)
  PROVE  TypeOK' /\ Exact'
<1>1. /\ insn'.op = op /\ insn'.w = w /\ insn'.lhs = lhs /\ insn'.rhs = rhs
      /\ before'.regs = regs /\ before'.overflow = overflow
  BY DEF Executes
<1>2. exit' = "divide" /\ regs' = regs /\ overflow' = overflow
  BY DEF FaultDivide
<1>3. TypeOK'
  BY <1>2 DEF TypeOK
<1>4. MulExact'
  BY <1>1 DEF MulExact
<1>5. DivExact'
  BY <1>2 DEF DivExact
<1>6. DivideFaults'
  <2>1. rhs = 0 \/ ~ \E q \in QuotRange(op, w) : q = Quot(lhs, rhs)
    OBVIOUS
  <2> QED BY <1>1, <1>2, <2>1, Zenon DEF DivideFaults, QuotRange, SignedRange
<1> QED BY <1>3, <1>4, <1>5, <1>6 DEF Exact

\* A division that is made leaves the quotient and the remainder, as the
\* instruction reads them.
LEMMA Divided ==
  ASSUME TypeOK, exit = "none", NEW op \in {"div", "idiv"}, NEW w \in Width,
         NEW lhs, NEW rhs, NEW high \in Int, NEW low \in Int,
         Executes(op, w, lhs, rhs), regs' = WritePair(w, high, low),
         UNCHANGED <<overflow, exit>>,
         rhs # 0, Quot(lhs, rhs) \in QuotRange(op, w),
         op = "div" => Low(low, w) = Quot(lhs, rhs) /\ Low(high, w) = Rem(lhs, rhs),
         op = "idiv" => /\ Signed(Low(low, w), w) = Quot(lhs, rhs)
                        /\ Signed(Low(high, w), w) = Rem(lhs, rhs),
         Quot(lhs, rhs) * rhs + Rem(lhs, rhs) = lhs,
         Abs(Rem(lhs, rhs)) < Abs(rhs),
         Rem(lhs, rhs) = 0 \/ (Rem(lhs, rhs) < 0) = (lhs < 0)
  PROVE  TypeOK' /\ Exact'
<1> DEFINE file == WritePair(w, high, low)
<1>1. insn'.op = op /\ insn'.w = w /\ insn'.lhs = lhs /\ insn'.rhs = rhs
  BY DEF Executes
<1>2. regs' = file /\ exit' = "none" /\ overflow' = overflow
  OBVIOUS
<1>3. /\ file \in [Reg -> Word]
      /\ QuotIn(file, w) = Low(low, w) /\ RemIn(file, w) = Low(high, w)
  <2>1. regs \in [Reg -> Word]
    BY DEF TypeOK
  <2> QED BY <2>1, PairWritten
<1> HIDE DEF file
<1>4. TypeOK'
  BY <1>2, <1>3 DEF TypeOK
<1>5. MulExact'
  BY <1>1 DEF MulExact
<1>6. Halves' = [quot |-> Quot(lhs, rhs), rem |-> Rem(lhs, rhs)]
  <2>1. Halves' = IF op = "div" THEN [quot |-> QuotIn(file, w), rem |-> RemIn(file, w)]
                  ELSE [quot |-> Signed(QuotIn(file, w), w), rem |-> Signed(RemIn(file, w), w)]
    BY <1>1, <1>2 DEF Halves, ReadGpr, QuotIn, RemIn
  <2> QED BY <1>3, <2>1
<1>7. DivExact'
  <2>1. Halves'.quot = Quot(lhs, rhs) /\ Halves'.rem = Rem(lhs, rhs)
    BY <1>6
  <2> QED BY <1>1, <2>1, Zenon DEF DivExact
<1>8. DivideFaults'
  <2>1. \E q \in QuotRange(op, w) : q = Quot(lhs, rhs)
    OBVIOUS
  <2>2. exit' # "divide"
    BY <1>2
  <2> QED BY <1>1, <2>1, <2>2, Zenon DEF DivideFaults, QuotRange, SignedRange
<1> QED BY <1>4, <1>5, <1>7, <1>8 DEF Exact

LEMMA DividendFacts ==
  ASSUME TypeOK, NEW w \in {1, 2, 4}
  PROVE  Dividend(w) \in Nat /\ Dividend(w) < Modulus(w) * Modulus(w)
<1> DEFINE d == Modulus(w)
<1>0. "rax" \in Reg /\ "rdx" \in Reg /\ w \in Width /\ 2 \in Width
  BY DEF Reg, Width
<1>1. CASE w = 1
  <2>1. Dividend(w) = ReadGpr("rax", 2)
    BY <1>1 DEF Dividend
  <2> QED BY <1>0, <1>1, <2>1, ReadFacts, Squares
<1>2. CASE w # 1
  <2> DEFINE h == ReadGpr("rdx", w)
             l == ReadGpr("rax", w)
  <2>1. Dividend(w) = h * d + l
    BY <1>2 DEF Dividend
  <2>2. h \in Nat /\ h < d /\ l \in Nat /\ l < d /\ d \in Nat
    BY <1>0, ReadFacts, Moduli
  <2> HIDE DEF h, l, d
  <2>3. (h + 1) * d <= d * d
    BY <2>2
  <2>4. (h + 1) * d = h * d + d /\ h * d \in Nat
    BY <2>2
  <2> QED BY <2>1, <2>2, <2>3, <2>4 DEF d
<1> QED BY <1>1, <1>2

LEMMA NarrowStep ==
  ASSUME TypeOK, exit = "none", NEW s \in Reg, NEW w \in Width, Div(s, w)
  PROVE  TypeOK' /\ Exact'
<1> DEFINE b == ReadGpr(s, w)
           n == Dividend(w)
           t == n \div b
           u == n % b
           d == Modulus(w)
<1>1. /\ w < 8 /\ Executes("div", w, n, b)
      /\ \/ b = 0 /\ FaultDivide
         \/ b # 0 /\ t >= d /\ FaultDivide
         \/ b # 0 /\ t < d /\ regs' = WritePair(w, u, t) /\ UNCHANGED <<overflow, exit>>
  BY DEF Div
<1>2. b \in Nat /\ b < d /\ n \in Nat /\ d \in Nat \ {0}
  <2>1. w \in {1, 2, 4}
    BY <1>1 DEF Width
  <2> QED BY <2>1, ReadFacts, DividendFacts, Moduli
<1> HIDE DEF b, n, d
<1>3. CASE b = 0
  BY <1>1, <1>3, Faulted
<1>4. CASE b # 0
  <2>1. t \in Nat /\ u \in Nat /\ u < b /\ n = t * b + u
    BY <1>2, <1>4, Division, DivModNat
  <2> HIDE DEF t, u
  <2>2. Abs(n) = n /\ Abs(b) = b
    BY <1>2, AbsNat
  <2>3. /\ Quot(n, b) = IF (n < 0) = (b < 0) THEN t ELSE -t
        /\ Rem(n, b) = IF n < 0 THEN -u ELSE u
        /\ Quot(n, b) * b + Rem(n, b) = n
        /\ Abs(Rem(n, b)) < Abs(b)
        /\ Rem(n, b) = 0 \/ (Rem(n, b) < 0) = (n < 0)
    <3>1. Splits(n, b, t, u)
      BY <2>1, <2>2 DEF Splits
    <3> QED BY <1>2, <2>1, <3>1, Truncates
  <2>4. Quot(n, b) = t /\ Rem(n, b) = u
    BY <1>2, <2>3
  <2>5. QuotRange("div", w) = 0 .. d - 1
    BY DEF QuotRange, d
  <2>6. CASE t >= d
    <3>1. Quot(n, b) \notin QuotRange("div", w)
      BY <1>2, <2>4, <2>5, <2>6
    <3> QED BY <1>1, <1>2, <2>1, <2>6, <3>1, Faulted
  <2>7. CASE t < d
    <3>1. Quot(n, b) \in QuotRange("div", w)
      BY <1>2, <2>1, <2>4, <2>5, <2>7
    <3>2. Low(t, w) = t /\ Low(u, w) = u
      <4>1. u < d
        BY <1>2, <2>1
      <4> QED BY <2>1, <2>7, <4>1, LowFacts DEF d
    <3>3. regs' = WritePair(w, u, t) /\ UNCHANGED <<overflow, exit>>
      BY <1>1, <1>2, <1>4, <2>1, <2>7
    <3> QED BY <1>1, <1>4, <2>1, <2>3, <2>4, <3>1, <3>2, <3>3, Divided
  <2> QED BY <1>2, <2>1, <2>6, <2>7
<1> QED BY <1>3, <1>4

\* A high word that reaches the divisor: the quotient has more than a word.
LEMMA HighReaches ==
  ASSUME NEW high \in Nat, NEW low \in Nat, NEW b \in Nat \ {0}, high >= b,
         NEW t \in Nat, NEW u \in Nat, u < b, high * Modulus(8) + low = t * b + u
  PROVE  t >= Modulus(8)
<1> DEFINE d == Modulus(8)
<1>1. d \in Nat \ {0}
  BY Moduli DEF Width
<1> HIDE DEF d
<1> SUFFICES ASSUME t < d PROVE FALSE
  BY <1>1 DEF d
<1>2. (t + 1) * b <= d * b
  BY <1>1
<1>3. (t + 1) * b = t * b + b /\ d * b = b * d
  BY <1>1
<1>4. b * d <= high * d
  BY <1>1
<1>5. t * b \in Nat /\ high * d \in Nat /\ b * d \in Nat
  BY <1>1
<1>6. high * d + low = t * b + u
  BY DEF d
<1> QED BY <1>2, <1>3, <1>4, <1>5, <1>6

LEMMA DivWideStep ==
  ASSUME TypeOK, exit = "none", NEW s \in Reg, DivWide(s)
  PROVE  TypeOK' /\ Exact'
<1> DEFINE b == ReadGpr(s, 8)
           high == ReadGpr("rdx", 8)
           low == ReadGpr("rax", 8)
           d == Modulus(8)
           n == high * d + low
           res == Udiv128(high, low, b)
<1>0. "rax" \in Reg /\ "rdx" \in Reg /\ 8 \in Width
  BY DEF Reg, Width
<1>1. /\ Executes("div", 8, n, b)
      /\ \/ (b = 0 \/ high >= b) /\ FaultDivide
         \/ b # 0 /\ high < b /\ regs' = WritePair(8, res.rem, res.quot) /\ UNCHANGED <<overflow, exit>>
  BY DEF DivWide
<1>2. /\ b \in Nat /\ b < d /\ high \in Nat /\ high < d /\ low \in Nat /\ low < d
      /\ d \in Nat \ {0}
  BY <1>0, ReadFacts, Moduli
<1>3. b \in Word /\ high \in Word /\ low \in Word
  BY <1>2, WordFacts
<1> HIDE DEF b, high, low, d
<1>4. n \in Nat
  BY <1>2
<1>5. QuotRange("div", 8) = 0 .. d - 1
  BY DEF QuotRange, d
<1>6. ASSUME NEW t \in Nat, NEW u \in Nat, u < b, n = t * b + u
      PROVE  /\ Quot(n, b) = t /\ Rem(n, b) = u
             /\ Quot(n, b) * b + Rem(n, b) = n
             /\ Abs(Rem(n, b)) < Abs(b)
             /\ Rem(n, b) = 0 \/ (Rem(n, b) < 0) = (n < 0)
  <2> HIDE DEF n
  <2>1. Abs(n) = n /\ Abs(b) = b /\ ~(n < 0) /\ ~(b < 0)
    BY <1>2, <1>4, AbsNat
  <2>2. /\ Quot(n, b) = IF (n < 0) = (b < 0) THEN t ELSE -t
        /\ Rem(n, b) = IF n < 0 THEN -u ELSE u
        /\ Quot(n, b) * b + Rem(n, b) = n
        /\ Abs(Rem(n, b)) < Abs(b)
        /\ Rem(n, b) = 0 \/ (Rem(n, b) < 0) = (n < 0)
    <3>1. Splits(n, b, t, u)
      BY <1>6, <2>1 DEF Splits
    <3>2. n \in Int /\ b \in Int /\ t \in Nat /\ u \in Nat
      BY <1>2, <1>4
    <3> QED BY <3>1, <3>2, Truncates
  <2> QED BY <2>1, <2>2
<1>7. CASE b = 0
  BY <1>1, <1>7, Faulted
<1>8. CASE b # 0 /\ high >= b
  <2> DEFINE t == n \div b
             u == n % b
  <2>1. t \in Nat /\ u \in Nat /\ u < b /\ n = t * b + u
    <3> HIDE DEF n
    <3> QED BY <1>2, <1>4, <1>8, Division, DivModNat
  <2> HIDE DEF t, u
  <2>2. t >= d
    BY <1>2, <1>8, <2>1, HighReaches DEF d
  <2>3. Quot(n, b) = t
    BY <1>6, <2>1
  <2>4. Quot(n, b) \notin QuotRange("div", 8)
    BY <1>2, <1>5, <2>1, <2>2, <2>3
  <2> HIDE DEF n
  <2>5. FaultDivide
    BY <1>1, <1>2, <1>8
  <2> QED BY <1>1, <2>4, <2>5, Faulted
<1>9. CASE b # 0 /\ high < b
  <2>1. PICK u \in Nat, t \in Nat :
          res = [rem |-> u, quot |-> t] /\ u < b /\ t < d /\ t * b + u = n
    <3>1. IsDivision(res, high, low, b)
      BY <1>3, <1>9, Udiv128Exact
    <3> HIDE DEF res
    <3> QED BY <3>1 DEF IsDivision, d
  <2>2. regs' = WritePair(8, u, t) /\ UNCHANGED <<overflow, exit>>
    <3>1. res.rem = u /\ res.quot = t
      BY <2>1
    <3> HIDE DEF res
    <3> QED BY <1>1, <1>2, <1>9, <3>1
  <2>3. Quot(n, b) = t /\ Rem(n, b) = u
    BY <1>6, <2>1
  <2>4. Quot(n, b) \in QuotRange("div", 8)
    BY <1>2, <1>5, <2>1, <2>3
  <2>5. Low(t, 8) = t /\ Low(u, 8) = u
    <3>1. u < d
      BY <1>2, <2>1
    <3> QED BY <1>0, <2>1, <3>1, LowFacts DEF d
  <2>6. /\ Quot(n, b) * b + Rem(n, b) = n
        /\ Abs(Rem(n, b)) < Abs(b)
        /\ Rem(n, b) = 0 \/ (Rem(n, b) < 0) = (n < 0)
    BY <1>6, <2>1
  <2> HIDE DEF n, res
  <2> QED BY <1>0, <1>1, <1>9, <2>2, <2>3, <2>4, <2>5, <2>6, Divided
<1> QED BY <1>2, <1>7, <1>8, <1>9

LEMMA IdivStep ==
  ASSUME TypeOK, exit = "none", NEW s \in Reg, NEW w \in Width, Idiv(s, w)
  PROVE  TypeOK' /\ Exact'
<1> DEFINE b == Signed(ReadGpr(s, w), w)
           a == Signed(Dividend(w), 2 * w)
           q == Quot(a, b)
           r == Rem(a, b)
<1>1. /\ w < 8 /\ Executes("idiv", w, a, b)
      /\ \/ b = 0 /\ FaultDivide
         \/ b # 0 /\ ~ QuotientFits(q, w) /\ FaultDivide
         \/ b # 0 /\ QuotientFits(q, w) /\ regs' = WritePair(w, r, q) /\ UNCHANGED <<overflow, exit>>
  BY DEF Idiv
<1>2. b \in SignedRange(w) /\ b \in Int /\ a \in Int
  <2>1. w \in {1, 2, 4} /\ 2 * w \in Width
    BY <1>1 DEF Width
  <2>2. ReadGpr(s, w) \in Int /\ Dividend(w) \in Int
    BY <2>1, ReadFacts, DividendFacts
  <2> QED BY <2>1, <2>2, SignedFacts
<1>3. QuotientFits(q, w) <=> q \in QuotRange("idiv", w)
  BY DEF QuotientFits, QuotRange, SignedRange
<1> HIDE DEF a, b
<1>4. CASE b = 0
  BY <1>1, <1>4, Faulted
<1>5. CASE b # 0 /\ ~ QuotientFits(q, w)
  BY <1>1, <1>3, <1>5, Faulted
<1>6. CASE b # 0 /\ QuotientFits(q, w)
  <2> DEFINE x == Abs(a)
             y == Abs(b)
             t == x \div y
             u == x % y
  <2>1. x \in Nat /\ y \in Nat \ {0}
    BY <1>2, <1>6, AbsNat
  <2> HIDE DEF x, y
  <2>2. t \in Nat /\ u \in Nat /\ u < y /\ x = t * y + u
    BY <2>1, Division, DivModNat
  <2> HIDE DEF t, u
  <2>3. /\ q \in Int /\ r \in Int
        /\ q * b + r = a
        /\ Abs(r) < Abs(b)
        /\ r = 0 \/ (r < 0) = (a < 0)
    <3>1. Splits(a, b, t, u)
      BY <2>2 DEF Splits, x, y
    <3> QED BY <1>2, <2>2, <3>1, Truncates
  <2> HIDE DEF q, r
  <2>4. q \in SignedRange(w)
    BY <1>3, <1>6 DEF QuotRange
  <2>5. r \in SignedRange(w)
    BY <1>2, <2>3, RemainderFits
  <2>6. Signed(Low(q, w), w) = q /\ Signed(Low(r, w), w) = r
    BY <2>4, <2>5, ReadBack
  <2>7. regs' = WritePair(w, r, q) /\ UNCHANGED <<overflow, exit>>
    BY <1>1, <1>6
  <2> QED BY <1>1, <1>3, <1>6, <2>3, <2>6, <2>7, Divided DEF q, r
<1> QED BY <1>4, <1>5, <1>6

\* abs128() is the magnitude of the signed number two words make.
LEMMA Abs128Exact ==
  ASSUME NEW high \in Word, NEW low \in Word
  PROVE  LET n   == Signed(high, 8) * Modulus(8) + low
             mag == Abs128(high, low)
         IN  /\ n \in Int /\ mag.neg = (n < 0)
             /\ mag.high \in Word /\ mag.low \in Word
             /\ mag.high * Modulus(8) + mag.low = Abs(n)
<1> DEFINE d == Modulus(8)
           g == Signed(high, 8)
           n == g * d + low
           mag == Abs128(high, low)
<1>0. 8 \in Width
  BY DEF Width
<1>1. high \in Nat /\ high < d /\ low \in Nat /\ low < d /\ d \in Nat \ {0}
  BY <1>0, WordFacts, Moduli
<1>2. /\ g \in Int
      /\ g < 0 <=> 2 * high >= d
      /\ g >= 0 => g = high
      /\ g < 0 => g = high - d
  <2>1. Low(high, 8) = high
    BY <1>0, <1>1, LowFacts
  <2> QED BY <1>0, <1>1, <2>1, SignedFacts
<1>3. n \in Int
  BY <1>1, <1>2
<1>4. \A m \in Nat : m < d => Wrap(m) = m /\ m \in Word
  BY <1>1, SmallDividend, WordFacts DEF Wrap
<1>5. CASE g >= 0
  <2>1. mag.neg = FALSE /\ mag.high = high /\ mag.low = low
    BY <1>5 DEF Abs128
  <2> HIDE DEF d, g, mag
  <2>2. g * d >= 0
    BY <1>1, <1>2, <1>5
  <2>3. n >= 0 /\ n = high * d + low
    BY <1>1, <1>2, <1>5, <2>2
  <2> HIDE DEF n
  <2>4. Abs(n) = high * d + low /\ ~ (n < 0)
    BY <1>3, <2>3, AbsNat
  <2>5. mag.neg = (n < 0)
    <3>1. (n < 0) = FALSE
      BY <1>3, <2>4
    <3> QED BY <2>1, <3>1
  <2>6. mag.high * d + mag.low = Abs(n)
    BY <2>1, <2>4
  <2> QED BY <1>3, <2>1, <2>5, <2>6 DEF n, d, g, mag
<1>6. CASE g < 0
  <2> DEFINE mh == Wrap(d - 1 - high + IF low = 0 THEN 1 ELSE 0)
             ml == Wrap(-low)
  <2>1. mag.neg = TRUE /\ mag.high = mh /\ mag.low = ml
    <3>1. ~ (g >= 0)
      <4> HIDE DEF g
      <4> QED BY <1>2, <1>6
    <3> QED BY <3>1 DEF Abs128
  <2>2. (d - high) * d = -(g * d)
    <3> HIDE DEF d, g
    <3>1. d - high = -g
      BY <1>1, <1>2, <1>6
    <3>2. (-g) * d = -(g * d)
      BY <1>1, <1>2
    <3> QED BY <3>1, <3>2
  <2>3. n < 0
    <3> HIDE DEF d, g
    <3>1. g * d <= -d
      BY <1>1, <1>2, <1>6
    <3> QED BY <1>1, <1>2, <3>1
  <2>4. Abs(n) = (d - high) * d - low
    <3>1. Abs(n) = -n
      BY <1>3, <2>3, AbsNat
    <3> DEFINE gd == g * d
               e == (d - high) * d
    <3>2. gd \in Int /\ n = gd + low /\ e = -gd
      BY <1>1, <1>2, <2>2
    <3> HIDE DEF n, gd, e
    <3>3. -n = e - low
      BY <1>1, <3>2
    <3> QED BY <3>1, <3>3 DEF e
  <2>5. mh \in Word /\ ml \in Word /\ mh * d + ml = (d - high) * d - low
    <3>1. CASE low = 0
      <4>1. ml = 0 /\ 0 \in Word
        <5>1. -low = 0
          <6>1. \A m \in Int : m >= 0 /\ m <= 0 => -m = 0
            OBVIOUS
          <6>2. low \in Int /\ low >= 0 /\ low <= 0
            BY <1>1, <3>1
          <6> QED BY <6>1, <6>2
        <5> QED BY <1>1, <1>4, <5>1
      <4>2. mh = d - high /\ mh \in Word
        <5> DEFINE m == d - high
        <5>1. d - 1 - high + 1 = m /\ m \in Nat /\ m < d
          <6> HIDE DEF d, g
          <6> QED BY <1>1, <1>2, <1>6
        <5>2. mh = Wrap(d - 1 - high + 1)
          BY <3>1
        <5> HIDE DEF m, mh
        <5> QED BY <1>4, <5>1, <5>2 DEF m
      <4> HIDE DEF mh, ml, d
      <4> QED BY <1>1, <3>1, <4>1, <4>2
    <3>2. CASE low # 0
      <4> DEFINE m == d - 1 - high
                 k == d - low
      <4>1. m \in Nat /\ m < d /\ k \in Nat /\ k < d /\ m + 0 = m
        <5> HIDE DEF d
        <5> QED BY <1>1, <3>2
      <4>2. mh = m /\ mh \in Word
        <5>1. mh = Wrap(m + 0)
          BY <3>2
        <5> HIDE DEF m, mh
        <5> QED BY <1>4, <4>1, <5>1
      <4>3. ml = k /\ ml \in Word
        <5>1. (-1) * d + k = -low
          <6> HIDE DEF d
          <6> QED BY <1>1
        <5>2. ((-1) * d + k) % d = k
          <6> DEFINE c == -1
          <6>1. c \in Int
            OBVIOUS
          <6> HIDE DEF c, d, k
          <6>2. (c * d + k) % d = k
            BY <1>1, <4>1, <6>1, IntDivisionUnique
          <6> QED BY <6>2 DEF c
        <5>3. ml = k
          BY <5>1, <5>2 DEF Wrap
        <5> HIDE DEF ml, k
        <5> QED BY <4>1, <5>3, <1>4
      <4>4. m * d + k = (d - high) * d - low
        <5> HIDE DEF d
        <5>1. m * d = (d - high) * d - d
          BY <1>1
        <5> QED BY <1>1, <5>1
      <4> HIDE DEF mh, ml, d, m, k
      <4> QED BY <4>2, <4>3, <4>4
    <3> QED BY <3>1, <3>2
  <2> HIDE DEF mh, ml, d, g, mag, n
  <2>6. n \in Int /\ mag.neg = (n < 0) /\ mag.high \in Word /\ mag.low \in Word
    BY <1>3, <2>1, <2>3, <2>5
  <2>7. mag.high * d + mag.low = Abs(n)
    BY <2>1, <2>4, <2>5
  <2> QED BY <2>6, <2>7 DEF n, d, g, mag
<1>7. g >= 0 \/ g < 0
  <2> HIDE DEF g
  <2> QED BY <1>2
<1> QED BY <1>5, <1>6, <1>7

LEMMA IdivWideStep ==
  ASSUME TypeOK, exit = "none", NEW s \in Reg, IdivWide(s)
  PROVE  TypeOK' /\ Exact'
<1> DEFINE b == Signed(ReadGpr(s, 8), 8)
           high == ReadGpr("rdx", 8)
           low == ReadGpr("rax", 8)
           d == Modulus(8)
           n == Signed(high, 8) * d + low
           mag == Abs128(high, low)
           y == Abs(b)
           res == Udiv128(mag.high, mag.low, y)
           same == mag.neg = (b < 0)
           fits == mag.high < y /\ MagnitudeFits(res.quot, same)
           q == Quot(n, b)
           r == Rem(n, b)
<1>0. "rax" \in Reg /\ "rdx" \in Reg /\ 8 \in Width
  BY DEF Reg, Width
<1>1. /\ Executes("idiv", 8, n, b)
      /\ \/ b = 0 /\ FaultDivide
         \/ b # 0 /\ ~ fits /\ FaultDivide
         \/ /\ b # 0 /\ fits
            /\ regs' = WritePair(8, Wrap(IF mag.neg THEN -res.rem ELSE res.rem),
                                    Wrap(IF same THEN res.quot ELSE -res.quot))
            /\ UNCHANGED <<overflow, exit>>
  BY DEF IdivWide
<1>2. high \in Word /\ low \in Word
  BY <1>0, ReadFacts, WordFacts
<1>3. b \in SignedRange(8) /\ b \in Int
  <2>1. ReadGpr(s, 8) \in Int
    BY <1>0, ReadFacts
  <2> QED BY <1>0, <2>1, SignedFacts
<1>4. PICK h \in Nat \ {0} : d = 2 * h /\ SignedRange(8) = -h .. h - 1
  BY <1>0, RangeFacts
<1>5. y \in Nat /\ (y = 0 <=> b = 0) /\ y < d /\ y \in Word
  <2>1. y \in Nat /\ (y = 0 <=> b = 0)
    BY <1>3, AbsNat
  <2>2. y < d
    <3> HIDE DEF d
    <3> QED BY <1>3, <1>4 DEF Abs
  <2> QED BY <2>1, <2>2, WordFacts
<1>6. /\ n \in Int /\ mag.neg = (n < 0)
      /\ mag.high \in Word /\ mag.low \in Word /\ mag.high * d + mag.low = Abs(n)
  BY <1>2, Abs128Exact
<1> HIDE DEF b, high, low, d, mag, y
<1>7. QuotRange("idiv", 8) = SignedRange(8)
  BY DEF QuotRange
<1>8. same <=> (n < 0) = (b < 0)
  BY <1>6
<1> HIDE DEF n, same
<1>9. ASSUME NEW t \in Nat, NEW u \in Nat, u < y, Abs(n) = t * y + u
      PROVE  /\ q = IF same THEN t ELSE -t
             /\ r = IF mag.neg THEN -u ELSE u
             /\ q \in Int /\ r \in Int
             /\ q * b + r = n
             /\ Abs(r) < Abs(b)
             /\ r = 0 \/ (r < 0) = (n < 0)
  <2>1. Splits(n, b, t, u)
    BY <1>9 DEF Splits, y
  <2>2. n \in Int /\ b \in Int /\ t \in Nat /\ u \in Nat
    BY <1>3, <1>6
  <2>3. /\ q = IF (n < 0) = (b < 0) THEN t ELSE -t
        /\ r = IF n < 0 THEN -u ELSE u
        /\ q \in Int /\ r \in Int
        /\ q * b + r = n
        /\ Abs(r) < Abs(b)
        /\ r = 0 \/ (r < 0) = (n < 0)
    BY <2>1, <2>2, Truncates
  <2> HIDE DEF q, r
  <2> QED BY <1>6, <1>8, <2>3
<1> HIDE DEF q, r
<1>10. CASE b = 0
  BY <1>1, <1>10, Faulted
<1>11. CASE b # 0 /\ mag.high >= y
  <2> DEFINE x == Abs(n)
             t == x \div y
             u == x % y
  <2>1. x \in Nat /\ y \in Nat \ {0}
    BY <1>5, <1>6, <1>11, AbsNat
  <2> HIDE DEF x
  <2>2. t \in Nat /\ u \in Nat /\ u < y /\ x = t * y + u
    BY <2>1, Division, DivModNat
  <2> HIDE DEF t, u
  <2>3. t >= d
    <3>1. mag.high \in Nat /\ mag.low \in Nat
      BY <1>6, WordFacts
    <3>2. mag.high * Modulus(8) + mag.low = t * y + u
      BY <1>6, <2>2 DEF d, x
    <3> QED BY <1>11, <2>1, <2>2, <3>1, <3>2, HighReaches DEF d
  <2>4. q = IF same THEN t ELSE -t
    BY <1>9, <2>2 DEF x
  <2>5. q \notin SignedRange(8)
    BY <1>4, <2>2, <2>3, <2>4
  <2>6. FaultDivide
    <3>1. ~ (mag.high < y)
      <4>1. mag.high \in Nat
        BY <1>6, WordFacts
      <4> QED BY <1>5, <1>11, <4>1
    <3> QED BY <1>1, <1>11, <3>1
  <2> QED BY <1>1, <1>7, <2>5, <2>6, Faulted DEF q
<1>12. CASE b # 0 /\ mag.high < y
  <2>1. PICK u \in Nat, t \in Nat :
          res = [rem |-> u, quot |-> t] /\ u < y /\ t < d /\ t * y + u = mag.high * d + mag.low
    <3>1. IsDivision(res, mag.high, mag.low, y)
      BY <1>5, <1>6, <1>12, Udiv128Exact
    <3> HIDE DEF res
    <3> QED BY <3>1 DEF IsDivision, d
  <2>2. res.rem = u /\ res.quot = t
    BY <2>1
  <2> HIDE DEF res
  <2>3. /\ q = IF same THEN t ELSE -t
        /\ r = IF mag.neg THEN -u ELSE u
        /\ q \in Int /\ r \in Int
        /\ q * b + r = n
        /\ Abs(r) < Abs(b)
        /\ r = 0 \/ (r < 0) = (n < 0)
    <3>1. Abs(n) = t * y + u
      BY <1>6, <2>1
    <3> QED BY <1>9, <2>1, <3>1
  <2>4. fits <=> q \in SignedRange(8)
    <3>1. fits <=> ~ (2 * t > d \/ (2 * t = d /\ same))
      BY <1>12, <2>2 DEF MagnitudeFits, d
    <3> QED BY <1>4, <2>3, <3>1
  <2> HIDE DEF fits
  <2>5. CASE ~ fits
    BY <1>1, <1>7, <2>4, <2>5, Faulted DEF q
  <2>6. CASE fits
    <3>0. /\ (IF mag.neg THEN -res.rem ELSE res.rem) = r
          /\ (IF same THEN res.quot ELSE -res.quot) = q
      BY <2>2, <2>3
    <3>1. regs' = WritePair(8, Wrap(r), Wrap(q)) /\ UNCHANGED <<overflow, exit>>
      BY <1>1, <1>12, <2>6, <3>0
    <3>2. q \in SignedRange(8) /\ r \in SignedRange(8)
      BY <1>0, <1>3, <2>3, <2>4, <2>6, RemainderFits
    <3>3. Signed(Low(Wrap(q), 8), 8) = q /\ Signed(Low(Wrap(r), 8), 8) = r
      BY <1>0, <3>2, ReadBack
    <3>4. Wrap(q) \in Int /\ Wrap(r) \in Int
      BY <2>3, WordFacts
    <3> QED BY <1>0, <1>1, <1>7, <1>12, <2>3, <3>1, <3>2, <3>3, <3>4, Divided DEF q, r
  <2> QED BY <2>5, <2>6
<1>13. mag.high < y \/ mag.high >= y
  <2>1. mag.high \in Nat
    BY <1>6, WordFacts
  <2> QED BY <1>5, <2>1
<1> QED BY <1>10, <1>11, <1>12, <1>13

-----------------------------------------------------------------------------
(* The theorems.  A behaviour executes one instruction, so what makes the  *)
(* invariant inductive is that none was executed, and nothing is latched,  *)
(* before it.                                                              *)

IInv == TypeOK /\ Exact /\ (insn = NoInsn => exit = "none")

LEMMA InitIInv ==
  ASSUME Init
  PROVE  IInv
<1>1. PICK a \in Accs, h \in Highs, s \in Sources : regs = [rax |-> a, rdx |-> h, rbx |-> s]
  BY DEF Init
<1>2. a \in Word /\ h \in Word /\ s \in Word
  BY ValuesAssumption
<1>3. regs \in [Reg -> Word]
  BY <1>1, <1>2 DEF Reg
<1>4. insn.op = "none" /\ exit = "none" /\ overflow \in BOOLEAN
  BY DEF Init, NoInsn
<1> QED BY <1>3, <1>4 DEF IInv, TypeOK, Exact, MulExact, DivExact, DivideFaults

LEMMA StepIInv ==
  ASSUME IInv, [Next]_vars
  PROVE  IInv'
<1>1. ASSUME Next PROVE IInv'
  <2>1. TypeOK /\ exit = "none"
    BY <1>1 DEF IInv, Next
  <2>2. Widths \subseteq Width
    BY WidthsAssumption DEF Width
  <2>3. PICK s \in Reg : \/ \E w \in Widths : \/ Mul(s, w)
                                              \/ Imul(s, w)
                                              \/ Imul23(s, w, Sources)
                                              \/ Div(s, w)
                                              \/ Idiv(s, w)
                         \/ DivWide(s)
                         \/ IdivWide(s)
    BY <1>1 DEF Next
  <2>4. TypeOK' /\ Exact'
    <3>1. ASSUME NEW w \in Widths, Mul(s, w) PROVE TypeOK' /\ Exact'
      BY <2>1, <2>2, <3>1, MulStep
    <3>2. ASSUME NEW w \in Widths, Imul(s, w) PROVE TypeOK' /\ Exact'
      BY <2>1, <2>2, <3>2, ImulStep
    <3>3. ASSUME NEW w \in Widths, Imul23(s, w, Sources) PROVE TypeOK' /\ Exact'
      BY <2>1, <2>2, <3>3, Imul23Step
    <3>4. ASSUME NEW w \in Widths, Div(s, w) PROVE TypeOK' /\ Exact'
      BY <2>1, <2>2, <3>4, NarrowStep
    <3>5. ASSUME NEW w \in Widths, Idiv(s, w) PROVE TypeOK' /\ Exact'
      BY <2>1, <2>2, <3>5, IdivStep
    <3>6. ASSUME DivWide(s) PROVE TypeOK' /\ Exact'
      BY <2>1, <3>6, DivWideStep
    <3>7. ASSUME IdivWide(s) PROVE TypeOK' /\ Exact'
      BY <2>1, <3>7, IdivWideStep
    <3> QED BY <2>3, <3>1, <3>2, <3>3, <3>4, <3>5, <3>6, <3>7
  <2>5. insn' # NoInsn
    <3>1. \E op, w, lhs, rhs : op # "none" /\ insn' = [op |-> op, w |-> w, lhs |-> lhs, rhs |-> rhs]
      BY <2>3 DEF Mul, Imul, Imul23, Div, Idiv, DivWide, IdivWide, Executes
    <3>2. insn'.op # "none"
      BY <3>1
    <3> QED BY <3>2 DEF NoInsn
  <2> QED BY <2>4, <2>5 DEF IInv
<1>2. ASSUME UNCHANGED vars PROVE IInv'
  BY <1>2 DEF vars, IInv, TypeOK, Exact, MulExact, DivExact, DivideFaults, Pair, Halves, ReadGpr
<1> QED BY <1>1, <1>2

LEMMA Invariant == Spec => []IInv
<1>1. Init => IInv
  BY InitIInv
<1>2. IInv /\ [Next]_vars => IInv'
  BY StepIInv
<1> QED BY <1>1, <1>2, PTL DEF Spec

\* Whatever the operands, a register never holds more than its word.
THEOREM Grp3TypeCorrect == Spec => []TypeOK
<1>1. IInv => TypeOK
  BY DEF IInv
<1> QED BY <1>1, Invariant, PTL

\* mul_wide(), imul_high() and the host's products give the exact product at
\* every width, and CF and OF tell whether the low half is all of it.
THEOREM ProductsExact == Spec => []MulExact
<1>1. IInv => MulExact
  BY DEF IInv, Exact
<1> QED BY <1>1, Invariant, PTL

\* Every division that completes leaves the quotient towards zero and its
\* remainder, through udiv128() and abs128() as through the host's arithmetic.
THEOREM DivisionsExact == Spec => []DivExact
<1>1. IInv => DivExact
  BY DEF IInv, Exact
<1> QED BY <1>1, Invariant, PTL

\* A division faults exactly when the divisor is zero or the true quotient
\* does not fit, and then nothing has changed.
THEOREM FaultsExact == Spec => []DivideFaults
<1>1. IInv => DivideFaults
  BY DEF IInv, Exact
<1> QED BY <1>1, Invariant, PTL
=============================================================================
