------------------------------ MODULE AluProofs -------------------------------
(***************************************************************************)
(* Theorems about Alu, for every size of a byte, every width, all values   *)
(* of the registers and every shift count.  A behaviour runs one           *)
(* instruction, so each property is shown of the step that runs it; the    *)
(* lemmas relate words, which are sets of positions, to their numbers.     *)
(***************************************************************************)
EXTENDS Alu, NatFacts, TLAPS

LEMMA Sizes ==
  ASSUME NEW w \in Width
  PROVE  /\ Bits(w) \in Nat /\ 2 <= Bits(w) /\ Bits(w) <= WordBits
         /\ WordBits \in Nat /\ 16 <= WordBits
         /\ w < 8 => 2 * Bits(w) <= WordBits
         /\ w = 8 => Bits(w) = WordBits
         /\ SignBit(w) = Bits(w) - 1 /\ SignBit(w) \in Field(w)
         /\ Field(w) = 0 .. Bits(w) - 1 /\ Field(8) = 0 .. WordBits - 1
         /\ Field(w) \subseteq Field(8)
         /\ ByteBits \in Nat /\ 2 <= ByteBits /\ ByteBits <= Bits(w)
         /\ Field(1) = 0 .. ByteBits - 1 /\ Field(1) \subseteq Field(w)
<1>1. CASE ByteBits = 2
  BY <1>1 DEF Bits, WordBits, Field, Width, SignBit
<1>2. CASE ByteBits = 4
  BY <1>2 DEF Bits, WordBits, Field, Width, SignBit
<1>3. CASE ByteBits = 8
  BY <1>3 DEF Bits, WordBits, Field, Width, SignBit
<1> QED BY <1>1, <1>2, <1>3, BitsAssumption

-----------------------------------------------------------------------------
(* The number of a word: the value of its low k bits, for every k.         *)

Prefix(s, k) ==
    LET sum[i \in 0 .. WordBits] ==
            IF i = 0 THEN 0 ELSE sum[i - 1] + (IF i - 1 \in s THEN 2 ^ (i - 1) ELSE 0)
    IN  sum[k]

LEMMA Prefixes ==
  ASSUME NEW s
  PROVE  /\ WordBits \in Nat
         /\ Prefix(s, 0) = 0
         /\ \A k \in 0 .. WordBits - 1 :
               Prefix(s, k + 1) = Prefix(s, k) + (IF k \in s THEN 2 ^ k ELSE 0)
         /\ \A k \in 0 .. WordBits : Prefix(s, k) \in Nat /\ Prefix(s, k) < 2 ^ k
         /\ Num(s) = Prefix(s, WordBits)
<1> DEFINE n == WordBits
           bit(i) == IF i \in s THEN 2 ^ i ELSE 0
           Sum(f) == [i \in 0 .. n |-> IF i = 0 THEN 0 ELSE f[i - 1] + bit(i - 1)]
           sum == CHOOSE f : f = Sum(f)
           step == [q \in (1 .. n) \X Nat |-> q[2] + bit(q[1] - 1)]
<1>1. n \in Nat
  BY Sizes DEF Width
<1>2. ASSUME NEW i \in Nat PROVE bit(i) \in Nat
  BY PowerPositive
<1> HIDE DEF n, bit
<1>3. step \in [(1 .. n) \X Nat -> Nat]
  <2>1. ASSUME NEW q \in (1 .. n) \X Nat PROVE q[2] + bit(q[1] - 1) \in Nat
    <3>1. q[1] - 1 \in Nat /\ q[2] \in Nat
      BY <1>1
    <3> QED BY <1>2, <3>1
  <2> QED BY <2>1
<1>4. PICK f : f \in [0 .. n -> Nat] /\ f[0] = 0 /\ \A i \in 1 .. n : f[i] = step[<<i, f[i - 1]>>]
  <2>1. 0 \in Nat
    OBVIOUS
  <2> HIDE DEF step
  <2>2. PICK f : IsRecursion(f, Nat, 0, n, step)
    BY <1>1, <1>3, <2>1, RecursionExists
  <2> QED BY <2>2 DEF IsRecursion
<1>5. f = Sum(f)
  <2>1. ASSUME NEW i \in 1 .. n PROVE step[<<i, f[i - 1]>>] = f[i - 1] + bit(i - 1)
    <3>1. i - 1 \in 0 .. n /\ \A j \in 0 .. n : f[j] \in Nat
      BY <1>1, <1>4
    <3> QED BY <3>1
  <2>2. ASSUME NEW i \in 0 .. n
        PROVE  f[i] = IF i = 0 THEN 0 ELSE f[i - 1] + bit(i - 1)
    <3>1. CASE i = 0
      BY <1>4, <3>1
    <3>2. CASE i # 0
      <4>1. i \in 1 .. n
        BY <1>1, <3>2
      <4> QED BY <1>4, <2>1, <3>2, <4>1
    <3> QED BY <3>1, <3>2
  <2> QED BY <1>4, <2>2
<1>6. sum = Sum(sum)
  BY <1>5
<1>7. /\ sum[0] = 0
      /\ \A k \in 0 .. n - 1 : sum[k + 1] = sum[k] + bit(k)
  <2>1. \A i \in 0 .. n : sum[i] = IF i = 0 THEN 0 ELSE sum[i - 1] + bit(i - 1)
    BY <1>6
  <2> HIDE DEF sum
  <2>2. ASSUME NEW k \in 0 .. n - 1 PROVE sum[k + 1] = sum[k] + bit(k)
    <3>1. k + 1 \in 0 .. n /\ k + 1 # 0 /\ (k + 1) - 1 = k
      BY <1>1
    <3> QED BY <2>1, <3>1
  <2>3. 0 \in 0 .. n
    BY <1>1
  <2> QED BY <2>1, <2>2, <2>3
<1>8. ASSUME NEW k \in 0 .. n PROVE Prefix(s, k) = sum[k]
  BY DEF Prefix, n, bit
<1>9. Num(s) = sum[n]
  BY DEF Num, n, bit
<1> HIDE DEF sum
<1>10. \A k \in 0 .. n : sum[k] \in Nat /\ sum[k] < 2 ^ k
  <2> DEFINE T == {k \in Nat : k <= n => sum[k] \in Nat /\ sum[k] < 2 ^ k}
  <2>1. 0 \in T
    BY <1>7, PowerZero
  <2>2. ASSUME NEW k \in T PROVE k + 1 \in T
    <3> SUFFICES ASSUME k + 1 <= n PROVE sum[k + 1] \in Nat /\ sum[k + 1] < 2 ^ (k + 1)
      OBVIOUS
    <3>1. k \in 0 .. n - 1 /\ sum[k] \in Nat /\ sum[k] < 2 ^ k
      BY <1>1
    <3> DEFINE p == 2 ^ k
    <3>2. 2 ^ (k + 1) = 2 * p /\ p \in Nat
      BY PowerStep
    <3>3. bit(k) \in {0, p}
      BY DEF bit
    <3> HIDE DEF p
    <3>4. sum[k + 1] = sum[k] + bit(k) /\ sum[k] < p
      BY <1>7, <3>1 DEF p
    <3> QED BY <3>1, <3>2, <3>3, <3>4
  <2>3. T \in SUBSET Nat
    OBVIOUS
  <2>4. T = Nat
    <3> HIDE DEF T
    <3> QED BY <2>1, <2>2, <2>3, NatSetInduction
  <2> QED BY <1>1, <2>4
<1>11. ASSUME NEW k \in 0 .. n - 1 PROVE Prefix(s, k + 1) = Prefix(s, k) + bit(k)
  <2>1. k \in 0 .. n /\ k + 1 \in 0 .. n
    BY <1>1
  <2> QED BY <1>7, <1>8, <2>1
<1>12. 0 \in 0 .. n /\ n \in 0 .. n
  BY <1>1
<1> QED BY <1>1, <1>7, <1>8, <1>9, <1>10, <1>11, <1>12 DEF n, bit

\* The low bits and the rest.
LEMMA PrefixSplit ==
  ASSUME NEW s \in SUBSET Nat, NEW j \in Nat, NEW m \in Nat, j + m <= WordBits
  PROVE  Prefix(s, j + m) = Prefix(s, j) + 2 ^ j * Prefix(Right(s, j), m)
<1> DEFINE r == Right(s, j)
           p == 2 ^ j
           T == {i \in Nat : j + i <= WordBits => Prefix(s, j + i) = Prefix(s, j) + p * Prefix(r, i)}
<1>1. WordBits \in Nat /\ p \in Nat /\ Prefix(s, j) \in Nat
  BY Prefixes, PowerPositive
<1>2. ASSUME NEW i \in Nat PROVE i \in r <=> j + i \in s
  BY DEF Right
<1> HIDE DEF p, r
<1>3. 0 \in T
  <2>1. Prefix(r, 0) = 0 /\ j + 0 = j /\ p * 0 = 0
    BY <1>1, Prefixes
  <2> QED BY <1>1, <2>1
<1>4. ASSUME NEW i \in T PROVE i + 1 \in T
  <2> SUFFICES ASSUME j + (i + 1) <= WordBits
               PROVE  Prefix(s, j + (i + 1)) = Prefix(s, j) + p * Prefix(r, i + 1)
    OBVIOUS
  <2>1. /\ j + i \in 0 .. WordBits - 1 /\ i \in 0 .. WordBits - 1
        /\ (j + i) + 1 = j + (i + 1) /\ j + i <= WordBits
    BY <1>1
  <2> DEFINE a == Prefix(s, j)
             b == Prefix(r, i)
             q == 2 ^ i
             x == IF i \in r THEN 1 ELSE 0
  <2>2. 2 ^ (j + i) = p * q /\ q \in Nat
    BY PowerSum, PowerPositive DEF p
  <2>3. Prefix(s, (j + i) + 1) = Prefix(s, j + i) + (IF j + i \in s THEN p * q ELSE 0)
    BY <2>1, <2>2, Prefixes
  <2>4. Prefix(r, i + 1) = b + (IF i \in r THEN q ELSE 0)
    BY <2>1, Prefixes
  <2>5. b \in Nat
    <3>1. i \in 0 .. WordBits
      BY <1>1, <2>1
    <3> QED BY <3>1, Prefixes
  <2>6. Prefix(s, j + i) = a + p * b
    BY <2>1
  <2> HIDE DEF a, b, q
  <2>7. CASE i \in r
    <3>1. p * (b + q) = p * b + p * q
      BY <1>1, <2>2, <2>5
    <3>2. p * b \in Nat /\ p * q \in Nat /\ a \in Nat
      BY <1>1, <2>2, <2>5 DEF a
    <3>3. j + i \in s
      BY <1>2, <2>7
    <3>4. Prefix(s, (j + i) + 1) = (a + p * b) + p * q
      BY <2>3, <2>6, <3>3
    <3>5. Prefix(r, i + 1) = b + q
      BY <2>4, <2>7
    <3> QED BY <2>1, <3>1, <3>2, <3>4, <3>5 DEF a
  <2>8. CASE i \notin r
    <3>1. j + i \notin s
      BY <1>2, <2>8
    <3>2. p * b \in Nat /\ a \in Nat
      BY <1>1, <2>5 DEF a
    <3>3. Prefix(s, (j + i) + 1) = a + p * b
      BY <2>3, <2>6, <3>1, <3>2
    <3>4. Prefix(r, i + 1) = b
      BY <2>4, <2>5, <2>8
    <3> QED BY <2>1, <3>3, <3>4 DEF a
  <2> QED BY <2>7, <2>8
<1>5. T \in SUBSET Nat
  OBVIOUS
<1>6. T = Nat
  <2> HIDE DEF T
  <2> QED BY <1>3, <1>4, <1>5, NatSetInduction
<1>7. m \in T
  BY <1>6
<1> QED BY <1>7 DEF p, r

\* Only the bits below k count.
LEMMA PrefixSame ==
  ASSUME NEW s, NEW t, NEW k \in 0 .. WordBits, \A i \in 0 .. k - 1 : i \in s <=> i \in t
  PROVE  Prefix(s, k) = Prefix(t, k)
<1> DEFINE T == {i \in Nat : i <= k => Prefix(s, i) = Prefix(t, i)}
<1>1. WordBits \in Nat
  BY Prefixes
<1>2. 0 \in T
  BY Prefixes
<1>3. ASSUME NEW i \in T PROVE i + 1 \in T
  <2> SUFFICES ASSUME i + 1 <= k PROVE Prefix(s, i + 1) = Prefix(t, i + 1)
    OBVIOUS
  <2>1. i \in 0 .. WordBits - 1 /\ i \in 0 .. k - 1 /\ Prefix(s, i) = Prefix(t, i)
    BY <1>1
  <2>2. Prefix(s, i + 1) = Prefix(s, i) + (IF i \in s THEN 2 ^ i ELSE 0)
    BY <2>1, Prefixes
  <2>3. Prefix(t, i + 1) = Prefix(t, i) + (IF i \in t THEN 2 ^ i ELSE 0)
    BY <2>1, Prefixes
  <2>4. i \in s <=> i \in t
    BY <2>1
  <2> QED BY <2>1, <2>2, <2>3, <2>4
<1>4. T \in SUBSET Nat
  OBVIOUS
<1>5. T = Nat
  <2> HIDE DEF T
  <2> QED BY <1>2, <1>3, <1>4, NatSetInduction
<1>6. k \in T /\ k <= k
  BY <1>1, <1>5
<1> QED BY <1>6

LEMMA PrefixEmpty ==
  ASSUME NEW k \in 0 .. WordBits
  PROVE  Prefix({}, k) = 0
<1> DEFINE T == {i \in Nat : i <= WordBits => Prefix({}, i) = 0}
<1>1. WordBits \in Nat
  BY Prefixes
<1>2. 0 \in T
  BY Prefixes
<1>3. ASSUME NEW i \in T PROVE i + 1 \in T
  <2> SUFFICES ASSUME i + 1 <= WordBits PROVE Prefix({}, i + 1) = 0
    OBVIOUS
  <2>1. i \in 0 .. WordBits - 1 /\ Prefix({}, i) = 0 /\ i \notin {}
    BY <1>1
  <2>2. Prefix({}, i + 1) = Prefix({}, i) + (IF i \in {} THEN 2 ^ i ELSE 0)
    BY <2>1, Prefixes
  <2> QED BY <2>1, <2>2
<1>4. T \in SUBSET Nat
  OBVIOUS
<1>5. T = Nat
  <2> HIDE DEF T
  <2> QED BY <1>2, <1>3, <1>4, NatSetInduction
<1>6. k \in T /\ k <= WordBits
  BY <1>1, <1>5
<1> QED BY <1>6

\* A word without bits from k on.
LEMMA NumPrefix ==
  ASSUME NEW k \in 0 .. WordBits, NEW s \in SUBSET (0 .. k - 1)
  PROVE  Num(s) = Prefix(s, k)
<1>1. WordBits \in Nat /\ k \in Nat
  BY Prefixes
<1> DEFINE m == WordBits - k
           p == 2 ^ k
<1>2. m \in 0 .. WordBits /\ m \in Nat /\ k + m = WordBits
  BY <1>1
<1>3. s \in SUBSET Nat
  BY <1>1
<1>4. Right(s, k) = {}
  BY <1>1 DEF Right
<1>5. Prefix(s, k) \in Nat /\ p \in Nat
  BY Prefixes, PowerPositive, <1>1
<1> HIDE DEF m, p
<1>6. Prefix(s, k + m) = Prefix(s, k) + p * Prefix(Right(s, k), m)
  <2>1. k + m <= WordBits
    BY <1>1, <1>2
  <2> QED BY <1>1, <1>2, <1>3, <2>1, PrefixSplit DEF p
<1>7. Prefix(Right(s, k), m) = 0
  BY <1>2, <1>4, PrefixEmpty
<1>8. Num(s) = Prefix(s, WordBits)
  BY Prefixes
<1> QED BY <1>2, <1>5, <1>6, <1>7, <1>8

LEMMA NumBound ==
  ASSUME NEW k \in 0 .. WordBits, NEW s \in SUBSET (0 .. k - 1)
  PROVE  Num(s) \in Nat /\ Num(s) < 2 ^ k
BY NumPrefix, Prefixes

LEMMA NumEmpty == Num({}) = 0
<1>1. WordBits \in 0 .. WordBits
  BY Prefixes
<1> QED BY <1>1, Prefixes, PrefixEmpty

\* The remainder by a power of two is the low bits, the quotient the others.
LEMMA NumCut ==
  ASSUME NEW s \in SUBSET Field(8), NEW k \in 0 .. WordBits
  PROVE  /\ Num(s) \in Nat /\ Num(s) < 2 ^ WordBits
         /\ Num(s) % 2 ^ k = Num(s \cap (0 .. k - 1))
         /\ Num(s) \div 2 ^ k = Num(Right(s, k))
         /\ Num(s) = Num(s \cap (0 .. k - 1)) + 2 ^ k * Num(Right(s, k))
         /\ Right(s, k) \in SUBSET (0 .. WordBits - k - 1)
         /\ Right(s, k) \in SUBSET Field(8)
<1>1. WordBits \in Nat /\ k \in Nat /\ Field(8) = 0 .. WordBits - 1
  BY Prefixes, Sizes DEF Width
<1> DEFINE m == WordBits - k
           p == 2 ^ k
           l == s \cap (0 .. k - 1)
           r == Right(s, k)
<1>2. m \in 0 .. WordBits /\ m \in Nat /\ k + m = WordBits /\ k + m <= WordBits
  BY <1>1
<1>3. s \in SUBSET Nat /\ p \in Nat
  BY <1>1, PowerPositive
<1>4. r \in SUBSET (0 .. m - 1) /\ r \in SUBSET Field(8)
  BY <1>1 DEF Right
<1> HIDE DEF m, r
<1>5. Prefix(s, k + m) = Prefix(s, k) + p * Prefix(r, m)
  BY <1>1, <1>2, <1>3, PrefixSplit DEF r
<1>6. Num(s) = Prefix(s, WordBits)
  BY Prefixes
<1>7. Num(r) = Prefix(r, m)
  BY <1>2, <1>4, NumPrefix
<1>8. Num(l) = Prefix(s, k)
  <2>1. Num(l) = Prefix(l, k)
    BY NumPrefix
  <2>2. Prefix(l, k) = Prefix(s, k)
    BY <1>1, PrefixSame
  <2> QED BY <2>1, <2>2
<1>9. Num(s) = Num(l) + p * Num(r)
  BY <1>2, <1>5, <1>6, <1>7, <1>8
<1>10. Num(l) \in Nat /\ Num(l) < p /\ Num(r) \in Nat
  BY <1>2, <1>4, NumBound
<1> HIDE DEF p, l
<1>11. Num(r) * p + Num(l) = Num(s)
  BY <1>3, <1>9, <1>10
<1>12. Num(s) % p = Num(l) /\ Num(s) \div p = Num(r)
  BY <1>3, <1>10, <1>11, DivisionUnique
<1>13. Num(s) \in Nat /\ Num(s) < 2 ^ WordBits
  <2>1. WordBits \in 0 .. WordBits
    BY <1>1
  <2> QED BY <1>6, <2>1, Prefixes
<1> QED BY <1>4, <1>9, <1>12, <1>13 DEF p, l, r, m

\* Words without a bit in common add.
LEMMA NumUnion ==
  ASSUME NEW s \in SUBSET Field(8), NEW t \in SUBSET Field(8), s \cap t = {}
  PROVE  Num(s \cup t) = Num(s) + Num(t)
<1> DEFINE u == s \cup t
           T == {i \in Nat : i <= WordBits => Prefix(u, i) = Prefix(s, i) + Prefix(t, i)}
<1>1. WordBits \in Nat /\ WordBits <= WordBits
  BY Prefixes
<1>2. 0 \in T
  BY Prefixes
<1>3. ASSUME NEW i \in T PROVE i + 1 \in T
  <2> SUFFICES ASSUME i + 1 <= WordBits
               PROVE  Prefix(u, i + 1) = Prefix(s, i + 1) + Prefix(t, i + 1)
    OBVIOUS
  <2>1. i \in 0 .. WordBits - 1 /\ i \in 0 .. WordBits
        /\ Prefix(u, i) = Prefix(s, i) + Prefix(t, i)
    BY <1>1
  <2>2. \A v : Prefix(v, i + 1) = Prefix(v, i) + (IF i \in v THEN 2 ^ i ELSE 0)
    BY <2>1, Prefixes
  <2>3. 2 ^ i \in Nat /\ Prefix(s, i) \in Nat /\ Prefix(t, i) \in Nat
    BY <2>1, Prefixes, PowerPositive
  <2>4. (i \in u <=> i \in s \/ i \in t) /\ ~(i \in s /\ i \in t)
    OBVIOUS
  <2>5. /\ Prefix(u, i + 1) = Prefix(u, i) + (IF i \in u THEN 2 ^ i ELSE 0)
        /\ Prefix(s, i + 1) = Prefix(s, i) + (IF i \in s THEN 2 ^ i ELSE 0)
        /\ Prefix(t, i + 1) = Prefix(t, i) + (IF i \in t THEN 2 ^ i ELSE 0)
    BY <2>2
  <2> HIDE DEF u
  <2> DEFINE p == 2 ^ i
  <2> HIDE DEF p
  <2>6. p \in Nat
    BY <2>3 DEF p
  <2>7. /\ Prefix(u, i + 1) = Prefix(u, i) + (IF i \in u THEN p ELSE 0)
        /\ Prefix(s, i + 1) = Prefix(s, i) + (IF i \in s THEN p ELSE 0)
        /\ Prefix(t, i + 1) = Prefix(t, i) + (IF i \in t THEN p ELSE 0)
    BY <2>5 DEF p
  <2> QED BY <2>1, <2>3, <2>4, <2>6, <2>7
<1>4. T \in SUBSET Nat
  OBVIOUS
<1>5. T = Nat
  <2> HIDE DEF T
  <2> QED BY <1>2, <1>3, <1>4, NatSetInduction
<1>6. WordBits \in T
  BY <1>1, <1>5
<1>7. Prefix(u, WordBits) = Prefix(s, WordBits) + Prefix(t, WordBits)
  BY <1>1, <1>6
<1> QED BY <1>7, Prefixes

LEMMA NumSingle ==
  ASSUME NEW i \in Field(8)
  PROVE  Num({i}) = 2 ^ i
<1>0. WordBits \in Nat /\ Field(8) = 0 .. WordBits - 1
  BY Sizes DEF Width
<1>1. WordBits \in Nat /\ i \in Nat /\ i \in 0 .. WordBits /\ i \in 0 .. WordBits - 1
      /\ i + 1 \in 0 .. WordBits
  BY <1>0
<1>2. {i} \in SUBSET (0 .. (i + 1) - 1)
  BY <1>1
<1>3. Num({i}) = Prefix({i}, i + 1)
  BY <1>1, <1>2, NumPrefix
<1>4. Prefix({i}, i + 1) = Prefix({i}, i) + 2 ^ i
  BY <1>1, Prefixes
<1>5. Prefix({i}, i) = Prefix({}, i)
  BY <1>1, PrefixSame
<1>6. Prefix({}, i) = 0
  BY <1>1, PrefixEmpty
<1> QED BY <1>1, <1>3, <1>4, <1>5, <1>6, PowerPositive

\* A word and its number: the bits of the number are the word.
LEMMA NumBits ==
  ASSUME NEW s \in SUBSET Field(8)
  PROVE  /\ \A i \in Field(8) : (Num(s) \div 2 ^ i) % 2 = 1 <=> i \in s
         /\ Word(Num(s)) = s
<1>1. WordBits \in Nat /\ 16 <= WordBits /\ Field(8) = 0 .. WordBits - 1
  BY Sizes DEF Width
<1>2. ASSUME NEW i \in Field(8) PROVE (Num(s) \div 2 ^ i) % 2 = 1 <=> i \in s
  <2> DEFINE r == Right(s, i)
             b == r \cap (0 .. 0)
  <2>1. Num(s) \div 2 ^ i = Num(r) /\ r \in SUBSET Field(8)
    <3>1. i \in 0 .. WordBits
      BY <1>1
    <3> QED BY <3>1, NumCut
  <2>2. i \in s <=> 0 \in r
    BY <1>1 DEF Right
  <2> HIDE DEF r
  <2>3. Num(r) % 2 = Num(b)
    <3>1. 1 \in 0 .. WordBits /\ 1 - 1 = 0
      BY <1>1
    <3>2. 2 ^ 1 = 2
      <4>1. 2 ^ (0 + 1) = 2 * 2 ^ 0
        BY PowerStep
      <4> QED BY <4>1, PowerZero
    <3> QED BY <2>1, <3>1, <3>2, NumCut
  <2>4. CASE 0 \in r
    <3>1. b = {0}
      BY <2>4
    <3>2. Num({0}) = 1
      <4>1. 0 \in Field(8)
        BY <1>1
      <4> QED BY <4>1, NumSingle, PowerZero
    <3> QED BY <2>1, <2>2, <2>3, <2>4, <3>1, <3>2
  <2>5. CASE 0 \notin r
    <3>1. b = {}
      BY <2>5
    <3> HIDE DEF b
    <3>2. Num(r) % 2 = 0
      BY <2>3, <3>1, NumEmpty
    <3> QED BY <2>1, <2>2, <2>5, <3>2
  <2> QED BY <2>4, <2>5
<1>3. Word(Num(s)) = s
  BY <1>2 DEF Word
<1> QED BY <1>2, <1>3

LEMMA WordNum ==
  ASSUME NEW n \in Nat, NEW k \in 0 .. WordBits
  PROVE  /\ Word(n) \in SUBSET Field(8)
         /\ Num(Word(n) \cap (0 .. k - 1)) = n % 2 ^ k
<1>1. WordBits \in Nat /\ Field(8) = 0 .. WordBits - 1
  BY Sizes DEF Width
<1>2. Word(n) \in SUBSET Field(8)
  BY DEF Word
<1> DEFINE s == Word(n)
           T == {i \in Nat : i <= WordBits => Prefix(s, i) = n % 2 ^ i}
<1>3. 0 \in T
  <2>1. n % 1 = 0
    OBVIOUS
  <2> QED BY <2>1, Prefixes, PowerZero
<1>4. ASSUME NEW i \in T PROVE i + 1 \in T
  <2> SUFFICES ASSUME i + 1 <= WordBits PROVE Prefix(s, i + 1) = n % 2 ^ (i + 1)
    OBVIOUS
  <2>1. i \in 0 .. WordBits - 1 /\ Prefix(s, i) = n % 2 ^ i /\ i \in Field(8)
    BY <1>1
  <2> DEFINE p == 2 ^ i
             q == n \div p
             o == n % p
  <2>2. p \in Nat \ {0} /\ 2 ^ (i + 1) = 2 * p
    BY PowerStep, PowerPositive
  <2>3. Prefix(s, i + 1) = o + (IF i \in s THEN p ELSE 0)
    BY <2>1, Prefixes
  <2>4. i \in s <=> q % 2 = 1
    BY <2>1 DEF Word
  <2>5. n % (2 * p) = (q % 2) * p + o
    <3> HIDE DEF p
    <3>1. n \in Int /\ 2 \in Nat \ {0}
      OBVIOUS
    <3> QED BY <2>2, <3>1, IntModSplit
  <2>6. q \in Nat /\ o \in Nat
    <3> HIDE DEF p
    <3> QED BY <2>2, DivModNat
  <2> HIDE DEF p, q, o
  <2>7. q % 2 \in {0, 1}
    BY <2>6
  <2>8. CASE i \in s
    BY <2>2, <2>3, <2>4, <2>5, <2>6, <2>8
  <2>9. CASE i \notin s
    <3>1. q % 2 = 0
      BY <2>4, <2>7, <2>9
    <3>2. 0 * p = 0
      BY <2>2
    <3> QED BY <2>2, <2>3, <2>5, <2>6, <2>9, <3>1, <3>2
  <2> QED BY <2>8, <2>9
<1>5. T \in SUBSET Nat
  OBVIOUS
<1>6. T = Nat
  <2> HIDE DEF T
  <2> QED BY <1>3, <1>4, <1>5, NatSetInduction
<1>7. Prefix(s, k) = n % 2 ^ k
  <2>1. k \in T /\ k <= WordBits
    BY <1>1, <1>6
  <2> QED BY <2>1
<1> HIDE DEF s, T
<1> DEFINE l == s \cap (0 .. k - 1)
<1>8. Num(l) = Prefix(l, k)
  BY NumPrefix
<1>9. Prefix(l, k) = Prefix(s, k)
  BY <1>1, PrefixSame
<1> QED BY <1>2, <1>7, <1>8, <1>9 DEF s

-----------------------------------------------------------------------------
(* Operands: the words of a width, their signs and their flags.            *)

\* The modulus of a width and its half.
LEMMA Moduli ==
  ASSUME NEW w \in Width
  PROVE  /\ 2 ^ SignBit(w) \in Nat \ {0} /\ 2 ^ SignBit(w) >= 2
         /\ 2 ^ Bits(w) = 2 * 2 ^ SignBit(w)
         /\ 2 ^ Bits(w) \div 2 = 2 ^ SignBit(w)
         /\ 2 ^ WordBits \in Nat \ {0}
         /\ w = 8 => 2 ^ Bits(w) = 2 ^ WordBits
         /\ w < 8 => 2 * 2 ^ Bits(w) <= 2 ^ WordBits
<1> DEFINE b == Bits(w)
           h == 2 ^ (b - 1)
<1>1. /\ b \in Nat /\ 2 <= b /\ WordBits \in Nat /\ SignBit(w) = b - 1
      /\ w < 8 => 2 * b <= WordBits
      /\ w = 8 => b = WordBits
  BY Sizes
<1> HIDE DEF b
<1>2. b - 1 \in Nat /\ (b - 1) + 1 = b
  BY <1>1
<1>3. 2 ^ b = 2 * h /\ h \in Nat /\ h > b - 1
  <2>1. 2 ^ ((b - 1) + 1) = 2 * 2 ^ (b - 1) /\ 2 ^ (b - 1) > b - 1
    BY <1>2, PowerStep, PowerExceeds
  <2>2. 2 ^ (b - 1) \in Nat
    BY <1>2, PowerStep
  <2> QED BY <1>2, <2>1, <2>2
<1> HIDE DEF h
<1>4. h \in Nat \ {0} /\ h >= 2
  BY <1>1, <1>3
<1>5. (2 * h) \div 2 = h
  BY <1>4
<1>6. 2 ^ WordBits \in Nat \ {0}
  BY <1>1, PowerPositive
<1>7. ASSUME w < 8 PROVE 2 * 2 ^ b <= 2 ^ WordBits
  <2> DEFINE c == WordBits - (b + 1)
             p == 2 ^ (b + 1)
             q == 2 ^ c
  <2>1. c \in Nat /\ b + 1 \in Nat /\ c + (b + 1) = WordBits
    BY <1>1, <1>7
  <2>2. 2 ^ (c + (b + 1)) = q * p /\ p \in Nat /\ q \in Nat /\ q >= 1
    <3> HIDE DEF c
    <3> QED BY <2>1, PowerSum, PowerPositive
  <2>3. p = 2 * 2 ^ b
    BY <1>1, PowerStep
  <2> HIDE DEF p, q, c
  <2>4. q * p >= p
    BY <2>2
  <2> QED BY <2>1, <2>2, <2>3, <2>4
<1> QED BY <1>1, <1>3, <1>4, <1>5, <1>6, <1>7 DEF b, h

LEMMA ModulusDivides ==
  ASSUME NEW w \in Width
  PROVE  \E k \in Nat \ {0} : 2 ^ WordBits = k * 2 ^ Bits(w)
<1> DEFINE b == Bits(w)
           c == WordBits - b
<1>1. b \in Nat /\ c \in Nat /\ c + b = WordBits
  BY Sizes
<1> HIDE DEF b, c
<1>2. 2 ^ (c + b) = 2 ^ c * 2 ^ b /\ 2 ^ c \in Nat \ {0}
  BY <1>1, PowerSum, PowerPositive
<1> QED BY <1>1, <1>2 DEF b

LEMMA OperandFacts ==
  ASSUME NEW w \in Width, NEW s \in SUBSET Field(w)
  PROVE  /\ s \in SUBSET Field(8)
         /\ Num(s) \in Nat /\ Num(s) < 2 ^ Bits(w)
         /\ SignBit(w) \in s <=> Num(s) >= 2 ^ SignBit(w)
         /\ Signed(s, w) = Num(s) - IF Num(s) >= 2 ^ SignBit(w) THEN 2 ^ Bits(w) ELSE 0
         /\ s = {} <=> Num(s) = 0
<1> DEFINE k == SignBit(w)
           p == 2 ^ k
           l == Num(s \cap (0 .. k - 1))
           r == Right(s, k)
<1>1. /\ Field(w) = 0 .. k /\ Field(w) \subseteq Field(8) /\ Bits(w) \in 0 .. WordBits
      /\ k \in 0 .. WordBits /\ k \in Nat /\ Field(w) = 0 .. Bits(w) - 1
      /\ 1 \in 0 .. WordBits /\ 0 \in Field(8)
  BY Sizes
<1>2. s \in SUBSET Field(8)
  BY <1>1
<1>3. Num(s) \in Nat /\ Num(s) < 2 ^ Bits(w)
  BY <1>1, NumBound
<1>4. Num(s) = l + p * Num(r)
  BY <1>1, <1>2, NumCut
<1>5. l \in Nat /\ l < p /\ p \in Nat
  <2>1. s \cap (0 .. k - 1) \in SUBSET (0 .. k - 1)
    OBVIOUS
  <2> HIDE DEF k
  <2> QED BY <1>1, <2>1, NumBound, PowerPositive
<1>6. r = IF k \in s THEN {0} ELSE {}
  BY <1>1 DEF Right
<1> HIDE DEF p, l, r
<1>7. k \in s <=> Num(s) >= p
  <2>1. CASE k \in s
    <3>1. Num(r) = 1
      BY <1>1, <1>6, <2>1, NumSingle, PowerZero
    <3> QED BY <1>4, <1>5, <2>1, <3>1
  <2>2. CASE k \notin s
    <3>1. Num(r) = 0
      BY <1>6, <2>2, NumEmpty
    <3>2. p * 0 = 0
      BY <1>5
    <3> QED BY <1>4, <1>5, <2>2, <3>1, <3>2
  <2> QED BY <2>1, <2>2
<1>8. Signed(s, w) = Num(s) - IF Num(s) >= p THEN 2 ^ Bits(w) ELSE 0
  BY <1>7 DEF Signed
<1>9. s = {} <=> Num(s) = 0
  <2>1. Num(s) = 0 => Word(Num(s)) = Word(Num({}))
    BY NumEmpty
  <2> QED BY <1>2, <2>1, NumBits, NumEmpty
<1> QED BY <1>2, <1>3, <1>7, <1>8, <1>9 DEF p

\* A number cut to an operand, and where its sign is.
LEMMA CutFacts ==
  ASSUME NEW w \in Width, NEW n \in Nat
  PROVE  /\ Word(n) \cap Field(w) \in SUBSET Field(w)
         /\ Num(Word(n) \cap Field(w)) = n % 2 ^ Bits(w)
         /\ SignBit(w) \in Word(n) <=> n % 2 ^ Bits(w) >= 2 ^ SignBit(w)
<1>1. /\ Bits(w) \in 0 .. WordBits /\ Field(w) = 0 .. Bits(w) - 1
      /\ SignBit(w) \in Field(w)
  BY Sizes
<1> DEFINE v == Word(n) \cap Field(w)
<1>2. v \in SUBSET Field(w) /\ (SignBit(w) \in Word(n) <=> SignBit(w) \in v)
  BY <1>1
<1>3. Num(v) = n % 2 ^ Bits(w)
  BY <1>1, WordNum
<1> HIDE DEF v
<1>4. SignBit(w) \in v <=> Num(v) >= 2 ^ SignBit(w)
  BY <1>2, OperandFacts
<1> QED BY <1>2, <1>3, <1>4 DEF v

\* What set_zsp() records of a result.
Described(f, w, n) ==
    /\ f.zf <=> n = 0
    /\ f.sf <=> 2 * n >= 2 ^ Bits(w)
    /\ f.pf <=> Cardinality(Word(n % 2 ^ ByteBits)) % 2 = 0

LEMMA ZspExact ==
  ASSUME NEW f \in Flag, NEW w \in Width, NEW v \in SUBSET Field(w)
  PROVE  /\ Zsp(f, v, w) \in Flag
         /\ Zsp(f, v, w).cf = f.cf /\ Zsp(f, v, w).of = f.of
         /\ Described(Zsp(f, v, w), w, Num(v))
<1> DEFINE z == Zsp(f, v, w)
<1>1. ParityOf(v) \in BOOLEAN
  BY DEF ParityOf
<1>2. /\ z \in Flag /\ z.cf = f.cf /\ z.of = f.of
      /\ z.zf = (v = {}) /\ z.sf = (SignBit(w) \in v) /\ z.pf = ParityOf(v)
  <2> DEFINE zero == v = {}
             sign == SignBit(w) \in v
             even == ParityOf(v)
  <2>1. v \cap Field(w) = v
    OBVIOUS
  <2>2. z = [f EXCEPT !.zf = zero, !.sf = sign, !.pf = even]
    BY <2>1, Zenon DEF Zsp
  <2>3. zero \in BOOLEAN /\ sign \in BOOLEAN /\ even \in BOOLEAN
    BY <1>1
  <2> HIDE DEF zero, sign, even, z
  <2>4. z \in Flag /\ z.cf = f.cf /\ z.of = f.of /\ z.zf = zero /\ z.sf = sign /\ z.pf = even
    BY <2>2, <2>3 DEF Flag
  <2> QED BY <2>4, Zenon DEF zero, sign, even
<1>3. v = v \cap Field(w) /\ (v = {} <=> Num(v) = 0)
  BY OperandFacts
<1>4. SignBit(w) \in v <=> 2 * Num(v) >= 2 ^ Bits(w)
  <2> DEFINE h == 2 ^ SignBit(w)
  <2>1. h \in Nat /\ 2 ^ Bits(w) = 2 * h /\ Num(v) \in Nat
    BY Moduli, OperandFacts
  <2>2. SignBit(w) \in v <=> Num(v) >= h
    BY OperandFacts
  <2> HIDE DEF h
  <2> QED BY <2>1, <2>2
<1>5. Word(Num(v) % 2 ^ ByteBits) = v \cap Field(1)
  <2>1. /\ ByteBits \in 0 .. WordBits /\ Field(1) = 0 .. ByteBits - 1
        /\ Field(1) \subseteq Field(w) /\ v \in SUBSET Field(8)
    BY Sizes, OperandFacts
  <2>2. Num(v) % 2 ^ ByteBits = Num(v \cap (0 .. ByteBits - 1))
    BY <2>1, NumCut
  <2>3. v \cap Field(1) \in SUBSET Field(8)
    BY <2>1
  <2> QED BY <2>1, <2>2, <2>3, NumBits
<1>6. ParityOf(v) <=> Cardinality(Word(Num(v) % 2 ^ ByteBits)) % 2 = 0
  BY <1>5 DEF ParityOf
<1> HIDE DEF z
<1>7. Described(z, w, Num(v))
  BY <1>2, <1>3, <1>4, <1>6 DEF Described
<1> QED BY <1>2, <1>7 DEF z

\* write_gpr() puts the low bits of a value in its register and there only.
LEMMA Written ==
  ASSUME NEW file \in [Reg -> SUBSET Field(8)], NEW r \in Reg, NEW w \in Width, NEW v
  PROVE  /\ WriteGpr(file, r, w, v) \in [Reg -> SUBSET Field(8)]
         /\ WriteGpr(file, r, w, v)[r] \cap Field(w) = v \cap Field(w)
         /\ w < 4 => WriteGpr(file, r, w, v)[r] \ Field(w) = file[r] \ Field(w)
         /\ w >= 4 => WriteGpr(file, r, w, v)[r] \subseteq Field(w)
         /\ \A q \in Reg \ {r} : WriteGpr(file, r, w, v)[q] = file[q]
<1> DEFINE new == IF w >= 4 THEN v \cap Field(w)
                  ELSE (file[r] \ Field(w)) \cup (v \cap Field(w))
<1>1. WriteGpr(file, r, w, v) = [file EXCEPT ![r] = new]
  BY DEF WriteGpr
<1>2. Field(w) \subseteq Field(8) /\ w \in Nat
  <2>1. w \in Nat
    BY DEF Width
  <2> QED BY <2>1, Sizes
<1>3. file[r] \in SUBSET Field(8)
  OBVIOUS
<1>4. /\ new \in SUBSET Field(8) /\ new \cap Field(w) = v \cap Field(w)
      /\ w < 4 => new \ Field(w) = file[r] \ Field(w)
      /\ w >= 4 => new \subseteq Field(w)
  <2>1. CASE w >= 4
    BY <1>2, <1>3, <2>1
  <2>2. CASE ~(w >= 4)
    <3>1. new = (file[r] \ Field(w)) \cup (v \cap Field(w))
      BY <2>2
    <3> QED BY <1>2, <1>3, <2>2, <3>1
  <2> QED BY <2>1, <2>2
<1> HIDE DEF new
<1> QED BY <1>1, <1>4

-----------------------------------------------------------------------------
(* alu_add() and alu_sub().                                                *)

\* The signed number of a word that, unsigned, is x, when half the modulus is h.
TwosComplement(x, h) == x - IF x >= h THEN 2 * h ELSE 0

LEMMA SignedTwos ==
  ASSUME NEW w \in Width, NEW s \in SUBSET Field(w)
  PROVE  Signed(s, w) = TwosComplement(Num(s), 2 ^ SignBit(w))
BY OperandFacts, Moduli DEF TwosComplement

\* What a result r says of the number n it should be and the signed number m.
Records(r, w, n, m) ==
    /\ r.value \in SUBSET Field(w)
    /\ r.flags \in Flag
    /\ Num(r.value) = n % 2 ^ Bits(w)
    /\ r.flags.cf <=> n \notin 0 .. 2 ^ Bits(w) - 1
    /\ r.flags.of <=> m \notin -(2 ^ SignBit(w)) .. 2 ^ SignBit(w) - 1
    /\ Described(r.flags, w, n % 2 ^ Bits(w))

One(bit) == IF bit THEN 1 ELSE 0

LEMMA AluAddExact ==
  ASSUME flags \in Flag, NEW w \in Width, NEW a \in SUBSET Field(w), NEW b \in SUBSET Field(w),
         NEW carry \in BOOLEAN
  PROVE  Records(AluAdd(a, b, w, carry), w, Num(a) + Num(b) + One(carry),
                 Signed(a, w) + Signed(b, w) + One(carry))
<1> DEFINE h == 2 ^ SignBit(w)
           d == 2 ^ Bits(w)
           e == 2 ^ WordBits
           x == Num(a)
           y == Num(b)
           c == One(carry)
           sum1 == (x + y) % e
           sum2 == (sum1 + c) % e
           sum == Word(sum2)
           n == x + y + c
           v == n - IF n >= d THEN d ELSE 0
<1>1. /\ h \in Nat /\ h >= 2 /\ d = 2 * h /\ e \in Nat \ {0}
      /\ (w = 8 => d = e) /\ (w < 8 => 2 * d <= e)
  BY Moduli
<1>2. x \in Nat /\ x < d /\ y \in Nat /\ y < d
  BY OperandFacts
<1>3. c \in {0, 1}
  BY DEF One
<1>4. w = 8 \/ w < 8
  BY DEF Width
<1>5. (SignBit(w) \in a <=> x >= h) /\ (SignBit(w) \in b <=> y >= h)
  BY OperandFacts
<1> HIDE DEF h, d, e, x, y, c
<1>6. v \in Nat /\ v < d /\ n \in Nat
  BY <1>1, <1>2, <1>3
<1>7. n % d = v
  <2>1. n = 0 * d + v \/ n = 1 * d + v
    BY <1>1, <1>2, <1>3
  <2> HIDE DEF n, v
  <2>2. (0 * d + v) % d = v /\ (1 * d + v) % d = v
    BY <1>1, <1>6, DivisionUnique
  <2> QED BY <2>1, <2>2
\* The two steps of the sum, each of which may wrap.
<1>8. sum1 = IF x + y >= e THEN x + y - e ELSE x + y
  <2>1. d <= e
    BY <1>1, <1>4
  <2>2. CASE x + y >= e
    <3>1. x + y - e \in Nat /\ x + y - e < e /\ x + y = 1 * e + (x + y - e)
      BY <1>1, <1>2, <2>1, <2>2
    <3> DEFINE r == x + y - e
    <3> HIDE DEF r
    <3>2. (1 * e + r) % e = r
      BY <1>1, <3>1, DivisionUnique DEF r
    <3> QED BY <2>2, <3>1, <3>2 DEF r
  <2>3. CASE ~(x + y >= e)
    <3>1. x + y \in Nat /\ x + y < e
      BY <1>1, <1>2, <2>3
    <3>2. (x + y) % e = x + y
      BY <1>1, <3>1, SmallDividend
    <3> QED BY <2>3, <3>2
  <2> QED BY <2>2, <2>3
<1> HIDE DEF sum1
<1>9. sum1 \in Nat /\ sum1 < e
  <2>1. d <= e
    BY <1>1, <1>4
  <2> QED BY <1>1, <1>2, <1>8, <2>1
<1>10. sum2 = IF sum1 + c >= e THEN sum1 + c - e ELSE sum1 + c
  <2>1. CASE sum1 + c >= e
    <3> DEFINE r == sum1 + c - e
    <3>1. r \in Nat /\ r < e /\ sum1 + c = 1 * e + r
      BY <1>1, <1>3, <1>9, <2>1
    <3> HIDE DEF r
    <3>2. (1 * e + r) % e = r
      BY <1>1, <3>1, DivisionUnique
    <3> QED BY <2>1, <3>1, <3>2 DEF r
  <2>2. CASE ~(sum1 + c >= e)
    <3>1. sum1 + c \in Nat /\ sum1 + c < e
      BY <1>1, <1>3, <1>9, <2>2
    <3>2. (sum1 + c) % e = sum1 + c
      BY <1>1, <3>1, SmallDividend
    <3> QED BY <2>2, <3>2
  <2> QED BY <2>1, <2>2
<1> HIDE DEF sum2
<1>11. sum2 \in Nat /\ sum2 < e
  BY <1>1, <1>3, <1>9, <1>10
<1>12. w < 8 => sum2 = n
  BY <1>1, <1>2, <1>3, <1>8, <1>10
<1>13. w = 8 => sum2 = v /\ (sum1 < x \/ sum2 < sum1 <=> n >= d)
  BY <1>1, <1>2, <1>3, <1>8, <1>10
<1>14. sum2 % d = v
  <2>1. CASE w < 8
    BY <1>7, <1>12, <2>1
  <2>2. CASE w = 8
    <3> HIDE DEF v, n
    <3>1. sum2 = v /\ v < d
      BY <1>6, <1>13, <2>2
    <3>2. v % d = v
      BY <1>1, <1>6, SmallDividend
    <3> QED BY <3>1, <3>2
  <2> QED BY <1>4, <2>1, <2>2
<1> DEFINE value == sum \cap Field(w)
           shifted == Right(sum, Bits(w))
<1>15. value \in SUBSET Field(w) /\ Num(value) = v /\ (SignBit(w) \in sum <=> v >= h)
  BY <1>11, <1>14, CutFacts DEF h, d
<1>16. w < 8 => (shifted # {} <=> n >= d)
  <2> SUFFICES ASSUME w < 8 PROVE shifted # {} <=> n >= d
    OBVIOUS
  <2>1. /\ sum \in SUBSET Field(8) /\ Bits(w) \in 0 .. WordBits /\ WordBits \in 0 .. WordBits
        /\ Field(8) = 0 .. WordBits - 1 /\ 8 \in Width
    <3>1. WordBits \in 0 .. WordBits /\ Bits(w) \in 0 .. WordBits /\ Field(8) = 0 .. WordBits - 1
      BY Sizes
    <3>2. 8 \in Width
      BY DEF Width
    <3> QED BY <1>11, <3>1, <3>2, WordNum
  <2>2. Num(sum) = sum2
    <3>1. Num(sum \cap (0 .. WordBits - 1)) = sum2 % e
      BY <1>11, <2>1, WordNum DEF e
    <3>2. sum \cap (0 .. WordBits - 1) = sum
      BY <2>1
    <3>3. sum2 % e = sum2
      BY <1>1, <1>11, SmallDividend
    <3> QED BY <3>1, <3>2, <3>3
  <2>3. Num(sum) \div d = Num(shifted) /\ shifted \in SUBSET Field(8)
    BY <2>1, NumCut DEF d
  <2>4. shifted = {} <=> Num(shifted) = 0
    BY <2>1, <2>3, OperandFacts
  <2>5. n \div d = 0 <=> n < d
    <3>1. n = 0 * d + v \/ n = 1 * d + v
      BY <1>1, <1>2, <1>3
    <3>2. n < d <=> n = v
      BY <1>1, <1>2, <1>3
    <3> HIDE DEF n, v
    <3>3. (0 * d + v) \div d = 0 /\ (1 * d + v) \div d = 1
      BY <1>1, <1>6, DivisionUnique
    <3>4. 0 * d + v = v /\ 1 * d + v = d + v /\ d + v # v
      BY <1>1, <1>6
    <3> QED BY <3>1, <3>2, <3>3, <3>4
  <2>6. n \in Nat /\ d \in Nat
    BY <1>1, <1>6
  <2> HIDE DEF n, sum, shifted
  <2> QED BY <1>12, <2>2, <2>3, <2>4, <2>5, <2>6
\* The flags.
<1> DEFINE cf == IF w < 8 THEN shifted # {} ELSE sum1 < x \/ sum2 < sum1
           af == Nibble - 1 \in Xor(Xor(a, b), sum)
           of == SignBit(w) \in Xor(a, sum) \ Xor(a, b)
           f == [flags EXCEPT !.cf = cf, !.af = af, !.of = of]
<1>17. cf \in BOOLEAN /\ af \in BOOLEAN /\ of \in BOOLEAN
  <2>1. cf \in BOOLEAN
    <3>1. CASE w < 8
      BY <3>1
    <3>2. CASE ~(w < 8)
      BY <3>2
    <3> QED BY <3>1, <3>2
  <2>2. af \in BOOLEAN
    OBVIOUS
  <2>3. of \in BOOLEAN
    OBVIOUS
  <2> QED BY <2>1, <2>2, <2>3
<1>18. AluAdd(a, b, w, carry) = [value |-> value, flags |-> Zsp(f, value, w)]
  <2>1. c = IF carry THEN 1 ELSE 0
    BY DEF c, One
  <2>2. sum1 = Mod(Num(a) + Num(b))
    BY DEF sum1, Mod, e, x, y
  <2>3. sum2 = Mod(sum1 + IF carry THEN 1 ELSE 0)
    BY <2>1 DEF sum2, Mod, e
  <2> QED BY <2>2, <2>3, Zenon DEF AluAdd, Done, x
<1>19. cf <=> n \notin 0 .. d - 1
  <2>1. n \in Nat /\ (n \notin 0 .. d - 1 <=> n >= d)
    BY <1>1, <1>6
  <2>2. CASE w < 8
    BY <1>16, <2>1, <2>2
  <2>3. CASE w = 8
    <3>1. cf <=> sum1 < x \/ sum2 < sum1
      BY <2>3
    <3> QED BY <1>13, <2>1, <2>3, <3>1
  <2> QED BY <1>4, <2>2, <2>3
<1>20. of <=> Signed(a, w) + Signed(b, w) + c \notin -h .. h - 1
  <2>1. of <=> (x >= h <=> y >= h) /\ ~(x >= h <=> v >= h)
    BY <1>5, <1>15 DEF Xor
  <2>2. Signed(a, w) = TwosComplement(x, h) /\ Signed(b, w) = TwosComplement(y, h)
    BY SignedTwos DEF x, y, h
  <2>3. x < 2 * h /\ y < 2 * h /\ v = x + y + c - IF x + y + c >= 2 * h THEN 2 * h ELSE 0
    BY <1>1, <1>2, <1>3
  <2> HIDE DEF v, of
  <2>4. TwosComplement(x, h) + TwosComplement(y, h) + c \notin -h .. h - 1
            <=> (x >= h <=> y >= h) /\ ~(x >= h <=> v >= h)
    BY <1>1, <1>2, <1>3, <1>6, <2>3 DEF TwosComplement
  <2> QED BY <2>1, <2>2, <2>4
<1> HIDE DEF cf, af, of, value
<1>21. f \in Flag /\ f.cf = cf /\ f.of = of
  BY <1>17 DEF Flag
<1> HIDE DEF f, v, n
<1>22. /\ Zsp(f, value, w) \in Flag /\ Zsp(f, value, w).cf = cf /\ Zsp(f, value, w).of = of
       /\ Described(Zsp(f, value, w), w, v)
  BY <1>15, <1>21, ZspExact
<1> DEFINE r == [value |-> value, flags |-> Zsp(f, value, w)]
           m == Signed(a, w) + Signed(b, w) + c
<1>23. r.value = value /\ r.flags = Zsp(f, value, w)
  OBVIOUS
<1> HIDE DEF r, m
<1>24. Records(r, w, n, m)
  <2>1. of <=> m \notin -h .. h - 1
    BY <1>20 DEF m
  <2> QED BY <1>7, <1>15, <1>19, <1>22, <1>23, <2>1 DEF Records, d, h
<1> QED BY <1>18, <1>24 DEF r, m, n, x, y, c

LEMMA AluSubExact ==
  ASSUME flags \in Flag, NEW w \in Width, NEW a \in SUBSET Field(w), NEW b \in SUBSET Field(w),
         NEW borrow \in BOOLEAN
  PROVE  Records(AluSub(a, b, w, borrow), w, Num(a) - Num(b) - One(borrow),
                 Signed(a, w) - Signed(b, w) - One(borrow))
<1> DEFINE h == 2 ^ SignBit(w)
           d == 2 ^ Bits(w)
           e == 2 ^ WordBits
           x == Num(a)
           y == Num(b)
           c == One(borrow)
           diff1 == (x - y) % e
           diff2 == (diff1 - c) % e
           diff == Word(diff2)
           n == x - y - c
           v == n + IF n < 0 THEN d ELSE 0
<1>1. /\ h \in Nat /\ h >= 2 /\ d = 2 * h /\ e \in Nat \ {0} /\ d \in Nat \ {0}
      /\ (w = 8 => d = e) /\ (w < 8 => 2 * d <= e)
  BY Moduli
<1>2. x \in Nat /\ x < d /\ y \in Nat /\ y < d
  BY OperandFacts
<1>3. c \in {0, 1}
  BY DEF One
<1>4. (w = 8 \/ w < 8) /\ d <= e
  BY <1>1 DEF Width
<1>5. (SignBit(w) \in a <=> x >= h) /\ (SignBit(w) \in b <=> y >= h)
  BY OperandFacts
<1>6. PICK k \in Nat \ {0} : e = k * d
  BY ModulusDivides
<1> HIDE DEF h, d, e, x, y, c
<1>7. v \in Nat /\ v < d /\ n \in Int
  BY <1>1, <1>2, <1>3
<1>8. n % d = v
  <2>1. n = 0 * d + v \/ n = (-1) * d + v
    BY <1>1, <1>2, <1>3
  <2> HIDE DEF n, v
  <2>2. -1 \in Int /\ 0 \in Int
    OBVIOUS
  <2>3. (0 * d + v) % d = v /\ ((-1) * d + v) % d = v
    BY <1>1, <1>7, <2>2, IntDivisionUnique
  <2> QED BY <2>1, <2>3
\* The two steps of the difference.
<1>9. ASSUME NEW i \in Int, -e <= i, i < e PROVE i % e = IF i < 0 THEN i + e ELSE i
  <2>1. CASE i < 0
    <3> DEFINE r == i + e
    <3>1. r \in Nat /\ r < e /\ i = (-1) * e + r /\ -1 \in Int /\ e \in Nat
      BY <1>1, <1>9, <2>1
    <3> HIDE DEF r
    <3>2. ((-1) * e + r) % e = r
      BY <3>1, IntDivisionUnique
    <3> QED BY <2>1, <3>1, <3>2 DEF r
  <2>2. CASE ~(i < 0)
    <3>1. i \in Nat /\ i < e
      BY <1>9, <2>2
    <3>2. i % e = i
      BY <1>1, <3>1, SmallDividend
    <3> QED BY <2>2, <3>2
  <2> QED BY <2>1, <2>2
<1>10. diff1 = IF x < y THEN x - y + e ELSE x - y
  <2> DEFINE i == x - y
  <2>1. i \in Int /\ -e <= i /\ i < e /\ (i < 0 <=> x < y)
    BY <1>1, <1>2, <1>4
  <2> HIDE DEF i
  <2>2. i % e = IF i < 0 THEN i + e ELSE i
    BY <1>9, <2>1
  <2> QED BY <2>1, <2>2 DEF i
<1> HIDE DEF diff1
<1>11. diff1 \in Nat /\ diff1 < e
  BY <1>1, <1>2, <1>4, <1>10
<1>12. diff2 = IF diff1 < c THEN diff1 - c + e ELSE diff1 - c
  <2> DEFINE i == diff1 - c
  <2>1. i \in Int /\ -e <= i /\ i < e /\ (i < 0 <=> diff1 < c)
    BY <1>1, <1>3, <1>11
  <2> HIDE DEF i
  <2>2. i % e = IF i < 0 THEN i + e ELSE i
    BY <1>9, <2>1
  <2> QED BY <2>1, <2>2 DEF i
<1> HIDE DEF diff2
<1>13. diff2 \in Nat /\ (diff2 = n \/ diff2 = n + e) /\ (x < y \/ diff1 < c <=> n < 0)
  BY <1>1, <1>2, <1>3, <1>4, <1>10, <1>11, <1>12
<1>14. diff2 % d = v
  <2> HIDE DEF n, v
  <2>1. (n + k * d) % d = n % d
    <3>1. k \in Int
      BY <1>6
    <3> QED BY <1>1, <1>7, <3>1, IntModMultiple
  <2> QED BY <1>6, <1>8, <1>13, <2>1
<1> DEFINE value == diff \cap Field(w)
<1>15. value \in SUBSET Field(w) /\ Num(value) = v /\ (SignBit(w) \in diff <=> v >= h)
  BY <1>13, <1>14, CutFacts DEF h, d
\* The flags.
<1> DEFINE cf == x < y \/ diff1 < c
           af == Nibble - 1 \in Xor(Xor(a, b), diff)
           of == SignBit(w) \in Xor(a, b) \cap Xor(a, diff)
           f == [flags EXCEPT !.cf = cf, !.af = af, !.of = of]
<1>16. cf \in BOOLEAN /\ af \in BOOLEAN /\ of \in BOOLEAN
  <2>1. cf \in BOOLEAN
    OBVIOUS
  <2>2. af \in BOOLEAN
    OBVIOUS
  <2>3. of \in BOOLEAN
    OBVIOUS
  <2> QED BY <2>1, <2>2, <2>3
<1>17. AluSub(a, b, w, borrow) = [value |-> value, flags |-> Zsp(f, value, w)]
  <2>1. c = IF borrow THEN 1 ELSE 0
    BY DEF c, One
  <2>2. diff1 = Mod(Num(a) - Num(b))
    BY DEF diff1, Mod, e, x, y
  <2>3. diff2 = Mod(diff1 - c)
    BY DEF diff2, Mod, e
  <2> QED BY <2>1, <2>2, <2>3, Zenon DEF AluSub, Done, x, y
<1>18. cf <=> n \notin 0 .. d - 1
  <2>1. n \in Int /\ (n \notin 0 .. d - 1 <=> n < 0)
    BY <1>1, <1>2, <1>3
  <2> QED BY <1>13, <2>1
<1>19. of <=> Signed(a, w) - Signed(b, w) - c \notin -h .. h - 1
  <2>1. of <=> ~(x >= h <=> y >= h) /\ ~(x >= h <=> v >= h)
    BY <1>5, <1>15 DEF Xor
  <2>2. Signed(a, w) = TwosComplement(x, h) /\ Signed(b, w) = TwosComplement(y, h)
    BY SignedTwos DEF x, y, h
  <2>3. x < 2 * h /\ y < 2 * h /\ v = x - y - c + IF x - y - c < 0 THEN 2 * h ELSE 0
    BY <1>1, <1>2, <1>3
  <2> HIDE DEF v, of
  <2>4. TwosComplement(x, h) - TwosComplement(y, h) - c \notin -h .. h - 1
            <=> ~(x >= h <=> y >= h) /\ ~(x >= h <=> v >= h)
    BY <1>1, <1>2, <1>3, <1>7, <2>3 DEF TwosComplement
  <2> QED BY <2>1, <2>2, <2>4
<1> HIDE DEF cf, af, of, value
<1>20. f \in Flag /\ f.cf = cf /\ f.of = of
  BY <1>16 DEF Flag
<1> HIDE DEF f, v, n
<1>21. /\ Zsp(f, value, w) \in Flag /\ Zsp(f, value, w).cf = cf /\ Zsp(f, value, w).of = of
       /\ Described(Zsp(f, value, w), w, v)
  BY <1>15, <1>20, ZspExact
<1> DEFINE r == [value |-> value, flags |-> Zsp(f, value, w)]
           m == Signed(a, w) - Signed(b, w) - c
<1>22. r.value = value /\ r.flags = Zsp(f, value, w)
  OBVIOUS
<1> HIDE DEF r, m
<1>23. Records(r, w, n, m)
  <2>1. of <=> m \notin -h .. h - 1
    BY <1>19 DEF m
  <2> QED BY <1>8, <1>15, <1>18, <1>21, <1>22, <2>1 DEF Records, d, h
<1> QED BY <1>17, <1>23 DEF r, m, n, x, y, c

-----------------------------------------------------------------------------
(* Every instruction: registers stay words, flags flags, and the bits      *)
(* above a narrow operand are kept.                                        *)

LEMMA Executed ==
  ASSUME NEW ops, NEW op, NEW d, NEW s, NEW w, NEW n, Executes(ops, op, d, s, w, n)
  PROVE  /\ op \in ops /\ (op \in Unary => s = d)
         /\ insn' = [op |-> op, d |-> d, s |-> s, w |-> w, n |-> n]
         /\ insn'.op = op /\ insn'.d = d /\ insn'.s = s /\ insn'.w = w /\ insn'.n = n
         /\ before'.regs = regs /\ before'.flags = flags
BY DEF Executes

Kept(file, w) ==
    \A r \in Reg :
        IF w < 4 THEN file[r] \ Field(w) = regs[r] \ Field(w)
        ELSE file[r] = regs[r] \/ file[r] \subseteq Field(w)

LEMMA KeptWrite ==
  ASSUME NEW file \in [Reg -> SUBSET Field(8)], NEW r \in Reg, NEW w \in Width, NEW v,
         Kept(file, w)
  PROVE  /\ WriteGpr(file, r, w, v) \in [Reg -> SUBSET Field(8)]
         /\ Kept(WriteGpr(file, r, w, v), w)
<1> DEFINE new == WriteGpr(file, r, w, v)
<1>1. /\ new \in [Reg -> SUBSET Field(8)]
      /\ w < 4 => new[r] \ Field(w) = file[r] \ Field(w)
      /\ w >= 4 => new[r] \subseteq Field(w)
      /\ \A q \in Reg \ {r} : new[q] = file[q]
  BY Written
<1> HIDE DEF new
<1>2. w < 4 \/ (w >= 4 /\ ~(w < 4))
  BY DEF Width
<1>3. ASSUME NEW q \in Reg
      PROVE  IF w < 4 THEN new[q] \ Field(w) = regs[q] \ Field(w)
             ELSE new[q] = regs[q] \/ new[q] \subseteq Field(w)
  <2>1. IF w < 4 THEN file[q] \ Field(w) = regs[q] \ Field(w)
        ELSE file[q] = regs[q] \/ file[q] \subseteq Field(w)
    BY DEF Kept
  <2>2. CASE q = r
    BY <1>1, <1>2, <2>1, <2>2
  <2>3. CASE q # r
    <3>1. new[q] = file[q]
      BY <1>1, <2>3
    <3> QED BY <2>1, <3>1
  <2> QED BY <2>2, <2>3
<1> QED BY <1>1, <1>3 DEF Kept, new

LEMMA KeptSame ==
  ASSUME NEW w \in Width
  PROVE  Kept(regs, w)
BY DEF Kept

\* What a step leaves: the whole of TypeOK and UpperBits.
Stepped(w, n) ==
    /\ regs' \in [Reg -> SUBSET Field(8)]
    /\ flags' \in Flag
    /\ Kept(regs', w)
    /\ n \in 0 .. WordBits - 1

LEMMA StepWrites ==
  ASSUME TypeOK, NEW d \in Reg, NEW w \in Width, NEW r, Writes(d, w, r), r.flags \in Flag
  PROVE  Stepped(w, 0)
<1>1. regs' = WriteGpr(regs, d, w, r.value) /\ flags' = r.flags
  BY DEF Writes
<1>2. regs \in [Reg -> SUBSET Field(8)] /\ Kept(regs, w)
  BY KeptSame DEF TypeOK
<1>3. regs' \in [Reg -> SUBSET Field(8)] /\ Kept(regs', w)
  BY <1>1, <1>2, KeptWrite
<1>4. 0 \in 0 .. WordBits - 1
  BY Sizes
<1> QED BY <1>1, <1>3, <1>4 DEF Stepped

LEMMA StepSame ==
  ASSUME TypeOK, NEW w \in Width, UNCHANGED regs, flags' \in Flag
  PROVE  Stepped(w, 0)
<1>1. regs \in [Reg -> SUBSET Field(8)] /\ Kept(regs, w)
  BY KeptSame DEF TypeOK
<1>2. 0 \in 0 .. WordBits - 1
  BY Sizes
<1> QED BY <1>1, <1>2 DEF Stepped

\* set_zsp() leaves the other flags.
LEMMA ZspRecords ==
  ASSUME NEW f \in Flag, NEW v, NEW w
  PROVE  Zsp(f, v, w) \in Flag /\ Zsp(f, v, w).cf = f.cf /\ Zsp(f, v, w).of = f.of
<1> DEFINE zero == v \cap Field(w) = {}
           sign == SignBit(w) \in v
           even == ParityOf(v)
<1>1. zero \in BOOLEAN /\ sign \in BOOLEAN
  OBVIOUS
<1>2. even \in BOOLEAN
  BY DEF ParityOf
<1>3. Zsp(f, v, w) = [f EXCEPT !.zf = zero, !.sf = sign, !.pf = even]
  BY Zenon DEF Zsp
<1> HIDE DEF zero, sign, even
<1> QED BY <1>1, <1>2, <1>3 DEF Flag

LEMMA ReadIs ==
  ASSUME NEW r, NEW w \in Width
  PROVE  ReadGpr(r, w) \in SUBSET Field(w) /\ ReadGpr(r, w) = regs[r] \cap Field(w)
BY DEF ReadGpr

LEMMA LogicFlags ==
  ASSUME flags \in Flag, NEW v, NEW w \in Width
  PROVE  AluLogic(v, w).flags \in Flag
<1> DEFINE f == [flags EXCEPT !.cf = FALSE, !.of = FALSE, !.af = FALSE]
<1>1. f \in Flag
  BY DEF Flag
<1> HIDE DEF f
<1>2. Zsp(f, v \cap Field(w), w) \in Flag
  BY <1>1, ZspRecords
<1> QED BY <1>2 DEF AluLogic, Done, f

-----------------------------------------------------------------------------
(* The shifts and rotations: their values, their carries.                  *)

\* A result that records cf, of and, when it shifts, what set_zsp() does.
Shifted(v, w, cf, of) == Done(v, Zsp([flags EXCEPT !.cf = cf, !.of = of], v, w))
Turned(v, cf, of) == Done(v, [flags EXCEPT !.cf = cf, !.of = of])

LEMMA ShiftRecords ==
  ASSUME flags \in Flag, NEW cf \in BOOLEAN, NEW of \in BOOLEAN, NEW v, NEW w
  PROVE  /\ Shifted(v, w, cf, of).value = v
         /\ Shifted(v, w, cf, of).flags \in Flag
         /\ Shifted(v, w, cf, of).flags.cf = cf
         /\ Turned(v, cf, of).value = v
         /\ Turned(v, cf, of).flags \in Flag
         /\ Turned(v, cf, of).flags.cf = cf
<1> DEFINE f == [flags EXCEPT !.cf = cf, !.of = of]
<1>1. f \in Flag /\ f.cf = cf
  BY DEF Flag
<1> HIDE DEF f
<1>2. Zsp(f, v, w) \in Flag /\ Zsp(f, v, w).cf = cf
  BY <1>1, ZspRecords
<1>3. Done(v, f).value = v /\ Done(v, f).flags = f
      /\ Done(v, Zsp(f, v, w)).value = v /\ Done(v, Zsp(f, v, w)).flags = Zsp(f, v, w)
  BY DEF Done
<1>4. Shifted(v, w, cf, of) = Done(v, Zsp(f, v, w)) /\ Turned(v, cf, of) = Done(v, f)
  BY DEF Shifted, Turned, f
<1> QED BY <1>1, <1>2, <1>3, <1>4

LEMMA ShlIs ==
  ASSUME flags \in Flag, NEW a, NEW w \in Width, NEW n
  PROVE  LET r == Shl(a, w, n)
         IN  /\ r.value = IF n <= Bits(w) THEN Left(a, n) \cap Field(w) ELSE {}
             /\ r.flags \in Flag
<1> DEFINE v == IF n <= Bits(w) THEN Left(a, n) \cap Field(w) ELSE {}
           cf == n <= Bits(w) /\ 0 \in Left(a, Bits(w) - n)
           of == cf # (SignBit(w) \in v)
<1>1. cf \in BOOLEAN /\ of \in BOOLEAN
  OBVIOUS
<1>2. Shl(a, w, n) = Shifted(v, w, cf, of)
  BY Zenon DEF Shl, Shifted
<1> HIDE DEF v, cf, of
<1>3. Shl(a, w, n).value = v /\ Shl(a, w, n).flags \in Flag
  BY <1>1, <1>2, ShiftRecords
<1> QED BY <1>3 DEF v

LEMMA ShrIs ==
  ASSUME flags \in Flag, NEW a, NEW w \in Width, NEW n
  PROVE  LET r == Shr(a, w, n)
         IN  /\ r.value = IF n <= Bits(w) THEN Right(a, n) ELSE {}
             /\ r.flags \in Flag
             /\ r.flags.cf = (n <= Bits(w) /\ n - 1 \in a)
<1> DEFINE v == IF n <= Bits(w) THEN Right(a, n) ELSE {}
           cf == n <= Bits(w) /\ n - 1 \in a
           of == SignBit(w) \in a
<1>1. cf \in BOOLEAN /\ of \in BOOLEAN
  OBVIOUS
<1>2. Shr(a, w, n) = Shifted(v, w, cf, of)
  BY Zenon DEF Shr, Shifted
<1> HIDE DEF v, cf, of
<1>3. Shr(a, w, n).value = v /\ Shr(a, w, n).flags \in Flag /\ Shr(a, w, n).flags.cf = cf
  BY <1>1, <1>2, ShiftRecords
<1> QED BY <1>3 DEF v, cf

LEMMA SarIs ==
  ASSUME flags \in Flag, NEW a, NEW w \in Width, NEW n
  PROVE  LET r == Sar(a, w, n)
             e == SignExtend(a, w)
         IN  /\ r.value = (Right(e, n) \cup
                             IF WordBits - 1 \in e THEN WordBits - n .. WordBits - 1 ELSE {})
                          \cap Field(w)
             /\ r.flags \in Flag
             /\ r.flags.cf = (n - 1 \in e)
<1> DEFINE e == SignExtend(a, w)
           v == (Right(e, n) \cup
                   IF WordBits - 1 \in e THEN WordBits - n .. WordBits - 1 ELSE {}) \cap Field(w)
           cf == n - 1 \in e
           of == FALSE
<1>1. cf \in BOOLEAN /\ of \in BOOLEAN
  OBVIOUS
<1>2. Sar(a, w, n) = Shifted(v, w, cf, of)
  BY Zenon DEF Sar, Shifted
<1> HIDE DEF v, cf, of
<1>3. Sar(a, w, n).value = v /\ Sar(a, w, n).flags \in Flag /\ Sar(a, w, n).flags.cf = cf
  BY <1>1, <1>2, ShiftRecords
<1> QED BY <1>3 DEF v, cf

LEMMA RolIs ==
  ASSUME flags \in Flag, NEW a, NEW w \in Width, NEW n
  PROVE  LET r == Rol(a, w, n)
             k == n % Bits(w)
         IN  /\ r.value = IF k = 0 THEN a
                          ELSE (Left(a, k) \cup Right(a, Bits(w) - k)) \cap Field(w)
             /\ r.flags \in Flag
             /\ r.flags.cf = (0 \in r.value)
<1> DEFINE k == n % Bits(w)
           v == IF k = 0 THEN a ELSE (Left(a, k) \cup Right(a, Bits(w) - k)) \cap Field(w)
           cf == 0 \in v
           of == cf # (SignBit(w) \in v)
<1>1. cf \in BOOLEAN /\ of \in BOOLEAN
  OBVIOUS
<1>2. Rol(a, w, n) = Turned(v, cf, of)
  BY Zenon DEF Rol, Turned
<1> HIDE DEF v, cf, of
<1>3. Rol(a, w, n).value = v /\ Rol(a, w, n).flags \in Flag /\ Rol(a, w, n).flags.cf = cf
  BY <1>1, <1>2, ShiftRecords
<1> QED BY <1>3 DEF v, cf

LEMMA RorIs ==
  ASSUME flags \in Flag, NEW a, NEW w \in Width, NEW n
  PROVE  LET r == Ror(a, w, n)
             k == n % Bits(w)
         IN  /\ r.value = IF k = 0 THEN a
                          ELSE (Right(a, k) \cup Left(a, Bits(w) - k)) \cap Field(w)
             /\ r.flags \in Flag
             /\ r.flags.cf = (SignBit(w) \in r.value)
<1> DEFINE k == n % Bits(w)
           v == IF k = 0 THEN a ELSE (Right(a, k) \cup Left(a, Bits(w) - k)) \cap Field(w)
           cf == SignBit(w) \in v
           of == cf # (SignBit(w) - 1 \in v)
<1>1. cf \in BOOLEAN /\ of \in BOOLEAN
  OBVIOUS
<1>2. Ror(a, w, n) = Turned(v, cf, of)
  BY Zenon DEF Ror, Turned
<1> HIDE DEF v, cf, of
<1>3. Ror(a, w, n).value = v /\ Ror(a, w, n).flags \in Flag /\ Ror(a, w, n).flags.cf = cf
  BY <1>1, <1>2, ShiftRecords
<1> QED BY <1>3 DEF v, cf

LEMMA ShldIs ==
  ASSUME flags \in Flag, NEW a, NEW b, NEW w \in Width, NEW n, NEW huge
  PROVE  LET r == Shld(a, b, w, n, huge)
             k == Rest(b, w, n, huge)
         IN  /\ r.value = (Left(a, n) \cup Right(b, k)) \cap Field(w)
             /\ r.flags \in Flag
             /\ r.flags.cf = (0 \in Right(a, k))
<1> DEFINE k == Rest(b, w, n, huge)
           v == (Left(a, n) \cup Right(b, k)) \cap Field(w)
           cf == 0 \in Right(a, k)
           of == cf # (SignBit(w) \in v)
<1>1. cf \in BOOLEAN /\ of \in BOOLEAN
  OBVIOUS
<1>2. Shld(a, b, w, n, huge) = Shifted(v, w, cf, of)
  BY Zenon DEF Shld, Shifted
<1> HIDE DEF v, cf, of
<1>3. /\ Shld(a, b, w, n, huge).value = v /\ Shld(a, b, w, n, huge).flags \in Flag
      /\ Shld(a, b, w, n, huge).flags.cf = cf
  BY <1>1, <1>2, ShiftRecords
<1> QED BY <1>3 DEF v, cf

LEMMA ShrdIs ==
  ASSUME flags \in Flag, NEW a, NEW b, NEW w \in Width, NEW n, NEW huge
  PROVE  LET r == Shrd(a, b, w, n, huge)
         IN  /\ r.value = (Right(a, n) \cup Left(b, Rest(b, w, n, huge))) \cap Field(w)
             /\ r.flags \in Flag
             /\ r.flags.cf = (n - 1 \in a)
<1> DEFINE v == (Right(a, n) \cup Left(b, Rest(b, w, n, huge))) \cap Field(w)
           cf == n - 1 \in a
           of == SignBit(w) \in a
<1>1. cf \in BOOLEAN /\ of \in BOOLEAN
  OBVIOUS
<1>2. Shrd(a, b, w, n, huge) = Shifted(v, w, cf, of)
  BY Zenon DEF Shrd, Shifted
<1> HIDE DEF v, cf, of
<1>3. /\ Shrd(a, b, w, n, huge).value = v /\ Shrd(a, b, w, n, huge).flags \in Flag
      /\ Shrd(a, b, w, n, huge).flags.cf = cf
  BY <1>1, <1>2, ShiftRecords
<1> QED BY <1>3 DEF v, cf

\* Positions turned by k round a ring of len.
Round(s, k, len) == {(i + k) % len : i \in s}

LEMMA ModAdd ==
  ASSUME NEW i \in Int, NEW k \in Int, NEW len \in Nat \ {0}
  PROVE  /\ ((i % len) + k) % len = (i + k) % len
         /\ (i + (k % len)) % len = (i + k) % len
         /\ (i - (k % len)) % len = (i - k) % len
<1> DEFINE q == i \div len
           o == i % len
           u == k \div len
           v == k % len
<1>1. q \in Int /\ o \in Nat /\ i = q * len + o /\ u \in Int /\ v \in Nat /\ k = u * len + v
  BY IntDivision
<1> HIDE DEF q, o, u, v
<1>2. \A x \in Int, m \in Int : (x + m * len) % len = x % len
  BY IntModMultiple
<1>3. (o + k) % len = (i + k) % len
  <2> DEFINE x == o + k
  <2>1. i + k = x + q * len /\ x \in Int
    BY <1>1
  <2> HIDE DEF x
  <2>2. (x + q * len) % len = x % len
    BY <1>1, <1>2, <2>1
  <2> QED BY <2>1, <2>2 DEF x
<1>4. (i + v) % len = (i + k) % len
  <2> DEFINE x == i + v
  <2>1. i + k = x + u * len /\ x \in Int
    BY <1>1
  <2> HIDE DEF x
  <2>2. (x + u * len) % len = x % len
    BY <1>1, <1>2, <2>1
  <2> QED BY <2>1, <2>2 DEF x
<1>5. (i - v) % len = (i - k) % len
  <2>1. PICK m \in Int : m = -u
    BY <1>1
  <2>2. m * len = -(u * len)
    BY <1>1, <2>1
  <2>3. i - k = (i - v) + m * len /\ i - v \in Int
    BY <1>1, <2>2
  <2> QED BY <1>2, <2>3
<1> QED BY <1>3, <1>4, <1>5 DEF o, v

LEMMA RoundTwice ==
  ASSUME NEW s \in SUBSET Int, NEW k \in Int, NEW j \in Int, NEW len \in Nat \ {0}
  PROVE  /\ Round(Round(s, k, len), j, len) = Round(s, k + j, len)
         /\ Round(s, k % len, len) = Round(s, k, len)
         /\ Round(s, -(k % len), len) = Round(s, -k, len)
<1>1. ASSUME NEW i \in s
      PROVE  /\ (((i + k) % len) + j) % len = (i + (k + j)) % len
             /\ (i + (k % len)) % len = (i + k) % len
             /\ (i + -(k % len)) % len = (i + -k) % len
  <2>1. i \in Int /\ i + k \in Int /\ (i + k) + j = i + (k + j) /\ i - k = i + -k
    OBVIOUS
  <2>2. k % len \in Int
    BY IntDivision
  <2>3. i - (k % len) = i + -(k % len)
    BY <2>1, <2>2
  <2>4. /\ (((i + k) % len) + j) % len = ((i + k) + j) % len
        /\ (i + (k % len)) % len = (i + k) % len
        /\ (i - (k % len)) % len = (i - k) % len
    BY <2>1, ModAdd
  <2> QED BY <2>1, <2>3, <2>4
<1>2. Round(s, k % len, len) = Round(s, k, len)
  BY <1>1 DEF Round
<1>3. Round(s, -(k % len), len) = Round(s, -k, len)
  BY <1>1 DEF Round
<1>4. Round(Round(s, k, len), j, len) = Round(s, k + j, len)
  BY <1>1 DEF Round
<1> QED BY <1>2, <1>3, <1>4

\* The operand and, one position above it, the carry.
Ring(value, cf, w) == value \cup IF cf THEN {Bits(w)} ELSE {}
Pairs(w) == [cf : BOOLEAN, value : SUBSET Field(w)]

LEMMA OneTurn ==
  ASSUME NEW w \in Width, NEW p \in Pairs(w)
  PROVE  /\ RclOnce(p, w) \in Pairs(w) /\ RcrOnce(p, w) \in Pairs(w)
         /\ Ring(RclOnce(p, w).value, RclOnce(p, w).cf, w)
               = Round(Ring(p.value, p.cf, w), 1, Bits(w) + 1)
         /\ Ring(RcrOnce(p, w).value, RcrOnce(p, w).cf, w)
               = Round(Ring(p.value, p.cf, w), -1, Bits(w) + 1)
<1> DEFINE b == Bits(w)
           x == p.value
           c == p.cf
           left == (Left(x, 1) \cap Field(w)) \cup IF c THEN {0} ELSE {}
           right == Right(x, 1) \cup IF c THEN {b - 1} ELSE {}
<1>1. /\ b \in Nat /\ 2 <= b /\ Field(w) = 0 .. b - 1 /\ SignBit(w) = b - 1
      /\ Field(w) \subseteq Field(8)
  BY Sizes
<1>2. c \in BOOLEAN /\ x \in SUBSET (0 .. b - 1)
  BY <1>1 DEF Pairs
<1>3. /\ RclOnce(p, w) = [cf |-> b - 1 \in x, value |-> left]
      /\ RcrOnce(p, w) = [cf |-> 0 \in x, value |-> right]
  BY <1>1 DEF RclOnce, RcrOnce
<1> HIDE DEF b, x, c
<1>4. left \in SUBSET Field(w) /\ right \in SUBSET Field(w)
  <2>1. left \in SUBSET Field(w)
    BY <1>1
  <2>2. right \in SUBSET Field(w)
    BY <1>1, <1>2 DEF Right
  <2> QED BY <2>1, <2>2
<1>5. RclOnce(p, w) \in Pairs(w) /\ RcrOnce(p, w) \in Pairs(w)
  BY <1>3, <1>4 DEF Pairs
<1> DEFINE all == Ring(x, c, w)
<1>6. ASSUME NEW i \in 0 .. b
      PROVE  /\ (i + 1) % (b + 1) = IF i = b THEN 0 ELSE i + 1
             /\ (i + -1) % (b + 1) = IF i = 0 THEN b ELSE i - 1
  <2> DEFINE len == b + 1
  <2>1. len \in Nat \ {0} /\ i \in Int /\ i < len
    BY <1>1
  <2>2. (i + 1) % len = IF i = b THEN 0 ELSE i + 1
    <3>1. CASE i = b
      <4>1. i + 1 = 1 * len + 0 /\ 0 < len
        BY <1>1, <3>1
      <4> HIDE DEF len
      <4>2. (1 * len + 0) % len = 0
        BY <2>1, <4>1, DivisionUnique
      <4> QED BY <3>1, <4>1, <4>2
    <3>2. CASE i # b
      <4>1. i + 1 \in Nat /\ i + 1 < len
        BY <1>1, <3>2
      <4> HIDE DEF len
      <4>2. (i + 1) % len = i + 1
        BY <2>1, <4>1, SmallDividend
      <4> QED BY <3>2, <4>2
    <3> QED BY <3>1, <3>2
  <2>3. (i + -1) % len = IF i = 0 THEN b ELSE i - 1
    <3>1. CASE i = 0
      <4>1. i + -1 = (-1) * len + b /\ b < len /\ -1 \in Int
        BY <1>1, <3>1
      <4> HIDE DEF len
      <4>2. ((-1) * len + b) % len = b
        BY <1>1, <2>1, <4>1, IntDivisionUnique
      <4> QED BY <3>1, <4>1, <4>2
    <3>2. CASE i # 0
      <4>1. i - 1 \in Nat /\ i - 1 < len /\ i + -1 = i - 1
        BY <1>1, <3>2
      <4> HIDE DEF len
      <4>2. (i - 1) % len = i - 1
        BY <2>1, <4>1, SmallDividend
      <4> QED BY <3>2, <4>1, <4>2
    <3> QED BY <3>1, <3>2
  <2> QED BY <2>2, <2>3
<1>7. ASSUME NEW i PROVE i \in all <=> i \in x \/ (c /\ i = b)
  BY DEF Ring, b
<1> HIDE DEF all
<1>8. all \in SUBSET (0 .. b)
  <2>1. ASSUME NEW i \in all PROVE i \in 0 .. b
    <3>1. i \in x \/ i = b
      BY <1>7
    <3>2. i \in x => i \in 0 .. b - 1
      BY <1>2
    <3>3. b \in 0 .. b /\ \A j \in 0 .. b - 1 : j \in 0 .. b
      BY <1>1
    <3> HIDE DEF all
    <3> QED BY <3>1, <3>2, <3>3
  <2> QED BY <2>1
<1>9. Ring(left, b - 1 \in x, w) = Round(all, 1, b + 1)
  <2>1. ASSUME NEW j
        PROVE  j \in Ring(left, b - 1 \in x, w)
                 <=> (j - 1 \in x /\ j \in 1 .. b - 1) \/ (c /\ j = 0) \/ (b - 1 \in x /\ j = b)
    <3>1. j \in left <=> (j - 1 \in x /\ j \in 1 .. b - 1) \/ (c /\ j = 0)
      BY <1>1, <1>2 DEF Left
    <3> HIDE DEF left
    <3> QED BY <3>1 DEF Ring, b
  <2>2. ASSUME NEW j
        PROVE  j \in Round(all, 1, b + 1)
                 <=> (j - 1 \in x /\ j \in 1 .. b - 1) \/ (c /\ j = 0) \/ (b - 1 \in x /\ j = b)
    <3>1. j \in Round(all, 1, b + 1) <=> \E i \in all : j = IF i = b THEN 0 ELSE i + 1
      BY <1>6, <1>8 DEF Round
    <3> QED BY <1>1, <1>2, <1>7, <1>8, <3>1
  <2> QED BY <2>1, <2>2
<1>10. Ring(right, 0 \in x, w) = Round(all, -1, b + 1)
  <2>1. ASSUME NEW j
        PROVE  j \in Ring(right, 0 \in x, w)
                 <=> (j + 1 \in x /\ j \in 0 .. b - 2) \/ (c /\ j = b - 1) \/ (0 \in x /\ j = b)
    <3>1. j \in right <=> (j + 1 \in x /\ j \in 0 .. b - 2) \/ (c /\ j = b - 1)
      BY <1>1, <1>2 DEF Right
    <3> HIDE DEF right
    <3> QED BY <3>1 DEF Ring, b
  <2>2. ASSUME NEW j
        PROVE  j \in Round(all, -1, b + 1)
                 <=> (j + 1 \in x /\ j \in 0 .. b - 2) \/ (c /\ j = b - 1) \/ (0 \in x /\ j = b)
    <3>1. j \in Round(all, -1, b + 1) <=> \E i \in all : j = IF i = 0 THEN b ELSE i - 1
      BY <1>6, <1>8 DEF Round
    <3> QED BY <1>1, <1>2, <1>7, <1>8, <3>1
  <2> QED BY <2>1, <2>2
<1>11. /\ RclOnce(p, w).value = left /\ RclOnce(p, w).cf = (b - 1 \in x)
       /\ RcrOnce(p, w).value = right /\ RcrOnce(p, w).cf = (0 \in x)
  BY <1>3
<1> QED BY <1>5, <1>9, <1>10, <1>11 DEF all, x, c, b

\* rcl and rcr make as many turns as the count modulo the ring.
LEMMA RotatedIs ==
  ASSUME flags \in Flag, NEW left \in BOOLEAN, NEW w \in Width, NEW a \in SUBSET Field(w),
         NEW n \in Nat
  PROVE  /\ Rotated(left, a, w, n).value \in SUBSET Field(w)
         /\ Rotated(left, a, w, n).flags \in Flag
         /\ Ring(Rotated(left, a, w, n).value, Rotated(left, a, w, n).flags.cf, w)
               = Round(Ring(a, flags.cf, w), IF left THEN n ELSE -n, Bits(w) + 1)
<1> DEFINE len == Bits(w) + 1
           k == n % len
           S == Pairs(w)
           first == [cf |-> flags.cf, value |-> a]
           Once(p) == IF left THEN RclOnce(p, w) ELSE RcrOnce(p, w)
           Turn(f) == [i \in 0 .. k |-> IF i = 0 THEN first ELSE Once(f[i - 1])]
           turn == CHOOSE f : f = Turn(f)
           step == [q \in (1 .. k) \X S |-> Once(q[2])]
<1>1. len \in Nat \ {0} /\ Bits(w) \in Nat /\ Field(w) = 0 .. Bits(w) - 1
  BY Sizes
<1>2. k \in Nat /\ k < len /\ n \in Int
  <2> HIDE DEF len
  <2> QED BY <1>1, DivModNat
<1>3. first \in S /\ flags.cf \in BOOLEAN
  BY DEF Pairs, Flag
<1>4. ASSUME NEW p \in S PROVE Once(p) \in S
  BY OneTurn
<1> HIDE DEF len, k, first, Once, S
<1>5. step \in [(1 .. k) \X S -> S]
  BY <1>4
<1>6. PICK f : f \in [0 .. k -> S] /\ f[0] = first /\ \A i \in 1 .. k : f[i] = step[<<i, f[i - 1]>>]
  <2> HIDE DEF step
  <2>1. PICK f : IsRecursion(f, S, first, k, step)
    BY <1>2, <1>3, <1>5, RecursionExists
  <2> QED BY <2>1 DEF IsRecursion
<1>7. f = Turn(f)
  <2>1. ASSUME NEW i \in 1 .. k PROVE step[<<i, f[i - 1]>>] = Once(f[i - 1])
    <3>1. i - 1 \in 0 .. k
      BY <1>2
    <3>2. f[i - 1] \in S
      BY <1>6, <3>1
    <3> QED BY <3>2
  <2>2. ASSUME NEW i \in 0 .. k PROVE f[i] = IF i = 0 THEN first ELSE Once(f[i - 1])
    <3>1. CASE i = 0
      BY <1>6, <3>1
    <3>2. CASE i # 0
      <4>1. i \in 1 .. k
        BY <1>2, <3>2
      <4> QED BY <1>6, <2>1, <3>2, <4>1
    <3> QED BY <3>1, <3>2
  <2> QED BY <1>6, <2>2
<1>8. turn = Turn(turn)
  BY <1>7
<1>9. turn[0] = first /\ \A i \in 0 .. k - 1 : turn[i + 1] = Once(turn[i])
  <2>1. \A i \in 0 .. k : turn[i] = IF i = 0 THEN first ELSE Once(turn[i - 1])
    BY <1>8
  <2> HIDE DEF turn
  <2>2. ASSUME NEW i \in 0 .. k - 1 PROVE turn[i + 1] = Once(turn[i])
    <3>1. i + 1 \in 0 .. k /\ i + 1 # 0 /\ (i + 1) - 1 = i
      BY <1>2
    <3> QED BY <2>1, <3>1
  <2>3. 0 \in 0 .. k
    BY <1>2
  <2> QED BY <2>1, <2>2, <2>3
<1> DEFINE last == turn[k]
           top == IF left THEN SignBit(w) ELSE SignBit(w) - 1
           of == IF Turns(n, w) = 0 THEN flags.of ELSE last.cf # (top \in last.value)
           cf == last.cf
           r == Rotated(left, a, w, n)
<1>10. r = Done(last.value, [flags EXCEPT !.cf = cf, !.of = of])
  <2>1. k = Turns(n, w)
    BY DEF k, Turns, len
  <2>2. [flags EXCEPT !.cf = cf, !.of = of]
           = [flags EXCEPT !.cf = cf, !.of = IF Turns(n, w) = 0 THEN @
                                             ELSE cf # (top \in last.value)]
    BY DEF Flag
  <2> QED BY <2>1, <2>2, Zenon DEF Rotated, first, Once, turn
<1> HIDE DEF turn, r
\* After i turns the ring has gone round i positions.
<1> DEFINE d == IF left THEN 1 ELSE -1
           ring0 == Ring(a, flags.cf, w)
           Turned0(i) == /\ turn[i] \in S
                         /\ Ring(turn[i].value, turn[i].cf, w) = Round(ring0, i * d, len)
           T == {i \in Nat : i <= k => Turned0(i)}
<1>11. ring0 \in SUBSET (0 .. len - 1) /\ ring0 \in SUBSET Int
  BY <1>1, <1>3 DEF Ring, len
<1>12. ASSUME NEW p \in S
       PROVE  Ring(Once(p).value, Once(p).cf, w) = Round(Ring(p.value, p.cf, w), d, len)
  BY OneTurn DEF Once, len, S
<1>13. d \in {-1, 1}
  OBVIOUS
<1>14. turn[0].value = a /\ turn[0].cf = flags.cf
  BY <1>9 DEF first
<1> HIDE DEF d
<1>15. 0 \in T
  <2>1. Round(ring0, 0, len) = ring0
    <3>1. ASSUME NEW i \in ring0 PROVE (i + 0) % len = i
      <4>1. i \in Nat /\ i < len /\ i + 0 = i
        BY <1>1, <1>11
      <4>2. i % len = i
        BY <1>1, <4>1, SmallDividend
      <4> QED BY <4>1, <4>2
    <3> HIDE DEF ring0
    <3> QED BY <3>1 DEF Round
  <2>2. 0 * d = 0
    BY <1>13
  <2>3. Ring(turn[0].value, turn[0].cf, w) = ring0
    BY <1>14
  <2> QED BY <1>3, <1>9, <2>1, <2>2, <2>3
<1>16. ASSUME NEW i \in T PROVE i + 1 \in T
  <2> SUFFICES ASSUME i + 1 <= k PROVE Turned0(i + 1)
    OBVIOUS
  <2>1. i \in Nat /\ i \in 0 .. k - 1 /\ Turned0(i)
    BY <1>2
  <2>2. turn[i + 1] = Once(turn[i]) /\ turn[i] \in S
    BY <1>9, <2>1
  <2>3. Ring(turn[i + 1].value, turn[i + 1].cf, w)
           = Round(Ring(turn[i].value, turn[i].cf, w), d, len)
    BY <1>12, <2>2
  <2>4. i * d \in Int /\ d \in Int /\ i * d + d = (i + 1) * d
    BY <1>13, <2>1
  <2>5. Round(Round(ring0, i * d, len), d, len) = Round(ring0, i * d + d, len)
    <3> HIDE DEF ring0
    <3> QED BY <1>1, <1>11, <2>4, RoundTwice
  <2> QED BY <1>4, <2>1, <2>2, <2>3, <2>4, <2>5
<1>17. T \in SUBSET Nat
  OBVIOUS
<1>18. T = Nat
  <2> HIDE DEF T
  <2> QED BY <1>15, <1>16, <1>17, NatSetInduction
<1>19. Turned0(k)
  <2>1. k \in T /\ k <= k
    BY <1>2, <1>18
  <2> QED BY <2>1
<1>20. last \in S /\ Ring(last.value, cf, w) = Round(ring0, k * d, len)
  BY <1>19
<1>21. Round(ring0, k * d, len) = Round(ring0, IF left THEN n ELSE -n, len)
  <2> HIDE DEF ring0
  <2>1. 0 \in Int
    OBVIOUS
  <2>2. Round(ring0, n % len, len) = Round(ring0, n, len)
        /\ Round(ring0, -(n % len), len) = Round(ring0, -n, len)
    BY <1>1, <1>2, <1>11, <2>1, RoundTwice
  <2>3. k * d = IF left THEN k ELSE -k
    <3>1. CASE left
      <4>1. d = 1
        BY <3>1 DEF d
      <4> QED BY <1>2, <3>1, <4>1
    <3>2. CASE ~left
      <4>1. d = -1
        BY <3>2 DEF d
      <4> QED BY <1>2, <3>2, <4>1
    <3> QED BY <3>1, <3>2
  <2> QED BY <2>2, <2>3 DEF k
<1>22. last.value \in SUBSET Field(w) /\ cf \in BOOLEAN
  BY <1>20 DEF Pairs, S
<1>23. of \in BOOLEAN
  <2>1. flags.of \in BOOLEAN /\ (cf # (top \in last.value)) \in BOOLEAN
    BY DEF Flag
  <2> QED BY <2>1
<1> DEFINE v == last.value
<1>24. r = Turned(v, cf, of)
  BY <1>10 DEF Turned
<1> HIDE DEF v, cf, of, last
<1>25. r.value = v /\ r.flags \in Flag /\ r.flags.cf = cf
  BY <1>22, <1>23, <1>24, ShiftRecords
<1> QED BY <1>20, <1>21, <1>22, <1>25 DEF r, v, len

-----------------------------------------------------------------------------
(* The steps, one lemma per action.                                        *)

LEMMA ArithSteps ==
  ASSUME TypeOK, NEW op, NEW d \in Reg, NEW s \in Reg, NEW w \in Width, Arith(op, d, s, w)
  PROVE  Stepped(w, 0)
<1> DEFINE a == ReadGpr(d, w)
           b == ReadGpr(s, w)
           KeepCf(r) == [r EXCEPT !.flags.cf = flags.cf]
           r == CASE op = "add" -> AluAdd(a, b, w, FALSE)
                  [] op = "adc" -> AluAdd(a, b, w, flags.cf)
                  [] op = "sub" -> AluSub(a, b, w, FALSE)
                  [] op = "sbb" -> AluSub(a, b, w, flags.cf)
                  [] op = "inc" -> KeepCf(AluAdd(a, {0}, w, FALSE))
                  [] op = "dec" -> KeepCf(AluSub(a, {0}, w, FALSE))
                  [] op = "neg" -> AluSub({}, a, w, FALSE)
<1>1. flags \in Flag /\ flags.cf \in BOOLEAN
  BY DEF TypeOK, Flag
<1>2. /\ Executes({"add", "adc", "sub", "sbb", "inc", "dec", "neg"}, op, d, s, w, 0)
      /\ Writes(d, w, r)
  BY Zenon DEF Arith
<1>3. a \in SUBSET Field(w) /\ b \in SUBSET Field(w) /\ {0} \in SUBSET Field(w)
      /\ {} \in SUBSET Field(w)
  <2>1. 0 \in Field(w)
    BY Sizes
  <2> QED BY <2>1, ReadIs
<1> HIDE DEF a, b
<1>4. ASSUME NEW x \in SUBSET Field(w), NEW y \in SUBSET Field(w), NEW c \in BOOLEAN
      PROVE  /\ AluAdd(x, y, w, c).flags \in Flag /\ AluSub(x, y, w, c).flags \in Flag
             /\ KeepCf(AluAdd(x, y, w, c)).flags \in Flag
             /\ KeepCf(AluSub(x, y, w, c)).flags \in Flag
  <2>1. AluAdd(x, y, w, c).flags \in Flag /\ AluSub(x, y, w, c).flags \in Flag
    BY <1>1, AluAddExact, AluSubExact DEF Records
  <2>2. ASSUME NEW v, NEW f \in Flag PROVE KeepCf(Done(v, f)).flags \in Flag
    BY <1>1 DEF Flag, Done
  <2>3. \E v, f : AluAdd(x, y, w, c) = Done(v, f)
    BY Zenon DEF AluAdd
  <2>4. \E v, f : AluSub(x, y, w, c) = Done(v, f)
    BY Zenon DEF AluSub
  <2>5. \A v, f : Done(v, f).flags = f
    BY DEF Done
  <2> HIDE DEF KeepCf
  <2> QED BY <2>1, <2>2, <2>3, <2>4, <2>5
<1>5. op \in {"add", "adc", "sub", "sbb", "inc", "dec", "neg"}
  BY <1>2, Executed
<1>6. FALSE \in BOOLEAN
  OBVIOUS
<1> HIDE DEF KeepCf
<1>7. r.flags \in Flag
  <2>1. CASE op = "add"
    <3>1. r = AluAdd(a, b, w, FALSE)
      BY <2>1
    <3> QED BY <1>3, <1>4, <1>6, <3>1
  <2>2. CASE op = "adc"
    <3>1. r = AluAdd(a, b, w, flags.cf)
      BY <2>2
    <3> QED BY <1>1, <1>3, <1>4, <3>1
  <2>3. CASE op = "sub"
    <3>1. r = AluSub(a, b, w, FALSE)
      BY <2>3
    <3> QED BY <1>3, <1>4, <1>6, <3>1
  <2>4. CASE op = "sbb"
    <3>1. r = AluSub(a, b, w, flags.cf)
      BY <2>4
    <3> QED BY <1>1, <1>3, <1>4, <3>1
  <2>5. CASE op = "inc"
    <3>1. r = KeepCf(AluAdd(a, {0}, w, FALSE))
      BY <2>5
    <3> QED BY <1>3, <1>4, <1>6, <3>1
  <2>6. CASE op = "dec"
    <3>1. r = KeepCf(AluSub(a, {0}, w, FALSE))
      BY <2>6
    <3> QED BY <1>3, <1>4, <1>6, <3>1
  <2>7. CASE op = "neg"
    <3>1. r = AluSub({}, a, w, FALSE)
      BY <2>7
    <3> QED BY <1>3, <1>4, <1>6, <3>1
  <2> HIDE DEF r
  <2> QED BY <1>5, <2>1, <2>2, <2>3, <2>4, <2>5, <2>6, <2>7
<1> HIDE DEF r
<1> QED BY <1>2, <1>7, StepWrites

LEMMA LogicSteps ==
  ASSUME TypeOK, NEW op, NEW d \in Reg, NEW s \in Reg, NEW w \in Width, Logic(op, d, s, w)
  PROVE  Stepped(w, 0)
<1> DEFINE a == ReadGpr(d, w)
           b == ReadGpr(s, w)
           r == CASE op = "and" -> AluLogic(a \cap b, w)
                  [] op = "or"  -> AluLogic(a \cup b, w)
                  [] op = "xor" -> AluLogic(Xor(a, b), w)
                  [] op = "not" -> Done(Field(w) \ a, flags)
<1>1. flags \in Flag
  BY DEF TypeOK
<1>2. Executes({"and", "or", "xor", "not"}, op, d, s, w, 0) /\ Writes(d, w, r)
  BY Zenon DEF Logic
<1>3. op \in {"and", "or", "xor", "not"}
  BY <1>2, Executed
<1>4. \A v : AluLogic(v, w).flags \in Flag
  BY <1>1, LogicFlags
<1>5. Done(Field(w) \ a, flags).flags = flags
  BY DEF Done
<1>6. r.flags \in Flag
  <2>1. CASE op = "and"
    <3>1. r = AluLogic(a \cap b, w)
      BY <2>1
    <3> QED BY <1>4, <3>1
  <2>2. CASE op = "or"
    <3>1. r = AluLogic(a \cup b, w)
      BY <2>2
    <3> QED BY <1>4, <3>1
  <2>3. CASE op = "xor"
    <3>1. r = AluLogic(Xor(a, b), w)
      BY <2>3
    <3> QED BY <1>4, <3>1
  <2>4. CASE op = "not"
    <3>1. r = Done(Field(w) \ a, flags)
      BY <2>4
    <3> QED BY <1>1, <1>5, <3>1
  <2> HIDE DEF r
  <2> QED BY <1>3, <2>1, <2>2, <2>3, <2>4
<1> HIDE DEF r
<1> QED BY <1>2, <1>6, StepWrites

LEMMA CompareSteps ==
  ASSUME TypeOK, NEW op, NEW d \in Reg, NEW s \in Reg, NEW w \in Width, Compare(op, d, s, w)
  PROVE  Stepped(w, 0)
<1> DEFINE a == ReadGpr(d, w)
           b == ReadGpr(s, w)
<1>1. flags \in Flag
  BY DEF TypeOK
<1>2. /\ flags' = (IF op = "cmp" THEN AluSub(a, b, w, FALSE) ELSE AluLogic(a \cap b, w)).flags
      /\ UNCHANGED regs
  BY DEF Compare
<1>3. a \in SUBSET Field(w) /\ b \in SUBSET Field(w) /\ FALSE \in BOOLEAN
  BY ReadIs
<1> HIDE DEF a, b
<1>4. AluSub(a, b, w, FALSE).flags \in Flag /\ AluLogic(a \cap b, w).flags \in Flag
  BY <1>1, <1>3, AluSubExact, LogicFlags DEF Records
<1>5. flags' \in Flag
  BY <1>2, <1>4
<1> QED BY <1>2, <1>5, StepSame

\* A masked count is below the word.
LEMMA MaskedBound ==
  ASSUME NEW count \in Nat, NEW w \in Width
  PROVE  /\ Masked(count, w) \in Nat /\ Masked(count, w) \in 0 .. WordBits - 1
<1> DEFINE v == IF w = 8 THEN 8 ELSE 4
           m == Bits(v)
<1>1. v \in Width
  BY DEF Width
<1>2. m \in Nat \ {0} /\ m <= WordBits /\ WordBits \in Nat
  BY <1>1, Sizes
<1>3. Masked(count, w) = count % m
  BY DEF Masked
<1> HIDE DEF m
<1>4. count % m \in Nat /\ count % m < m
  BY <1>2, DivModNat
<1> QED BY <1>2, <1>3, <1>4

LEMMA ShiftSteps ==
  ASSUME TypeOK, NEW op, NEW d \in Reg, NEW w \in Width, NEW count \in Nat,
         Shift(op, d, w, count)
  PROVE  Stepped(w, Masked(count, w))
<1> DEFINE a == ReadGpr(d, w)
           n == Masked(count, w)
           r == CASE op = "shl" -> Shl(a, w, n)
                  [] op = "shr" -> Shr(a, w, n)
                  [] op = "sar" -> Sar(a, w, n)
                  [] op = "rol" -> Rol(a, w, n)
                  [] op = "ror" -> Ror(a, w, n)
                  [] op = "rcl" -> Rotated(TRUE, a, w, n)
                  [] op = "rcr" -> Rotated(FALSE, a, w, n)
<1>1. flags \in Flag
  BY DEF TypeOK
<1>2. /\ Executes({"shl", "shr", "sar", "rol", "ror", "rcl", "rcr"}, op, d, d, w, n)
      /\ IF n = 0 THEN UNCHANGED <<regs, flags>> ELSE Writes(d, w, r)
  BY Zenon DEF Shift
<1>3. op \in {"shl", "shr", "sar", "rol", "ror", "rcl", "rcr"}
  BY <1>2, Executed
<1>4. n \in Nat /\ n \in 0 .. WordBits - 1
  BY MaskedBound
<1>5. a \in SUBSET Field(w) /\ TRUE \in BOOLEAN /\ FALSE \in BOOLEAN
  BY ReadIs
<1> HIDE DEF a, n
<1>6. r.flags \in Flag
  <2>1. /\ Shl(a, w, n).flags \in Flag /\ Shr(a, w, n).flags \in Flag
        /\ Sar(a, w, n).flags \in Flag
    BY <1>1, ShlIs, ShrIs, SarIs, Zenon
  <2>2. Rol(a, w, n).flags \in Flag /\ Ror(a, w, n).flags \in Flag
    BY <1>1, RolIs, RorIs, Zenon
  <2>3. Rotated(TRUE, a, w, n).flags \in Flag /\ Rotated(FALSE, a, w, n).flags \in Flag
    BY <1>1, <1>4, <1>5, RotatedIs
  <2> QED BY <1>3, <2>1, <2>2, <2>3
<1> HIDE DEF r
<1>7. CASE n = 0
  <2>1. UNCHANGED regs /\ flags' \in Flag
    BY <1>1, <1>2, <1>7
  <2>2. Stepped(w, 0)
    BY <2>1, StepSame
  <2> QED BY <1>7, <2>2 DEF n
<1>8. CASE n # 0
  <2>1. Stepped(w, 0)
    BY <1>2, <1>6, <1>8, StepWrites
  <2> QED BY <1>4, <2>1 DEF Stepped, n
<1> QED BY <1>7, <1>8

LEMMA DoubleShiftSteps ==
  ASSUME TypeOK, NEW op, NEW d \in Reg, NEW s \in Reg, NEW w \in Width, NEW count \in Nat,
         DoubleShift(op, d, s, w, count)
  PROVE  Stepped(w, Masked(count, w))
<1> DEFINE a == ReadGpr(d, w)
           b == ReadGpr(s, w)
           n == Masked(count, w)
           r(huge) == IF op = "shld" THEN Shld(a, b, w, n, huge) ELSE Shrd(a, b, w, n, huge)
<1>1. flags \in Flag
  BY DEF TypeOK
<1>2. IF n = 0 THEN UNCHANGED <<regs, flags>> ELSE \E huge \in BOOLEAN : Writes(d, w, r(huge))
  BY Zenon DEF DoubleShift
<1>3. n \in 0 .. WordBits - 1
  BY MaskedBound
<1> HIDE DEF a, b, n
<1>4. ASSUME NEW huge \in BOOLEAN PROVE r(huge).flags \in Flag
  <2>1. Shld(a, b, w, n, huge).flags \in Flag /\ Shrd(a, b, w, n, huge).flags \in Flag
    BY <1>1, ShldIs, ShrdIs, Zenon
  <2> QED BY <2>1
<1> HIDE DEF r
<1>5. CASE n = 0
  <2>1. UNCHANGED regs /\ flags' \in Flag
    BY <1>1, <1>2, <1>5
  <2>2. Stepped(w, 0)
    BY <2>1, StepSame
  <2> QED BY <1>5, <2>2 DEF n
<1>6. CASE n # 0
  <2>1. PICK huge \in BOOLEAN : Writes(d, w, r(huge))
    BY <1>2, <1>6
  <2>2. Stepped(w, 0)
    BY <1>4, <2>1, StepWrites
  <2> QED BY <1>3, <2>2 DEF Stepped, n
<1> QED BY <1>5, <1>6

LEMMA BitTestSteps ==
  ASSUME TypeOK, NEW op, NEW d \in Reg, NEW s \in Reg, NEW w \in Width, BitTest(op, d, s, w)
  PROVE  Stepped(w, 0)
<1> DEFINE a == ReadGpr(d, w)
           pos == Num(ReadGpr(s, w)) % Bits(w)
           cf == pos \in a
           f == [flags EXCEPT !.cf = cf]
           v == CASE op = "bts" -> a \cup {pos}
                  [] op = "btr" -> a \ {pos}
                  [] op = "btc" -> Xor(a, {pos})
           r == Done(v, f)
<1>1. IF op = "bt" THEN flags' = f /\ UNCHANGED regs ELSE Writes(d, w, r)
  BY Zenon DEF BitTest
<1>2. cf \in BOOLEAN /\ flags \in Flag
  BY DEF TypeOK
<1> HIDE DEF cf
<1>3. f \in Flag
  BY <1>2 DEF Flag
<1> HIDE DEF f, v
<1>4. r.flags \in Flag
  BY <1>3 DEF Done
<1> HIDE DEF r
<1>5. CASE op = "bt"
  BY <1>1, <1>3, <1>5, StepSame
<1>6. CASE op # "bt"
  BY <1>1, <1>4, <1>6, StepWrites
<1> QED BY <1>5, <1>6

LEMMA ScanSteps ==
  ASSUME TypeOK, NEW op, NEW d \in Reg, NEW s \in Reg, NEW w \in Width, Scan(op, d, s, w)
  PROVE  Stepped(w, 0)
<1> DEFINE b == ReadGpr(s, w)
           n == IF b = {} THEN Bits(w)
                ELSE CASE op \in {"bsf", "tzcnt"} -> Trailing(b)
                       [] op = "bsr"   -> Bits(w) - 1 - Leading(b, w)
                       [] op = "lzcnt" -> Leading(b, w)
           e == b = {}
           z == n = 0
           p == ParityOf(Word(n))
           f1 == [flags EXCEPT !.zf = TRUE]
           f2 == [flags EXCEPT !.zf = FALSE]
           f3 == [flags EXCEPT !.cf = e, !.of = FALSE, !.zf = z, !.sf = FALSE, !.pf = p]
<1>1. \/ flags' = f1 /\ UNCHANGED regs
      \/ Writes(d, w, Done(Word(n), f2))
      \/ Writes(d, w, Done(Word(n), f3))
  BY Zenon DEF Scan
<1>2. flags \in Flag
  BY DEF TypeOK
<1>3. e \in BOOLEAN /\ z \in BOOLEAN
  OBVIOUS
<1>4. p \in BOOLEAN
  BY DEF ParityOf
<1> HIDE DEF e, z, p, n
<1>5. f1 \in Flag /\ f2 \in Flag
  BY <1>2 DEF Flag
<1>6. f3 \in Flag
  BY <1>2, <1>3, <1>4 DEF Flag
<1> HIDE DEF f1, f2, f3
<1>7. \A v, f : Done(v, f).flags = f
  BY DEF Done
<1>8. CASE flags' = f1 /\ UNCHANGED regs
  BY <1>5, <1>8, StepSame
<1>9. ASSUME NEW f \in Flag, Writes(d, w, Done(Word(n), f)) PROVE Stepped(w, 0)
  <2> DEFINE r == Done(Word(n), f)
  <2>1. r.flags \in Flag /\ Writes(d, w, r)
    BY <1>7, <1>9
  <2> HIDE DEF r
  <2> QED BY <2>1, StepWrites
<1> QED BY <1>1, <1>5, <1>6, <1>8, <1>9

\* Two registers written, or one of two.
LEMMA StepTwice ==
  ASSUME TypeOK, NEW d \in Reg, NEW s \in Reg, NEW w \in Width, NEW x, NEW y,
         regs' = WriteGpr(WriteGpr(regs, d, w, x), s, w, y), flags' \in Flag
  PROVE  Stepped(w, 0)
<1>1. regs \in [Reg -> SUBSET Field(8)] /\ Kept(regs, w)
  BY KeptSame DEF TypeOK
<1> DEFINE one == WriteGpr(regs, d, w, x)
<1>2. one \in [Reg -> SUBSET Field(8)] /\ Kept(one, w)
  BY <1>1, KeptWrite
<1> HIDE DEF one
<1>3. WriteGpr(one, s, w, y) \in [Reg -> SUBSET Field(8)] /\ Kept(WriteGpr(one, s, w, y), w)
  BY <1>2, KeptWrite
<1>4. 0 \in 0 .. WordBits - 1
  BY Sizes
<1> QED BY <1>3, <1>4 DEF Stepped, one

LEMMA StepOnce ==
  ASSUME TypeOK, NEW d \in Reg, NEW w \in Width, NEW v,
         regs' = WriteGpr(regs, d, w, v), flags' \in Flag
  PROVE  Stepped(w, 0)
<1>1. regs \in [Reg -> SUBSET Field(8)] /\ Kept(regs, w)
  BY KeptSame DEF TypeOK
<1>2. WriteGpr(regs, d, w, v) \in [Reg -> SUBSET Field(8)] /\ Kept(WriteGpr(regs, d, w, v), w)
  BY <1>1, KeptWrite
<1>3. 0 \in 0 .. WordBits - 1
  BY Sizes
<1> QED BY <1>2, <1>3 DEF Stepped

LEMMA ExchangeSteps ==
  ASSUME TypeOK, NEW op, NEW d \in Reg, NEW s \in Reg, NEW w \in Width, Exchange(op, d, s, w)
  PROVE  Stepped(w, 0)
<1> DEFINE a == ReadGpr(d, w)
           b == ReadGpr(s, w)
           r == IF op = "xadd" THEN AluAdd(a, b, w, FALSE) ELSE Done(b, flags)
<1>1. regs' = WriteGpr(WriteGpr(regs, d, w, r.value), s, w, a) /\ flags' = r.flags
  BY Zenon DEF Exchange
<1>2. a \in SUBSET Field(w) /\ b \in SUBSET Field(w) /\ FALSE \in BOOLEAN /\ flags \in Flag
  BY ReadIs DEF TypeOK
<1> HIDE DEF a, b
<1>3. AluAdd(a, b, w, FALSE).flags \in Flag
  BY <1>2, AluAddExact DEF Records
<1>4. Done(b, flags).flags = flags
  BY DEF Done
<1>5. r.flags \in Flag
  BY <1>2, <1>3, <1>4
<1> HIDE DEF r
<1> QED BY <1>1, <1>5, StepTwice

LEMMA CmpXchgSteps ==
  ASSUME TypeOK, NEW op, NEW d \in Reg, NEW s \in Reg, NEW w \in Width, CmpXchg(op, d, s, w)
  PROVE  Stepped(w, 0)
<1> DEFINE a == ReadGpr(d, w)
           x == ReadGpr("rax", w)
           r == AluSub(x, a, w, FALSE)
<1>1. /\ regs' = IF r.flags.zf THEN WriteGpr(regs, d, w, ReadGpr(s, w))
                 ELSE WriteGpr(regs, "rax", w, a)
      /\ flags' = r.flags
  BY Zenon DEF CmpXchg
<1>2. a \in SUBSET Field(w) /\ x \in SUBSET Field(w) /\ FALSE \in BOOLEAN /\ flags \in Flag
  BY ReadIs DEF TypeOK
<1> HIDE DEF a, x
<1>3. r.flags \in Flag
  BY <1>2, AluSubExact DEF Records
<1> HIDE DEF r
<1>4. "rax" \in Reg /\ flags' \in Flag
  BY <1>1, <1>3 DEF Reg
<1>5. CASE r.flags.zf
  <2>1. regs' = WriteGpr(regs, d, w, ReadGpr(s, w))
    BY <1>1, <1>5
  <2> QED BY <1>4, <2>1, StepOnce
<1>6. CASE ~r.flags.zf
  <2>1. regs' = WriteGpr(regs, "rax", w, a)
    BY <1>1, <1>6
  <2> QED BY <1>4, <2>1, StepOnce
<1> QED BY <1>5, <1>6

LEMMA NarrowCount ==
  ASSUME NEW n \in Width, NEW w, Stepped(w, 0)
  PROVE  Stepped(w, n)
<1>1. n \in 1 .. 8
  BY DEF Width
<1>2. WordBits \in Nat /\ 16 <= WordBits
  BY Sizes
<1> QED BY <1>1, <1>2 DEF Stepped

LEMMA MoveSignedSteps ==
  ASSUME TypeOK, NEW op, NEW d \in Reg, NEW s \in Reg, NEW w \in Width, NEW n \in Width,
         MoveSigned(op, d, s, w, n)
  PROVE  Stepped(w, n)
<1>1. regs' = WriteGpr(regs, d, w, SignExtend(ReadGpr(s, n), n)) /\ flags' = flags
  BY DEF MoveSigned, Writes, Done
<1>2. flags' \in Flag
  BY <1>1 DEF TypeOK
<1>3. Stepped(w, 0)
  BY <1>1, <1>2, StepOnce
<1> QED BY <1>3, NarrowCount

LEMMA ByteSwapSteps ==
  ASSUME TypeOK, NEW op, NEW d \in Reg, NEW s \in Reg, NEW w \in Width, ByteSwap(op, d, s, w)
  PROVE  Stepped(w, 0)
<1> DEFINE v == {WordBits - ByteBits - i + 2 * (i % ByteBits) : i \in ReadGpr(d, w)}
<1>1. regs' = WriteGpr(regs, d, w, v) /\ flags' = flags
  BY DEF ByteSwap, Writes, Done
<1> HIDE DEF v
<1>2. flags' \in Flag
  BY <1>1 DEF TypeOK
<1> QED BY <1>1, <1>2, StepOnce

LEMMA WidenSteps ==
  ASSUME TypeOK, NEW op, NEW d \in Reg, NEW s \in Reg, NEW w \in Width, NEW n \in Width,
         Widen(op, d, s, w, n)
  PROVE  Stepped(w, n)
<1> DEFINE top == IF SignBit(w) \in regs["rax"] THEN Field(w) ELSE {}
<1>1. Executes({"cwde", "cdq"}, op, d, s, w, n) /\ flags' = flags
  BY DEF Widen
<1>2. op \in {"cwde", "cdq"}
  BY <1>1, Executed
<1>3. \E r \in Reg : \E v : regs' = WriteGpr(regs, r, w, v)
  <2>1. "rax" \in Reg /\ "rdx" \in Reg
    BY DEF Reg
  <2>2. CASE op = "cwde"
    <3>1. regs' = WriteGpr(regs, "rax", w, SignExtend(ReadGpr("rax", n), n))
      BY <2>2 DEF Widen
    <3> QED BY <2>1, <3>1
  <2>3. CASE op = "cdq"
    <3>1. regs' = WriteGpr(regs, "rdx", w, top)
      BY <2>3 DEF Widen
    <3> QED BY <2>1, <3>1
  <2> QED BY <1>2, <2>2, <2>3
<1>4. PICK r \in Reg : \E v : regs' = WriteGpr(regs, r, w, v)
  BY <1>3
<1>5. flags' \in Flag
  BY <1>1 DEF TypeOK
<1>6. Stepped(w, 0)
  BY <1>4, <1>5, StepOnce
<1> QED BY <1>6, NarrowCount

LEMMA ConditionalSteps ==
  ASSUME TypeOK, NEW op, NEW d \in Reg, NEW s \in Reg, NEW w \in Width, NEW cc, NEW negated,
         Conditional(op, d, s, w, cc, negated)
  PROVE  Stepped(w, 0)
<1> DEFINE bit == IF Holds(cc, negated) THEN {0} ELSE {}
<1>1. /\ flags' = flags
      /\ \/ w = 1 /\ regs' = WriteGpr(regs, d, 1, bit)
         \/ regs' = IF Holds(cc, negated) THEN WriteGpr(regs, d, w, ReadGpr(s, w)) ELSE regs
  BY DEF Conditional
<1>2. flags' \in Flag
  BY <1>1 DEF TypeOK
<1> HIDE DEF bit
<1>3. CASE w = 1 /\ regs' = WriteGpr(regs, d, 1, bit)
  BY <1>2, <1>3, StepOnce
<1>4. CASE regs' = WriteGpr(regs, d, w, ReadGpr(s, w))
  BY <1>2, <1>4, StepOnce
<1>5. CASE regs' = regs
  BY <1>2, <1>5, StepSame
<1> QED BY <1>1, <1>3, <1>4, <1>5

\* A step runs one instruction.
LEMMA Steps ==
  ASSUME TypeOK, Next
  PROVE  /\ \E w \in Width : insn' # NoInsn /\ insn'.w = w /\ Stepped(w, insn'.n)
         /\ before'.regs = regs /\ before'.flags = flags
<1>1. PICK op \in Ops, d \in Reg, s \in Reg, w \in Width :
           \/ Arith(op, d, s, w)
           \/ Logic(op, d, s, w)
           \/ Compare(op, d, s, w)
           \/ \E count \in Counts : Shift(op, d, w, count)
           \/ \E count \in Counts : DoubleShift(op, d, s, w, count)
           \/ BitTest(op, d, s, w)
           \/ Scan(op, d, s, w)
           \/ Exchange(op, d, s, w)
           \/ CmpXchg(op, d, s, w)
           \/ \E n \in Width : MoveSigned(op, d, s, w, n)
           \/ \E n \in Width : Widen(op, d, s, w, n)
           \/ ByteSwap(op, d, s, w)
           \/ \E cc \in Conditions, negated \in BOOLEAN : Conditional(op, d, s, w, cc, negated)
  BY DEF Next
<1>2. ASSUME NEW ops, NEW t, NEW n, Executes(ops, op, d, t, w, n), Stepped(w, n)
      PROVE  /\ \E v \in Width : insn' # NoInsn /\ insn'.w = v /\ Stepped(v, insn'.n)
             /\ before'.regs = regs /\ before'.flags = flags
  <2>1. /\ insn'.op = op /\ insn'.w = w /\ insn'.n = n
        /\ before'.regs = regs /\ before'.flags = flags
    BY <1>2, Executed
  <2>2. op # "none"
    BY DEF Ops
  <2>3. insn' # NoInsn
    BY <2>1, <2>2 DEF NoInsn
  <2> QED BY <1>2, <2>1, <2>3
<1>3. CASE Arith(op, d, s, w)
  BY <1>2, <1>3, ArithSteps DEF Arith
<1>4. CASE Logic(op, d, s, w)
  BY <1>2, <1>4, LogicSteps DEF Logic
<1>5. CASE Compare(op, d, s, w)
  BY <1>2, <1>5, CompareSteps DEF Compare
<1>6. CASE \E count \in Counts : Shift(op, d, w, count)
  <2>1. PICK count \in Nat : Shift(op, d, w, count)
    BY <1>6, CountsAssumption
  <2>2. Stepped(w, Masked(count, w))
    BY <2>1, ShiftSteps
  <2>3. Executes({"shl", "shr", "sar", "rol", "ror", "rcl", "rcr"}, op, d, d, w, Masked(count, w))
    BY <2>1 DEF Shift
  <2> QED BY <1>2, <2>2, <2>3
<1>7. CASE \E count \in Counts : DoubleShift(op, d, s, w, count)
  <2>1. PICK count \in Nat : DoubleShift(op, d, s, w, count)
    BY <1>7, CountsAssumption
  <2>2. Stepped(w, Masked(count, w))
    BY <2>1, DoubleShiftSteps
  <2>3. Executes({"shld", "shrd"}, op, d, s, w, Masked(count, w))
    BY <2>1 DEF DoubleShift
  <2> QED BY <1>2, <2>2, <2>3
<1>8. CASE BitTest(op, d, s, w)
  BY <1>2, <1>8, BitTestSteps DEF BitTest
<1>9. CASE Scan(op, d, s, w)
  BY <1>2, <1>9, ScanSteps DEF Scan
<1>10. CASE Exchange(op, d, s, w)
  BY <1>2, <1>10, ExchangeSteps DEF Exchange
<1>11. CASE CmpXchg(op, d, s, w)
  BY <1>2, <1>11, CmpXchgSteps DEF CmpXchg
<1>12. CASE \E n \in Width : Widen(op, d, s, w, n)
  BY <1>2, <1>12, WidenSteps DEF Widen
<1>13. CASE \E cc \in Conditions, negated \in BOOLEAN : Conditional(op, d, s, w, cc, negated)
  BY <1>2, <1>13, ConditionalSteps DEF Conditional
<1>14. CASE \E n \in Width : MoveSigned(op, d, s, w, n)
  BY <1>2, <1>14, MoveSignedSteps DEF MoveSigned
<1>15. CASE ByteSwap(op, d, s, w)
  BY <1>2, <1>15, ByteSwapSteps DEF ByteSwap
<1> QED BY <1>1, <1>3, <1>4, <1>5, <1>6, <1>7, <1>8, <1>9, <1>10, <1>11, <1>12, <1>13, <1>14,
           <1>15

LEMMA TypeInvariant ==
  /\ Init => TypeOK
  /\ TypeOK /\ [Next]_vars => TypeOK'
<1>1. Init => TypeOK
  <2> SUFFICES ASSUME Init PROVE TypeOK
    OBVIOUS
  <2>1. regs \in [Reg -> SUBSET Field(8)]
    BY WordsAssumption DEF Init
  <2>2. flags \in Flag
    BY DEF Init, Flag
  <2>3. insn = NoInsn
    BY DEF Init
  <2> QED BY <2>1, <2>2, <2>3 DEF TypeOK
<1>2. TypeOK /\ [Next]_vars => TypeOK'
  <2> SUFFICES ASSUME TypeOK, [Next]_vars PROVE TypeOK'
    OBVIOUS
  <2>1. CASE Next
    <3>1. PICK w \in Width : Stepped(w, insn'.n)
      BY <2>1, Steps
    <3> QED BY <3>1 DEF Stepped, TypeOK
  <2>2. CASE UNCHANGED vars
    BY <2>2 DEF TypeOK, vars
  <2> QED BY <2>1, <2>2
<1> QED BY <1>1, <1>2

\* Registers stay words, flags flags, and no count reaches the word, on every
\* path of every instruction.
THEOREM AluTypeCorrect == Spec => []TypeOK
<1> QED BY TypeInvariant, PTL DEF Spec

\* No instruction touches the bits above a narrow operand, and a 32-bit one
\* leaves nothing above what it writes (write_gpr(), the sub-register rule).
THEOREM UpperBitsKept == Spec => []UpperBits
<1> DEFINE IInv == TypeOK /\ UpperBits
<1>1. Init => IInv
  BY TypeInvariant DEF Init, UpperBits
<1>2. IInv /\ [Next]_vars => IInv'
  <2> SUFFICES ASSUME TypeOK, UpperBits, [Next]_vars PROVE UpperBits'
    BY TypeInvariant
  <2>1. CASE Next
    <3>1. PICK w \in Width : insn'.w = w /\ Stepped(w, insn'.n)
      BY <2>1, Steps
    <3>2. before'.regs = regs
      BY <2>1, Steps
    <3> QED BY <3>1, <3>2 DEF Stepped, Kept, UpperBits
  <2>2. CASE UNCHANGED vars
    BY <2>2 DEF UpperBits, vars
  <2> QED BY <2>1, <2>2
<1>3. IInv => UpperBits
  OBVIOUS
<1> QED BY <1>1, <1>2, <1>3, PTL DEF Spec

-----------------------------------------------------------------------------
(* Addition, subtraction and comparison.                                   *)

ArithOps == {"add", "adc", "sub", "sbb", "inc", "dec", "neg"}
ShiftOps == {"shl", "shr", "sar", "rol", "ror", "rcl", "rcr"}

\* The action an instruction was executed by.
LEMMA Runs ==
  ASSUME Next
  PROVE  /\ insn'.op \in ArithOps =>
               \E d \in Reg, s \in Reg, w \in Width : Arith(insn'.op, d, s, w)
         /\ insn'.op \in {"cmp", "test"} =>
               \E d \in Reg, s \in Reg, w \in Width : Compare(insn'.op, d, s, w)
         /\ insn'.op \in ShiftOps =>
               \E d \in Reg, w \in Width, count \in Nat : Shift(insn'.op, d, w, count)
         /\ insn'.op \in {"shld", "shrd"} =>
               \E d \in Reg, s \in Reg, w \in Width, count \in Nat :
                  DoubleShift(insn'.op, d, s, w, count)
         /\ insn'.op \in {"bsf", "bsr", "tzcnt", "lzcnt"} =>
               \E d \in Reg, s \in Reg, w \in Width : Scan(insn'.op, d, s, w)
         /\ insn'.op = "movsx" =>
               \E d \in Reg, s \in Reg, w \in Width, n \in Width : MoveSigned("movsx", d, s, w, n)
         /\ insn'.op \in {"cwde", "cdq"} =>
               \E d \in Reg, s \in Reg, w \in Width, n \in Width : Widen(insn'.op, d, s, w, n)
<1>1. PICK op \in Ops, d \in Reg, s \in Reg, w \in Width :
           \/ Arith(op, d, s, w)
           \/ Logic(op, d, s, w)
           \/ Compare(op, d, s, w)
           \/ \E count \in Counts : Shift(op, d, w, count)
           \/ \E count \in Counts : DoubleShift(op, d, s, w, count)
           \/ BitTest(op, d, s, w)
           \/ Scan(op, d, s, w)
           \/ Exchange(op, d, s, w)
           \/ CmpXchg(op, d, s, w)
           \/ \E n \in Width : MoveSigned(op, d, s, w, n)
           \/ \E n \in Width : Widen(op, d, s, w, n)
           \/ ByteSwap(op, d, s, w)
           \/ \E cc \in Conditions, negated \in BOOLEAN : Conditional(op, d, s, w, cc, negated)
  BY DEF Next
<1>2. CASE Arith(op, d, s, w)
  <2>1. insn'.op = op /\ op \in ArithOps
    BY <1>2, Executed DEF Arith, ArithOps
  <2> QED BY <1>2, <2>1 DEF ArithOps, ShiftOps
<1>3. CASE Logic(op, d, s, w)
  <2>1. insn'.op = op /\ op \in {"and", "or", "xor", "not"}
    BY <1>3, Executed DEF Logic
  <2> QED BY <2>1 DEF ArithOps, ShiftOps
<1>4. CASE Compare(op, d, s, w)
  <2>1. insn'.op = op /\ op \in {"cmp", "test"}
    BY <1>4, Executed DEF Compare
  <2> QED BY <1>4, <2>1 DEF ArithOps, ShiftOps
<1>5. CASE \E count \in Counts : Shift(op, d, w, count)
  <2>1. PICK count \in Nat : Shift(op, d, w, count)
    BY <1>5, CountsAssumption
  <2>2. insn'.op = op /\ op \in ShiftOps
    BY <2>1, Executed DEF Shift, ShiftOps
  <2> QED BY <2>1, <2>2 DEF ArithOps, ShiftOps
<1>6. CASE \E count \in Counts : DoubleShift(op, d, s, w, count)
  <2>1. PICK count \in Nat : DoubleShift(op, d, s, w, count)
    BY <1>6, CountsAssumption
  <2>2. insn'.op = op /\ op \in {"shld", "shrd"}
    BY <2>1, Executed DEF DoubleShift
  <2> QED BY <2>1, <2>2 DEF ArithOps, ShiftOps
<1>7. CASE BitTest(op, d, s, w)
  <2>1. insn'.op = op /\ op \in {"bt", "bts", "btr", "btc"}
    BY <1>7, Executed DEF BitTest
  <2> QED BY <2>1 DEF ArithOps, ShiftOps
<1>8. CASE Scan(op, d, s, w)
  <2>1. insn'.op = op /\ op \in {"bsf", "bsr", "tzcnt", "lzcnt"}
    BY <1>8, Executed DEF Scan
  <2> QED BY <1>8, <2>1 DEF ArithOps, ShiftOps
<1>9. CASE Exchange(op, d, s, w)
  <2>1. insn'.op = op /\ op \in {"xchg", "xadd"}
    BY <1>9, Executed DEF Exchange
  <2> QED BY <2>1 DEF ArithOps, ShiftOps
<1>10. CASE CmpXchg(op, d, s, w)
  <2>1. insn'.op = op /\ op \in {"cmpxchg"}
    BY <1>10, Executed DEF CmpXchg
  <2> QED BY <2>1 DEF ArithOps, ShiftOps
<1>11. CASE \E n \in Width : Widen(op, d, s, w, n)
  <2>1. PICK n \in Width : Widen(op, d, s, w, n)
    BY <1>11
  <2>2. insn'.op = op /\ op \in {"cwde", "cdq"}
    BY <2>1, Executed DEF Widen
  <2> QED BY <2>1, <2>2 DEF ArithOps, ShiftOps
<1>12. CASE \E cc \in Conditions, negated \in BOOLEAN : Conditional(op, d, s, w, cc, negated)
  <2>1. insn'.op = op /\ op \in {"setcc", "cmovcc"}
    BY <1>12, Executed DEF Conditional
  <2> QED BY <2>1 DEF ArithOps, ShiftOps
<1>13. CASE \E n \in Width : MoveSigned(op, d, s, w, n)
  <2>1. PICK n \in Width : MoveSigned(op, d, s, w, n)
    BY <1>13
  <2>2. insn'.op = op /\ op = "movsx"
    BY <2>1, Executed DEF MoveSigned
  <2> QED BY <2>1, <2>2 DEF ArithOps, ShiftOps
<1>14. CASE ByteSwap(op, d, s, w)
  <2>1. insn'.op = op /\ op = "bswap"
    BY <1>14, Executed DEF ByteSwap
  <2> QED BY <2>1 DEF ArithOps, ShiftOps
<1> QED BY <1>1, <1>2, <1>3, <1>4, <1>5, <1>6, <1>7, <1>8, <1>9, <1>10, <1>11, <1>12, <1>13, <1>14

\* ArithExact of an instruction op of operands a and b that found the flags f0
\* and left the value v and the flags f.
Wanted(op, x, y, c) ==
    CASE op = "add" -> x + y
      [] op = "adc" -> x + y + c
      [] op \in {"sub", "cmp"} -> x - y
      [] op = "sbb" -> x - y - c
      [] op = "inc" -> x + 1
      [] op = "dec" -> x - 1
      [] op = "neg" -> -x
ArithHolds(op, a, b, w, f0, v, f) ==
    LET modulus  == 2 ^ Bits(w)
        unsigned == Wanted(op, Num(a), Num(b), One(f0.cf))
        signed   == Wanted(op, Signed(a, w), Signed(b, w), One(f0.cf))
        wrapped  == unsigned % modulus
    IN  /\ op # "cmp" => Num(v) = wrapped
        /\ f.cf = IF op \in {"inc", "dec"} THEN f0.cf ELSE unsigned \notin 0 .. modulus - 1
        /\ f.of <=> signed \notin -(modulus \div 2) .. modulus \div 2 - 1
        /\ f.zf <=> wrapped = 0
        /\ f.sf <=> 2 * wrapped >= modulus
        /\ f.pf <=> Cardinality(Word(wrapped % 2 ^ ByteBits)) % 2 = 0

\* A recorded result is what ArithExact asks of it.
LEMMA RecordsHold ==
  ASSUME NEW op \in ArithOps \cup {"cmp"}, NEW a, NEW b, NEW w \in Width, NEW f0 \in Flag,
         NEW v, NEW f \in Flag, NEW r,
         Records(r, w, Wanted(op, Num(a), Num(b), One(f0.cf)),
                 Wanted(op, Signed(a, w), Signed(b, w), One(f0.cf))),
         op # "cmp" => v = r.value,
         op \notin {"inc", "dec"} => f = r.flags,
         op \in {"inc", "dec"} => f = [r.flags EXCEPT !.cf = f0.cf]
  PROVE  ArithHolds(op, a, b, w, f0, v, f)
<1> DEFINE modulus == 2 ^ Bits(w)
           n == Wanted(op, Num(a), Num(b), One(f0.cf))
           m == Wanted(op, Signed(a, w), Signed(b, w), One(f0.cf))
           h == 2 ^ SignBit(w)
           even == Cardinality(Word((n % modulus) % 2 ^ ByteBits)) % 2 = 0
<1>1. modulus \div 2 = h
  BY Moduli
<1>2. /\ r.flags \in Flag
      /\ Num(r.value) = n % modulus
      /\ r.flags.cf <=> n \notin 0 .. modulus - 1
      /\ r.flags.of <=> m \notin -h .. h - 1
      /\ r.flags.zf <=> n % modulus = 0
      /\ r.flags.sf <=> 2 * (n % modulus) >= modulus
      /\ r.flags.pf <=> even
  BY DEF Records, Described
<1>3. /\ f.of = r.flags.of /\ f.zf = r.flags.zf /\ f.sf = r.flags.sf /\ f.pf = r.flags.pf
      /\ f.cf = IF op \in {"inc", "dec"} THEN f0.cf ELSE r.flags.cf
  <2>1. CASE op \in {"inc", "dec"}
    BY <1>2, <2>1 DEF Flag
  <2>2. CASE op \notin {"inc", "dec"}
    BY <2>2
  <2> QED BY <2>1, <2>2
<1>4. r.flags.cf \in BOOLEAN
  BY <1>2 DEF Flag
<1>5. ArithHolds(op, a, b, w, f0, v, f) <=>
        /\ op # "cmp" => Num(v) = n % modulus
        /\ f.cf = IF op \in {"inc", "dec"} THEN f0.cf ELSE n \notin 0 .. modulus - 1
        /\ f.of <=> m \notin -(modulus \div 2) .. modulus \div 2 - 1
        /\ f.zf <=> n % modulus = 0
        /\ f.sf <=> 2 * (n % modulus) >= modulus
        /\ f.pf <=> even
  BY Zenon DEF ArithHolds
<1> HIDE DEF modulus, n, m, h, even
<1>6. op # "cmp" => Num(v) = n % modulus
  BY <1>2
<1>7. f.cf = IF op \in {"inc", "dec"} THEN f0.cf ELSE n \notin 0 .. modulus - 1
  BY <1>2, <1>3, <1>4
<1>8. f.of <=> m \notin -(modulus \div 2) .. modulus \div 2 - 1
  BY <1>1, <1>2, <1>3
<1>9. /\ f.zf <=> n % modulus = 0
      /\ f.sf <=> 2 * (n % modulus) >= modulus
      /\ f.pf <=> even
  BY <1>2, <1>3
<1> QED BY <1>5, <1>6, <1>7, <1>8, <1>9, Zenon

LEMMA SmallOperands ==
  ASSUME NEW w \in Width
  PROVE  /\ {0} \in SUBSET Field(w) /\ Num({0}) = 1 /\ Signed({0}, w) = 1
         /\ {} \in SUBSET Field(w) /\ Num({}) = 0 /\ Signed({}, w) = 0
<1>1. 0 \in Field(w) /\ 0 \in Field(8) /\ SignBit(w) # 0
  BY Sizes
<1>2. Num({0}) = 1 /\ Num({}) = 0
  BY <1>1, NumSingle, NumEmpty, PowerZero
<1> QED BY <1>1, <1>2 DEF Signed

LEMMA WantedIs ==
  ASSUME NEW op, NEW x \in Int, NEW y \in Int, NEW c, NEW zero, zero = 0
  PROVE  /\ op = "add" => Wanted(op, x, y, c) = x + y + zero
         /\ op = "sub" => Wanted(op, x, y, c) = x - y - zero
         /\ op = "inc" => Wanted(op, x, y, c) = x + 1 + zero
         /\ op = "dec" => Wanted(op, x, y, c) = x - 1 - zero
         /\ op = "neg" => Wanted(op, x, y, c) = 0 - x - zero
BY DEF Wanted

\* An arithmetic instruction has the result r.
Computes(op, d, s, w, r) ==
    LET a == ReadGpr(d, w)
        b == ReadGpr(s, w)
        c == One(flags.cf)
    IN  /\ Records(r, w, Wanted(op, Num(a), Num(b), c),
                   Wanted(op, Signed(a, w), Signed(b, w), c))
        /\ regs' = WriteGpr(regs, d, w, r.value)
        /\ op \notin {"inc", "dec"} => flags' = r.flags
        /\ op \in {"inc", "dec"} => flags' = [r.flags EXCEPT !.cf = flags.cf]

LEMMA ArithResult ==
  ASSUME TypeOK, NEW op, NEW d \in Reg, NEW s \in Reg, NEW w \in Width, Arith(op, d, s, w)
  PROVE  \E r : Computes(op, d, s, w, r)
<1> DEFINE a == ReadGpr(d, w)
           b == ReadGpr(s, w)
           KeepCf(r) == [r EXCEPT !.flags.cf = flags.cf]
           r0 == CASE op = "add" -> AluAdd(a, b, w, FALSE)
                  [] op = "adc" -> AluAdd(a, b, w, flags.cf)
                  [] op = "sub" -> AluSub(a, b, w, FALSE)
                  [] op = "sbb" -> AluSub(a, b, w, flags.cf)
                  [] op = "inc" -> KeepCf(AluAdd(a, {0}, w, FALSE))
                  [] op = "dec" -> KeepCf(AluSub(a, {0}, w, FALSE))
                  [] op = "neg" -> AluSub({}, a, w, FALSE)
           x == Num(a)
           y == Num(b)
           i == Signed(a, w)
           j == Signed(b, w)
           c == One(flags.cf)
<1>1. flags \in Flag /\ flags.cf \in BOOLEAN /\ FALSE \in BOOLEAN
  BY DEF TypeOK, Flag
<1>2. Writes(d, w, r0)
  BY Zenon DEF Arith
<1>3. op \in ArithOps
  BY Executed DEF Arith, ArithOps
<1>4. a \in SUBSET Field(w) /\ b \in SUBSET Field(w)
  BY ReadIs
<1> HIDE DEF a, b
<1>5. x \in Nat /\ y \in Nat /\ i \in Int /\ j \in Int /\ c \in Int
  <2>1. x \in Nat /\ y \in Nat
    BY <1>4, OperandFacts
  <2>2. 2 ^ SignBit(w) \in Int /\ 2 ^ Bits(w) \in Int
    BY Moduli
  <2>3. i \in Int /\ j \in Int
    BY <1>4, <2>1, <2>2, OperandFacts
  <2> QED BY <2>1, <2>3 DEF One
<1> DEFINE Good(r) == /\ Records(r, w, Wanted(op, x, y, c), Wanted(op, i, j, c))
                      /\ regs' = WriteGpr(regs, d, w, r.value)
                      /\ op \notin {"inc", "dec"} => flags' = r.flags
                      /\ op \in {"inc", "dec"} => flags' = [r.flags EXCEPT !.cf = flags.cf]
<1>6. One(FALSE) = 0
  BY DEF One
<1>7. ASSUME NEW p \in SUBSET Field(w), NEW q \in SUBSET Field(w), NEW e \in BOOLEAN
      PROVE  /\ Records(AluAdd(p, q, w, e), w, Num(p) + Num(q) + One(e),
                        Signed(p, w) + Signed(q, w) + One(e))
             /\ Records(AluSub(p, q, w, e), w, Num(p) - Num(q) - One(e),
                        Signed(p, w) - Signed(q, w) - One(e))
  BY <1>1, AluAddExact, AluSubExact
<1>8. regs' = WriteGpr(regs, d, w, r0.value) /\ flags' = r0.flags
  BY <1>2 DEF Writes
<1>9. ASSUME NEW r
      PROVE  /\ (\E v, f : r = Done(v, f)) => /\ KeepCf(r).value = r.value
                                              /\ KeepCf(r).flags = [r.flags EXCEPT !.cf = flags.cf]
             /\ r0 = r /\ op \notin {"inc", "dec"}
                /\ Records(r, w, Wanted(op, x, y, c), Wanted(op, i, j, c)) => Good(r)
  <2>1. (\E v, f : r = Done(v, f)) => /\ KeepCf(r).value = r.value
                                      /\ KeepCf(r).flags = [r.flags EXCEPT !.cf = flags.cf]
    BY DEF Done
  <2> HIDE DEF r0, KeepCf, x, y, i, j, c
  <2> QED BY <1>8, <2>1
<1> DEFINE plus == AluAdd(a, {0}, w, FALSE)
           minus == AluSub(a, {0}, w, FALSE)
<1>10. (\E v, f : plus = Done(v, f)) /\ (\E v, f : minus = Done(v, f))
  BY Zenon DEF AluAdd, AluSub
<1>11. \E r : Good(r)
  <2>1. CASE op = "add"
    <3>1. r0 = AluAdd(a, b, w, FALSE)
      BY <2>1
    <3>2. Wanted(op, x, y, c) = x + y + One(FALSE) /\ Wanted(op, i, j, c) = i + j + One(FALSE)
      <4> DEFINE zero == One(FALSE)
      <4> HIDE DEF x, y, i, j, c, zero
      <4>1. zero = 0
        BY <1>6 DEF zero
      <4>2. x \in Int /\ y \in Int /\ i \in Int /\ j \in Int
        BY <1>5
      <4>3. Wanted(op, x, y, c) = x + y + zero /\ Wanted(op, i, j, c) = i + j + zero
        BY <4>1, <4>2, <2>1, WantedIs
      <4> QED BY <4>3, Zenon DEF zero
    <3>3. Records(AluAdd(a, b, w, FALSE), w, x + y + One(FALSE), i + j + One(FALSE))
      BY <1>1, <1>4, <1>7
    <3> HIDE DEF x, y, i, j, c, r0, Good
    <3> QED BY <1>9, <2>1, <3>1, <3>2, <3>3
  <2>2. CASE op = "adc"
    <3>1. r0 = AluAdd(a, b, w, flags.cf)
      BY <2>2
    <3>2. Wanted(op, x, y, c) = x + y + c /\ Wanted(op, i, j, c) = i + j + c
      BY <2>2 DEF Wanted
    <3>3. Records(AluAdd(a, b, w, flags.cf), w, x + y + c, i + j + c)
      BY <1>1, <1>4, <1>7
    <3> HIDE DEF x, y, i, j, c, r0, Good
    <3> QED BY <1>9, <2>2, <3>1, <3>2, <3>3
  <2>3. CASE op = "sub"
    <3>1. r0 = AluSub(a, b, w, FALSE)
      BY <2>3
    <3>2. Wanted(op, x, y, c) = x - y - One(FALSE) /\ Wanted(op, i, j, c) = i - j - One(FALSE)
      <4> DEFINE zero == One(FALSE)
      <4> HIDE DEF x, y, i, j, c, zero
      <4>1. zero = 0
        BY <1>6 DEF zero
      <4>2. x \in Int /\ y \in Int /\ i \in Int /\ j \in Int
        BY <1>5
      <4>3. Wanted(op, x, y, c) = x - y - zero /\ Wanted(op, i, j, c) = i - j - zero
        BY <4>1, <4>2, <2>3, WantedIs
      <4> QED BY <4>3, Zenon DEF zero
    <3>3. Records(AluSub(a, b, w, FALSE), w, x - y - One(FALSE), i - j - One(FALSE))
      BY <1>1, <1>4, <1>7
    <3> HIDE DEF x, y, i, j, c, r0, Good
    <3> QED BY <1>9, <2>3, <3>1, <3>2, <3>3
  <2>4. CASE op = "sbb"
    <3>1. r0 = AluSub(a, b, w, flags.cf)
      BY <2>4
    <3>2. Wanted(op, x, y, c) = x - y - c /\ Wanted(op, i, j, c) = i - j - c
      BY <2>4 DEF Wanted
    <3>3. Records(AluSub(a, b, w, flags.cf), w, x - y - c, i - j - c)
      BY <1>1, <1>4, <1>7
    <3> HIDE DEF x, y, i, j, c, r0, Good
    <3> QED BY <1>9, <2>4, <3>1, <3>2, <3>3
  <2>5. CASE op = "inc"
    <3>1. r0 = KeepCf(plus)
      BY <2>5
    <3>2. Wanted(op, x, y, c) = x + 1 + One(FALSE) /\ Wanted(op, i, j, c) = i + 1 + One(FALSE)
      <4> DEFINE zero == One(FALSE)
      <4> HIDE DEF x, y, i, j, c, zero
      <4>1. zero = 0
        BY <1>6 DEF zero
      <4>2. x \in Int /\ y \in Int /\ i \in Int /\ j \in Int
        BY <1>5
      <4>3. Wanted(op, x, y, c) = x + 1 + zero /\ Wanted(op, i, j, c) = i + 1 + zero
        BY <4>1, <4>2, <2>5, WantedIs
      <4> QED BY <4>3, Zenon DEF zero
    <3>3. Records(plus, w, x + 1 + One(FALSE), i + 1 + One(FALSE))
      <4>1. {0} \in SUBSET Field(w) /\ Num({0}) = 1 /\ Signed({0}, w) = 1
        BY SmallOperands
      <4>2. Records(plus, w, x + Num({0}) + One(FALSE), i + Signed({0}, w) + One(FALSE))
        BY <1>1, <1>4, <1>7, <4>1
      <4> QED BY <4>1, <4>2
    <3> HIDE DEF plus, minus, KeepCf, r0, x, y, i, j, c
    <3>4. regs' = WriteGpr(regs, d, w, plus.value) /\ flags' = [plus.flags EXCEPT !.cf = flags.cf]
      BY <1>8, <1>9, <1>10, <3>1
    <3>5. Good(plus)
      BY <2>5, <3>2, <3>3, <3>4
    <3> QED BY <3>5
  <2>6. CASE op = "dec"
    <3>1. r0 = KeepCf(minus)
      BY <2>6
    <3>2. Wanted(op, x, y, c) = x - 1 - One(FALSE) /\ Wanted(op, i, j, c) = i - 1 - One(FALSE)
      <4> DEFINE zero == One(FALSE)
      <4> HIDE DEF x, y, i, j, c, zero
      <4>1. zero = 0
        BY <1>6 DEF zero
      <4>2. x \in Int /\ y \in Int /\ i \in Int /\ j \in Int
        BY <1>5
      <4>3. Wanted(op, x, y, c) = x - 1 - zero /\ Wanted(op, i, j, c) = i - 1 - zero
        BY <4>1, <4>2, <2>6, WantedIs
      <4> QED BY <4>3, Zenon DEF zero
    <3>3. Records(minus, w, x - 1 - One(FALSE), i - 1 - One(FALSE))
      <4>1. {0} \in SUBSET Field(w) /\ Num({0}) = 1 /\ Signed({0}, w) = 1
        BY SmallOperands
      <4>2. Records(minus, w, x - Num({0}) - One(FALSE), i - Signed({0}, w) - One(FALSE))
        BY <1>1, <1>4, <1>7, <4>1
      <4> QED BY <4>1, <4>2
    <3> HIDE DEF plus, minus, KeepCf, r0, x, y, i, j, c
    <3>4. regs' = WriteGpr(regs, d, w, minus.value)
          /\ flags' = [minus.flags EXCEPT !.cf = flags.cf]
      BY <1>8, <1>9, <1>10, <3>1
    <3>5. Good(minus)
      BY <2>6, <3>2, <3>3, <3>4
    <3> QED BY <3>5
  <2>7. CASE op = "neg"
    <3>1. r0 = AluSub({}, a, w, FALSE)
      BY <2>7
    <3>2. {} \in SUBSET Field(w) /\ Num({}) = 0 /\ Signed({}, w) = 0
      BY SmallOperands
    <3>3. Wanted(op, x, y, c) = 0 - x - One(FALSE) /\ Wanted(op, i, j, c) = 0 - i - One(FALSE)
      <4> DEFINE zero == One(FALSE)
      <4> HIDE DEF x, y, i, j, c, zero
      <4>1. zero = 0
        BY <1>6 DEF zero
      <4>2. x \in Int /\ y \in Int /\ i \in Int /\ j \in Int
        BY <1>5
      <4>3. Wanted(op, x, y, c) = 0 - x - zero /\ Wanted(op, i, j, c) = 0 - i - zero
        BY <4>1, <4>2, <2>7, WantedIs
      <4> QED BY <4>3, Zenon DEF zero
    <3>4. Records(AluSub({}, a, w, FALSE), w, 0 - x - One(FALSE), 0 - i - One(FALSE))
      <4>1. Records(AluSub({}, a, w, FALSE), w, Num({}) - x - One(FALSE),
                    Signed({}, w) - i - One(FALSE))
        BY <1>1, <1>4, <1>7, <3>2
      <4> QED BY <3>2, <4>1
    <3> HIDE DEF x, y, i, j, c, r0, Good
    <3> QED BY <1>9, <2>7, <3>1, <3>3, <3>4
  <2> HIDE DEF Good
  <2> QED BY <1>3, <2>1, <2>2, <2>3, <2>4, <2>5, <2>6, <2>7 DEF ArithOps
<1>12. PICK r : Good(r)
  BY <1>11
<1> HIDE DEF r0
<1>13. Computes(op, d, s, w, r)
  BY <1>12, Zenon DEF Computes, x, y, i, j, c, a, b
<1> QED BY <1>13

\* cmp subtracts and keeps the flags only.
LEMMA CompareResult ==
  ASSUME TypeOK, NEW d \in Reg, NEW s \in Reg, NEW w \in Width, Compare("cmp", d, s, w)
  PROVE  \E r :
            /\ Records(r, w, Wanted("cmp", Num(ReadGpr(d, w)), Num(ReadGpr(s, w)), One(flags.cf)),
                       Wanted("cmp", Signed(ReadGpr(d, w), w), Signed(ReadGpr(s, w), w),
                              One(flags.cf)))
            /\ flags' = r.flags
<1> DEFINE a == ReadGpr(d, w)
           b == ReadGpr(s, w)
           r == AluSub(a, b, w, FALSE)
           x == Num(a)
           y == Num(b)
           i == Signed(a, w)
           j == Signed(b, w)
           c == One(flags.cf)
           zero == One(FALSE)
<1>1. flags' = r.flags
  BY DEF Compare
<1>2. flags \in Flag /\ FALSE \in BOOLEAN
  BY DEF TypeOK
<1>3. a \in SUBSET Field(w) /\ b \in SUBSET Field(w)
  BY ReadIs
<1>4. Records(r, w, x - y - zero, i - j - zero)
  <2> HIDE DEF a, b
  <2> QED BY <1>2, <1>3, AluSubExact
<1>5. zero = 0
  BY DEF One
<1>6. x \in Int /\ y \in Int /\ i \in Int /\ j \in Int
  <2> HIDE DEF a, b
  <2>1. x \in Nat /\ y \in Nat
    BY <1>3, OperandFacts
  <2>2. 2 ^ SignBit(w) \in Int /\ 2 ^ Bits(w) \in Int
    BY Moduli
  <2>3. i \in Int /\ j \in Int
    BY <1>3, <2>1, <2>2, OperandFacts
  <2> QED BY <2>1, <2>3
<1> HIDE DEF r, x, y, i, j, c, zero
<1>7. Wanted("cmp", x, y, c) = x - y /\ Wanted("cmp", i, j, c) = i - j
  BY DEF Wanted
<1>8. Records(r, w, Wanted("cmp", x, y, c), Wanted("cmp", i, j, c))
  BY <1>4, <1>5, <1>6, <1>7
<1> QED BY <1>1, <1>8, Zenon DEF x, y, i, j, c

\* ArithExact after a step.
LEMMA ArithSteps2 ==
  ASSUME TypeOK, Next
  PROVE  ArithExact'
<1> DEFINE ops == {"add", "adc", "sub", "cmp", "sbb", "inc", "dec", "neg"}
           op == insn'.op
<1>1. ArithExact' <=>
        (op \in ops =>
           ArithHolds(op, before'.regs[insn'.d] \cap Field(insn'.w),
                      before'.regs[insn'.s] \cap Field(insn'.w), insn'.w, before'.flags,
                      regs'[insn'.d] \cap Field(insn'.w), flags'))
  BY Zenon DEF ArithExact, ArithHolds, Exact, Wanted, Carry, One, Old, Result
<1>2. /\ before'.regs = regs /\ before'.flags = flags
      /\ flags \in Flag /\ flags' \in Flag /\ regs \in [Reg -> SUBSET Field(8)]
  BY Steps, TypeInvariant DEF TypeOK
<1>3. CASE op \in ArithOps
  <2>1. PICK d \in Reg, s \in Reg, w \in Width : Arith(op, d, s, w)
    BY <1>3, Runs
  <2>2. insn'.d = d /\ insn'.s = s /\ insn'.w = w
    BY <2>1, Executed DEF Arith
  <2> DEFINE a == ReadGpr(d, w)
             b == ReadGpr(s, w)
  <2>3. PICK r : Computes(op, d, s, w, r)
    <3> HIDE DEF op
    <3> QED BY <2>1, ArithResult
  <2>3a. /\ Records(r, w, Wanted(op, Num(a), Num(b), One(flags.cf)),
                    Wanted(op, Signed(a, w), Signed(b, w), One(flags.cf)))
         /\ regs' = WriteGpr(regs, d, w, r.value)
         /\ op \notin {"inc", "dec"} => flags' = r.flags
         /\ op \in {"inc", "dec"} => flags' = [r.flags EXCEPT !.cf = flags.cf]
    BY <2>3, Zenon DEF Computes
  <2>4. regs'[d] \cap Field(w) = r.value
    <3>1. r.value \cap Field(w) = r.value
      BY <2>3a DEF Records
    <3> QED BY <1>2, <2>3a, <3>1, Written
  <2>5. op \in ArithOps \cup {"cmp"}
    BY <1>3
  <2> HIDE DEF a, b, op
  <2>6. ArithHolds(op, a, b, w, flags, r.value, flags')
    BY <1>2, <2>3a, <2>5, RecordsHold
  <2>7. a = regs[d] \cap Field(w) /\ b = regs[s] \cap Field(w)
    BY ReadIs DEF a, b
  <2> QED BY <1>1, <1>2, <2>2, <2>4, <2>6, <2>7
<1>4. CASE op = "cmp"
  <2>1. PICK d \in Reg, s \in Reg, w \in Width : Compare("cmp", d, s, w)
    BY <1>4, Runs
  <2>2. insn'.d = d /\ insn'.s = s /\ insn'.w = w
    BY <2>1, Executed DEF Compare
  <2> DEFINE a == ReadGpr(d, w)
             b == ReadGpr(s, w)
             v == regs'[d] \cap Field(w)
  <2>3. PICK r :
            /\ Records(r, w, Wanted("cmp", Num(a), Num(b), One(flags.cf)),
                       Wanted("cmp", Signed(a, w), Signed(b, w), One(flags.cf)))
            /\ flags' = r.flags
    BY <2>1, CompareResult
  <2> HIDE DEF a, b, v
  <2>4. ArithHolds("cmp", a, b, w, flags, v, flags')
    BY <1>2, <2>3, RecordsHold
  <2>5. a = regs[d] \cap Field(w) /\ b = regs[s] \cap Field(w)
    BY ReadIs DEF a, b
  <2> QED BY <1>1, <1>2, <1>4, <2>2, <2>4, <2>5 DEF v
<1>5. op \in ops => op \in ArithOps \/ op = "cmp"
  BY DEF ArithOps
<1>6. CASE op \notin ops
  BY <1>1, <1>6, Zenon
<1> QED BY <1>3, <1>4, <1>5, <1>6

\* Additions, subtractions and comparisons at every width give the sum or the
\* difference modulo the operand and record its carry, overflow, zero, sign and
\* parity (alu_add(), alu_sub() and their callers in dispatch.cpp).
THEOREM ArithmeticExact == Spec => []ArithExact
<1> DEFINE IInv == TypeOK /\ ArithExact
<1>1. Init => IInv
  <2>1. Init => insn = NoInsn
    BY DEF Init
  <2> QED BY <2>1, TypeInvariant DEF ArithExact, NoInsn
<1>2. IInv /\ [Next]_vars => IInv'
  <2> SUFFICES ASSUME TypeOK, ArithExact, [Next]_vars PROVE ArithExact'
    BY TypeInvariant
  <2>1. CASE UNCHANGED vars
    <3>1. regs' = regs /\ flags' = flags /\ insn' = insn /\ before' = before
      BY <2>1 DEF vars
    <3> QED BY <3>1, Zenon DEF ArithExact, Old, Result, Exact, Carry
  <2> QED BY <2>1, ArithSteps2
<1>3. IInv => ArithExact
  OBVIOUS
<1> QED BY <1>1, <1>2, <1>3, PTL DEF Spec

\* The flags of a difference order the operands, unsigned and signed.
LEMMA FlagsOrder ==
  ASSUME NEW w \in Width, NEW a \in SUBSET Field(w), NEW b \in SUBSET Field(w), NEW r,
         Records(r, w, Num(a) - Num(b), Signed(a, w) - Signed(b, w))
  PROVE  /\ r.flags.zf <=> Num(a) = Num(b)
         /\ r.flags.cf <=> Num(a) < Num(b)
         /\ (r.flags.sf # r.flags.of) <=> Signed(a, w) < Signed(b, w)
         /\ Signed(a, w) = Signed(b, w) <=> Num(a) = Num(b)
         /\ Num(a) \in Nat /\ Num(b) \in Nat /\ Signed(a, w) \in Int /\ Signed(b, w) \in Int
         /\ r.flags.zf \in BOOLEAN /\ r.flags.cf \in BOOLEAN
<1> DEFINE h == 2 ^ SignBit(w)
           d == 2 ^ Bits(w)
           x == Num(a)
           y == Num(b)
           i == Signed(a, w)
           j == Signed(b, w)
           n == x - y
           f == r.flags
<1>1. h \in Nat /\ h >= 2 /\ d = 2 * h
  BY Moduli
<1>2. x \in Nat /\ y \in Nat /\ x < d /\ y < d
  BY OperandFacts
<1>3. i = TwosComplement(x, h) /\ j = TwosComplement(y, h)
  BY SignedTwos
<1>4. /\ f.cf <=> n \notin 0 .. d - 1
      /\ f.of <=> i - j \notin -h .. h - 1
      /\ f.zf <=> n % d = 0
      /\ f.sf <=> 2 * (n % d) >= d
      /\ f.cf \in BOOLEAN /\ f.zf \in BOOLEAN /\ f.sf \in BOOLEAN /\ f.of \in BOOLEAN
  BY DEF Records, Described, Flag
<1> HIDE DEF h, d, x, y, i, j, f
<1>5. n % d = IF n < 0 THEN n + d ELSE n
  <2>1. CASE n < 0
    <3> DEFINE v == n + d
    <3>1. v \in Nat /\ v < d /\ n = (-1) * d + v /\ -1 \in Int /\ d \in Nat
      BY <1>1, <1>2, <2>1
    <3> HIDE DEF v, n
    <3>2. ((-1) * d + v) % d = v
      BY <3>1, IntDivisionUnique
    <3> QED BY <2>1, <3>1, <3>2 DEF v
  <2>2. CASE ~(n < 0)
    <3>1. n \in Nat /\ n < d /\ d \in Nat
      BY <1>1, <1>2, <2>2
    <3> HIDE DEF n
    <3>2. n % d = n
      BY <3>1, SmallDividend
    <3> QED BY <2>2, <3>2
  <2> QED BY <2>1, <2>2
<1>6. f.zf <=> x = y
  BY <1>1, <1>2, <1>4, <1>5
<1>7. f.cf <=> x < y
  BY <1>1, <1>2, <1>4
<1>8. f.sf <=> (IF n < 0 THEN n + d ELSE n) >= h
  <2> DEFINE v == n % d
  <2>1. v \in Nat
    BY <1>1, <1>2, <1>5
  <2>2. f.sf <=> 2 * v >= d
    BY <1>4
  <2>3. v = IF n < 0 THEN n + d ELSE n
    BY <1>5
  <2> HIDE DEF v
  <2> QED BY <1>1, <2>1, <2>2, <2>3
<1>9. (f.sf # f.of) <=> i < j
  <2> DEFINE p == f.sf
             q == f.of
  <2>1. p \in BOOLEAN /\ q \in BOOLEAN
    BY <1>4
  <2>2. p <=> (IF n < 0 THEN n + d ELSE n) >= h
    BY <1>8
  <2>3. q <=> i - j \notin -h .. h - 1
    BY <1>4
  <2> HIDE DEF p, q
  <2>4. i - j \notin -h .. h - 1 <=> i - j < -h \/ i - j >= h
    BY <1>1, <1>2, <1>3 DEF TwosComplement
  <2>5. (p <=> ~q) <=> i < j
    BY <1>1, <1>2, <1>3, <2>2, <2>3, <2>4 DEF TwosComplement
  <2>6. (p # q) <=> (p <=> ~q)
    BY <2>1
  <2> QED BY <2>5, <2>6 DEF p, q
<1>10. i = j <=> x = y
  BY <1>1, <1>2, <1>3 DEF TwosComplement
<1>11. i \in Int /\ j \in Int
  BY <1>1, <1>2, <1>3 DEF TwosComplement
<1> QED BY <1>2, <1>4, <1>6, <1>7, <1>9, <1>10, <1>11 DEF x, y, i, j, f

LEMMA CompareSteps2 ==
  ASSUME TypeOK, Next
  PROVE  ConditionsCompare'
<1> SUFFICES ASSUME insn'.op = "cmp" PROVE ConditionsCompare'
  BY DEF ConditionsCompare
<1>1. PICK d \in Reg, s \in Reg, w \in Width : Compare("cmp", d, s, w)
  BY Runs
<1>2. insn'.d = d /\ insn'.s = s /\ insn'.w = w
  BY <1>1, Executed DEF Compare
<1> DEFINE a == ReadGpr(d, w)
           b == ReadGpr(s, w)
           x == Num(a)
           y == Num(b)
           i == Signed(a, w)
           j == Signed(b, w)
<1>3. PICK r :
        /\ Records(r, w, Wanted("cmp", x, y, One(flags.cf)), Wanted("cmp", i, j, One(flags.cf)))
        /\ flags' = r.flags
  BY <1>1, CompareResult
<1>4. a \in SUBSET Field(w) /\ b \in SUBSET Field(w)
      /\ a = before'.regs[d] \cap Field(w) /\ b = before'.regs[s] \cap Field(w)
  <2>1. before'.regs = regs
    BY Steps
  <2> QED BY <2>1, ReadIs
<1> HIDE DEF a, b
<1>5. Records(r, w, x - y, i - j)
  <2> DEFINE c == One(flags.cf)
  <2>1. Records(r, w, Wanted("cmp", x, y, c), Wanted("cmp", i, j, c))
    BY <1>3
  <2> HIDE DEF x, y, i, j, c
  <2>2. Wanted("cmp", x, y, c) = x - y /\ Wanted("cmp", i, j, c) = i - j
    BY DEF Wanted
  <2> QED BY <2>1, <2>2
<1>6. /\ r.flags.zf <=> x = y
      /\ r.flags.cf <=> x < y
      /\ (r.flags.sf # r.flags.of) <=> i < j
      /\ i = j <=> x = y
      /\ x \in Nat /\ y \in Nat /\ i \in Int /\ j \in Int
      /\ r.flags.zf \in BOOLEAN /\ r.flags.cf \in BOOLEAN
  BY <1>4, <1>5, FlagsOrder
<1>7. /\ Condition("e")' = flags'.zf /\ Condition("b")' = flags'.cf
      /\ Condition("be")' = (flags'.cf \/ flags'.zf)
      /\ Condition("l")' = (flags'.sf # flags'.of)
      /\ Condition("le")' = (flags'.zf \/ flags'.sf # flags'.of)
  BY DEF Condition
<1> HIDE DEF x, y, i, j
<1>8. /\ Condition("e")'  <=> x = y
      /\ Condition("b")'  <=> x < y
      /\ Condition("be")' <=> x <= y
      /\ Condition("l")'  <=> i < j
      /\ Condition("le")' <=> i <= j
  <2> DEFINE zf == r.flags.zf
             cf == r.flags.cf
             lt == r.flags.sf # r.flags.of
  <2>1. /\ Condition("e")' = zf /\ Condition("b")' = cf
        /\ Condition("be")' = (cf \/ zf) /\ Condition("l")' = lt /\ Condition("le")' = (zf \/ lt)
    BY <1>3, <1>7
  <2>2. (zf <=> x = y) /\ (cf <=> x < y) /\ (lt <=> i < j)
    BY <1>6
  <2>3. (x <= y <=> x < y \/ x = y) /\ (i <= j <=> i < j \/ i = j)
    BY <1>6
  <2> HIDE DEF zf, cf, lt
  <2> QED BY <1>6, <2>1, <2>2, <2>3, Zenon
<1> QED BY <1>2, <1>4, <1>8, Zenon DEF ConditionsCompare, Old, x, y, i, j

\* What a conditional instruction decides from the flags of cmp is what its
\* name says of the operands (condition(), alu_sub()).
THEOREM ConditionsExact == Spec => []ConditionsCompare
<1> DEFINE IInv == TypeOK /\ ConditionsCompare
<1>1. Init => IInv
  <2>1. Init => insn = NoInsn
    BY DEF Init
  <2> QED BY <2>1, TypeInvariant DEF ConditionsCompare, NoInsn
<1>2. IInv /\ [Next]_vars => IInv'
  <2> SUFFICES ASSUME TypeOK, ConditionsCompare, [Next]_vars PROVE ConditionsCompare'
    BY TypeInvariant
  <2>1. CASE UNCHANGED vars
    <3>1. regs' = regs /\ flags' = flags /\ insn' = insn /\ before' = before
      BY <2>1 DEF vars
    <3> QED BY <3>1, Zenon DEF ConditionsCompare, Old, Condition
  <2> QED BY <2>1, CompareSteps2
<1>3. IInv => ConditionsCompare
  OBVIOUS
<1> QED BY <1>1, <1>2, <1>3, PTL DEF Spec

-----------------------------------------------------------------------------
(* Shifts divide and multiply.                                             *)

LEMMA NumFull ==
  ASSUME NEW k \in 0 .. WordBits
  PROVE  Num(0 .. k - 1) = 2 ^ k - 1
<1> DEFINE T == {i \in Nat : i <= WordBits => Num(0 .. i - 1) = 2 ^ i - 1}
<1>1. WordBits \in Nat /\ Field(8) = 0 .. WordBits - 1
  BY Sizes DEF Width
<1>2. 0 \in T
  <2>1. 0 .. 0 - 1 = {}
    OBVIOUS
  <2> QED BY <2>1, NumEmpty, PowerZero
<1>3. ASSUME NEW i \in T PROVE i + 1 \in T
  <2> SUFFICES ASSUME i + 1 <= WordBits PROVE Num(0 .. (i + 1) - 1) = 2 ^ (i + 1) - 1
    OBVIOUS
  <2>1. i \in Nat /\ i \in Field(8) /\ Num(0 .. i - 1) = 2 ^ i - 1
    BY <1>1
  <2> DEFINE l == 0 .. i - 1
  <2>2. /\ 0 .. (i + 1) - 1 = l \cup {i} /\ l \cap {i} = {}
        /\ l \in SUBSET Field(8) /\ {i} \in SUBSET Field(8)
    BY <1>1, <2>1
  <2> HIDE DEF l
  <2>3. Num(l \cup {i}) = Num(l) + Num({i})
    BY <2>2, NumUnion
  <2>4. Num({i}) = 2 ^ i /\ 2 ^ (i + 1) = 2 * 2 ^ i /\ 2 ^ i \in Nat
    BY <2>1, NumSingle, PowerStep
  <2>5. Num(l) = 2 ^ i - 1
    BY <2>1 DEF l
  <2> DEFINE p == 2 ^ i
  <2> HIDE DEF p
  <2>6. Num({i}) = p /\ 2 ^ (i + 1) = 2 * p /\ p \in Nat /\ Num(l) = p - 1
    BY <2>4, <2>5 DEF p
  <2>7. Num(0 .. (i + 1) - 1) = Num(l) + Num({i})
    BY <2>2, <2>3
  <2> QED BY <2>6, <2>7
<1>4. T \in SUBSET Nat
  OBVIOUS
<1>5. T = Nat
  <2> HIDE DEF T
  <2> QED BY <1>2, <1>3, <1>4, NatSetInduction
<1>6. k \in T /\ k <= WordBits
  <2> HIDE DEF T
  <2> QED BY <1>1, <1>5
<1> QED BY <1>6

LEMMA ShlNumber ==
  ASSUME NEW w \in Width, NEW a \in SUBSET Field(w), NEW n \in 1 .. Bits(w)
  PROVE  /\ Left(a, n) \cap Field(w) \in SUBSET Field(w)
         /\ Num(Left(a, n) \cap Field(w)) = (Num(a) % 2 ^ (Bits(w) - n)) * 2 ^ n
<1> DEFINE b == Bits(w)
           v == Left(a, n) \cap Field(w)
           m == b - n
           l == a \cap (0 .. m - 1)
           p == 2 ^ n
<1>1. /\ b \in Nat /\ b <= WordBits /\ WordBits \in Nat /\ Field(w) = 0 .. b - 1
      /\ Field(8) = 0 .. WordBits - 1 /\ Field(w) \subseteq Field(8)
  BY Sizes
<1>2. m \in 0 .. WordBits /\ n \in 0 .. WordBits /\ n \in Nat
  BY <1>1
<1> HIDE DEF b
<1>3. v \in SUBSET Field(w) /\ v \in SUBSET Field(8)
  BY <1>1
<1>4. v \cap (0 .. n - 1) = {}
  BY <1>1, <1>2 DEF Left
<1>5. Right(v, n) = l
  <2>1. ASSUME NEW i PROVE i \in Right(v, n) <=> i \in l
    <3>1. i \in Right(v, n) <=> i \in Nat /\ i + n \in v
      BY <1>1, <1>2, <1>3 DEF Right
    <3>2. i \in Nat => (i + n \in v <=> i \in a /\ i + n \in 0 .. b - 1)
      BY <1>1, <1>2 DEF Left
    <3>3. i \in Nat => (i + n \in 0 .. b - 1 <=> i \in 0 .. m - 1)
      BY <1>1, <1>2
    <3>4. i \in l => i \in Nat
      BY <1>1
    <3> HIDE DEF v, m
    <3> QED BY <3>1, <3>2, <3>3, <3>4
  <2> QED BY <2>1
<1> HIDE DEF v, m, l
<1>6. Num(v) = Num({}) + p * Num(l)
  BY <1>2, <1>3, <1>4, <1>5, NumCut
<1>7. Num(a) % 2 ^ m = Num(l)
  BY <1>1, <1>2, NumCut DEF l
<1>8. Num(l) \in Nat /\ p \in Nat
  <2>1. l \in SUBSET Field(w)
    BY DEF l
  <2> QED BY <1>2, <2>1, OperandFacts, PowerPositive
<1> HIDE DEF p
<1>9. Num(v) = Num(l) * p
  BY <1>6, <1>8, NumEmpty
<1> QED BY <1>3, <1>7, <1>9 DEF v, m, b, p

LEMMA ShrNumber ==
  ASSUME NEW w \in Width, NEW a \in SUBSET Field(w), NEW n \in 1 .. Bits(w)
  PROVE  /\ Right(a, n) \in SUBSET Field(w)
         /\ Num(Right(a, n)) = Num(a) \div 2 ^ n
         /\ n - 1 \in a <=> (Num(a) \div 2 ^ (n - 1)) % 2 = 1
<1>1. /\ Bits(w) \in Nat /\ Bits(w) <= WordBits /\ WordBits \in Nat /\ Field(w) = 0 .. Bits(w) - 1
      /\ Field(8) = 0 .. WordBits - 1 /\ Field(w) \subseteq Field(8)
  BY Sizes
<1>2. n \in 0 .. WordBits /\ n - 1 \in Field(8) /\ a \in SUBSET Field(8)
  BY <1>1
<1>3. Right(a, n) \in SUBSET Field(w)
  BY <1>1 DEF Right
<1>4. Num(Right(a, n)) = Num(a) \div 2 ^ n
  BY <1>2, NumCut
<1>5. n - 1 \in a <=> (Num(a) \div 2 ^ (n - 1)) % 2 = 1
  <2> DEFINE k == n - 1
  <2>1. k \in Field(8)
    BY <1>2
  <2> HIDE DEF k
  <2>2. (Num(a) \div 2 ^ k) % 2 = 1 <=> k \in a
    BY <1>2, <2>1, NumBits
  <2> QED BY <2>2 DEF k
<1> QED BY <1>3, <1>4, <1>5

\* The value of sar, whose sign fills from above the operand.
LEMMA SarNumber ==
  ASSUME NEW w \in Width, NEW a \in SUBSET Field(w), NEW n \in 1 .. Bits(w), NEW v,
         v = (Right(SignExtend(a, w), n) \cup
                IF WordBits - 1 \in SignExtend(a, w) THEN WordBits - n .. WordBits - 1 ELSE {})
             \cap Field(w)
  PROVE  /\ v \in SUBSET Field(w)
         /\ Num(v) = (Signed(a, w) \div 2 ^ n) % 2 ^ Bits(w)
         /\ n - 1 \in SignExtend(a, w) <=> (Signed(a, w) \div 2 ^ (n - 1)) % 2 = 1
<1> DEFINE b == Bits(w)
           e == SignExtend(a, w)
           r == Right(a, n)
           m == b - n
           top == m .. b - 1
           p == 2 ^ n
           q == 2 ^ m
           d == 2 ^ b
           x == Num(a)
           s == Signed(a, w)
           neg == SignBit(w) \in a
<1>1. /\ b \in Nat /\ b <= WordBits /\ WordBits \in Nat /\ Field(w) = 0 .. b - 1
      /\ Field(8) = 0 .. WordBits - 1 /\ Field(w) \subseteq Field(8) /\ SignBit(w) = b - 1
      /\ w < 8 => 2 * b <= WordBits
      /\ w = 8 => b = WordBits
  BY Sizes
<1>2. /\ m \in 0 .. WordBits /\ m \in Nat /\ n \in 0 .. WordBits /\ n \in Nat /\ n + m = b
      /\ n >= 1 /\ n <= b /\ b \in 0 .. WordBits
  BY <1>1
<1>3. r \in SUBSET Field(w) /\ Num(r) = x \div p
      /\ (n - 1 \in a <=> (x \div 2 ^ (n - 1)) % 2 = 1)
  BY ShrNumber
<1>4. e = IF neg THEN a \cup (Field(8) \ Field(w)) ELSE a
  <2>1. a \cap Field(w) = a
    OBVIOUS
  <2> QED BY <2>1 DEF SignExtend
<1>5. x \in Nat /\ x < d
  BY OperandFacts
<1> HIDE DEF b, e, m, p, q, d, x
<1>6. d = p * q /\ p \in Nat \ {0} /\ q \in Nat \ {0} /\ d \in Nat \ {0}
  <2>0. 2 ^ n \in Nat \ {0} /\ 2 ^ m \in Nat \ {0}
    BY <1>2, PowerPositive
  <2>1. 2 ^ (n + m) = 2 ^ n * 2 ^ m /\ p \in Nat \ {0} /\ q \in Nat \ {0}
    BY <1>2, <2>0, PowerSum DEF p, q
  <2>2. 2 ^ (n + m) = d /\ d \in Nat \ {0}
    BY <1>1, <1>2, PowerPositive DEF d
  <2> QED BY <2>1, <2>2 DEF p, q
<1>7. s = x - IF neg THEN d ELSE 0
  BY DEF Signed, x, d, b
<1>8. n - 1 \in e <=> n - 1 \in a
  <2>1. n - 1 \in Field(w)
    BY <1>1, <1>2
  <2> QED BY <1>4, <2>1
<1>9. WordBits - 1 \in e <=> neg
  <2>1. CASE neg
    <3>1. WordBits - 1 \in Field(8) /\ b - 1 = SignBit(w)
      BY <1>1, <1>2
    <3>2. WordBits - 1 \in Field(w) => WordBits - 1 = SignBit(w)
      BY <1>1, <1>2
    <3> QED BY <1>4, <2>1, <3>1, <3>2
  <2>2. CASE ~neg
    <3>1. WordBits - 1 \in a => WordBits - 1 \in 0 .. b - 1
      BY <1>1
    <3>2. WordBits - 1 \in 0 .. b - 1 => WordBits - 1 = SignBit(w)
      BY <1>1
    <3> QED BY <1>4, <2>2, <3>1, <3>2
  <2> QED BY <2>1, <2>2
<1> DEFINE fill == IF WordBits - 1 \in e THEN WordBits - n .. WordBits - 1 ELSE {}
<1>10. v = (Right(e, n) \cup fill) \cap Field(w)
  BY DEF e
<1>11. v = IF neg THEN r \cup top ELSE r
  <2>1. CASE neg
    <3>1. fill = WordBits - n .. WordBits - 1
      BY <1>9, <2>1
    <3>2. e = a \cup (b .. WordBits - 1)
      BY <1>1, <1>4, <2>1
    <3>3. ASSUME NEW i \in Field(w) PROVE i \in Right(e, n) \cup fill <=> i \in r \cup top
      <4>1. i \in Right(e, n) <=> i + n \in a \/ i + n \in b .. WordBits - 1
        <5>1. e \in SUBSET Nat
          BY <1>1, <3>2
        <5>2. i \in Right(e, n) <=> i + n \in e
          BY <1>1, <1>2, <5>1 DEF Right
        <5> QED BY <3>2, <5>2
      <4>2. i \in r <=> i + n \in a
        BY <1>1, <1>2 DEF Right
      <4>3. i + n \in b .. WordBits - 1 \/ i \in WordBits - n .. WordBits - 1 <=> i \in top
        BY <1>1, <1>2 DEF m
      <4> QED BY <3>1, <4>1, <4>2, <4>3
    <3>4. r \cup top \subseteq Field(w)
      BY <1>1, <1>2, <1>3
    <3> HIDE DEF fill, r, top
    <3> QED BY <1>10, <2>1, <3>3, <3>4
  <2>2. CASE ~neg
    <3>1. fill = {} /\ e = a
      BY <1>4, <1>9, <2>2
    <3> HIDE DEF fill
    <3> QED BY <1>3, <1>10, <2>2, <3>1
  <2> QED BY <2>1, <2>2
<1> HIDE DEF r, s
<1>12. Num(top) = d - q
  <2> DEFINE low == 0 .. m - 1
  <2>1. /\ low \cup top = 0 .. b - 1 /\ low \cap top = {}
        /\ low \in SUBSET Field(8) /\ top \in SUBSET Field(8)
    BY <1>1, <1>2
  <2>2. Num(low) = q - 1 /\ Num(0 .. b - 1) = d - 1
    BY <1>2, NumFull DEF q, d
  <2> HIDE DEF low, top
  <2>3. Num(low \cup top) = Num(low) + Num(top) /\ Num(top) \in Nat
    <3>1. 0 \in 0 .. WordBits
      BY <1>1
    <3> QED BY <2>1, <3>1, NumUnion, NumCut
  <2>4. d \in Nat /\ q \in Nat
    BY <1>6
  <2>5. Num(low \cup top) = d - 1
    BY <2>1, <2>2
  <2> QED BY <2>2, <2>3, <2>4, <2>5
<1>13. r \cap top = {} /\ top \in SUBSET Field(8) /\ r \in SUBSET Field(8)
  <2>1. ASSUME NEW i \in r PROVE i < m
    BY <1>1, <1>2 DEF r, Right
  <2>2. top \in SUBSET Field(8) /\ \A i \in top : ~(i < m)
    BY <1>1, <1>2
  <2> HIDE DEF top
  <2> QED BY <1>1, <1>3, <2>1, <2>2
<1> DEFINE u == x \div p
           o == x % p
<1>14. u \in Nat /\ o \in Nat /\ o < p /\ x = u * p + o /\ u < q
  <2>1. u \in Nat /\ o \in Nat /\ o < p /\ x = u * p + o
    BY <1>5, <1>6, Division, DivModNat
  <2> HIDE DEF u, o
  <2>2. u < q
    <3> SUFFICES ASSUME u >= q PROVE FALSE
      BY <1>6, <2>1
    <3>1. u * p >= q * p
      BY <1>6, <2>1
    <3>2. p * q = q * p
      BY <1>6
    <3> QED BY <1>5, <1>6, <2>1, <3>1, <3>2
  <2> QED BY <2>1, <2>2
<1> HIDE DEF u, o
<1>15. Num(v) = IF neg THEN u + (d - q) ELSE u
  <2>1. CASE neg
    <3>1. v = r \cup top
      BY <1>11, <2>1
    <3> HIDE DEF top
    <3>2. Num(r \cup top) = Num(r) + Num(top)
      BY <1>13, NumUnion
    <3> QED BY <1>3, <1>12, <2>1, <3>1, <3>2 DEF u
  <2>2. CASE ~neg
    BY <1>3, <1>11, <2>2 DEF u
  <2> QED BY <2>1, <2>2
<1>16. q <= d
  BY <1>6
<1>17. (s \div p) % d = Num(v)
  <2>1. CASE neg
    <3>1. s = (u - q) * p + o
      <4>1. (u - q) * p = u * p - q * p /\ p * q = q * p
        BY <1>6, <1>14
      <4> QED BY <1>6, <1>7, <1>14, <2>1, <4>1
    <3>2. u - q \in Int
      BY <1>6, <1>14
    <3> DEFINE k == u - q
    <3> HIDE DEF k
    <3>3. (k * p + o) \div p = k
      BY <1>6, <1>14, <3>2, IntDivisionUnique DEF k
    <3>4. s \div p = k
      BY <3>1, <3>3 DEF k
    <3> DEFINE z == u + (d - q)
    <3>5. k = (-1) * d + z /\ z \in Nat /\ z < d /\ -1 \in Int /\ d \in Nat
      BY <1>6, <1>14, <1>16 DEF k
    <3> HIDE DEF z
    <3>6. ((-1) * d + z) % d = z
      BY <3>5, IntDivisionUnique
    <3>7. Num(v) = z
      BY <1>15, <2>1 DEF z
    <3> QED BY <3>4, <3>5, <3>6, <3>7
  <2>2. CASE ~neg
    <3>1. s = u * p + o
      BY <1>5, <1>7, <1>14, <2>2
    <3>2. (u * p + o) \div p = u
      BY <1>6, <1>14, DivisionUnique
    <3>3. u < d /\ d \in Nat
      BY <1>6, <1>14, <1>16
    <3>4. u % d = u
      BY <1>14, <3>3, SmallDividend
    <3> QED BY <1>15, <2>2, <3>1, <3>2, <3>4
  <2> QED BY <2>1, <2>2
<1>18. n - 1 \in a <=> (s \div 2 ^ (n - 1)) % 2 = 1
  <2> DEFINE g == 2 ^ (n - 1)
             c == x \div g
             l == x % g
  <2>1. g \in Nat \ {0} /\ p = 2 * g
    <3>1. n - 1 \in Nat /\ (n - 1) + 1 = n
      BY <1>2
    <3> QED BY <3>1, PowerStep, PowerPositive DEF p
  <2> HIDE DEF g
  <2>2. c \in Nat /\ l \in Nat /\ l < g /\ x = c * g + l
    BY <1>5, <2>1, Division, DivModNat
  <2>3. n - 1 \in a <=> c % 2 = 1
    BY <1>3 DEF g
  <2> HIDE DEF c, l
  <2>4. CASE neg
    <3> DEFINE k == c - 2 * q
    <3>1. d = (2 * q) * g
      <4>1. (2 * g) * q = (2 * q) * g
        BY <1>6, <2>1
      <4> QED BY <1>6, <2>1, <4>1
    <3>2. k * g = c * g - (2 * q) * g /\ k \in Int
      BY <1>6, <2>1, <2>2
    <3>3. s = k * g + l
      <4> HIDE DEF k
      <4> DEFINE cg == c * g
                 kg == k * g
      <4>1. cg \in Int /\ kg \in Int
        BY <2>1, <2>2, <3>2
      <4>2. kg = cg - d /\ x = cg + l
        BY <2>2, <3>1, <3>2
      <4> HIDE DEF cg, kg
      <4>3. s = kg + l
        BY <1>6, <1>7, <2>2, <2>4, <4>1, <4>2
      <4> QED BY <4>3 DEF kg
    <3> HIDE DEF k
    <3>4. (k * g + l) \div g = k
      BY <2>1, <2>2, <3>2, IntDivisionUnique
    <3>5. k % 2 = c % 2
      <4>1. \A t \in Int : (c + t * 2) % 2 = c % 2
        BY <2>2, IntModMultiple
      <4>2. PICK t \in Int : t = -q
        BY <1>6
      <4>3. c + t * 2 = k
        BY <1>6, <2>2, <4>2 DEF k
      <4> QED BY <4>1, <4>3
    <3> QED BY <2>3, <3>3, <3>4, <3>5 DEF g
  <2>5. CASE ~neg
    <3>1. s = c * g + l
      BY <1>5, <1>7, <2>2, <2>5
    <3>2. (c * g + l) \div g = c
      BY <2>1, <2>2, DivisionUnique
    <3> QED BY <2>3, <3>1, <3>2 DEF g
  <2> QED BY <2>4, <2>5
<1>19. v \in SUBSET Field(w)
  BY <1>10
<1> QED BY <1>8, <1>17, <1>18, <1>19 DEF e, s, p, d, b

\* The operand that begins at position k of s above t.
Paired(s, t, w, k) == {i \in Field(w) : i + k \in {j + Bits(w) : j \in s} \cup t}

\* What shld and shrd by n leave of the operands a and b.
Tied(a, b, w, n) ==
    /\ (Left(a, n) \cup Right(b, Bits(w) - n)) \cap Field(w) = Paired(a, b, w, Bits(w) - n)
    /\ (Right(a, n) \cup Left(b, Bits(w) - n)) \cap Field(w) = Paired(b, a, w, n)
    /\ 0 \in Right(a, Bits(w) - n) <=> Bits(w) - n \in a

LEMMA DoubleShifted ==
  ASSUME NEW w \in Width, NEW a \in SUBSET Field(w), NEW b \in SUBSET Field(w),
         NEW n \in 1 .. Bits(w)
  PROVE  Tied(a, b, w, n)
<1> DEFINE k == Bits(w)
<1>1. /\ k \in Nat /\ k <= WordBits /\ WordBits \in Nat /\ Field(w) = 0 .. k - 1
      /\ Field(8) = 0 .. WordBits - 1 /\ n \in 1 .. k
  BY Sizes
<1> HIDE DEF k
<1>2. ASSUME NEW x \in SUBSET Field(w), NEW i \in Field(w), NEW m \in 0 .. k
      PROVE  /\ i \in Right(x, m) <=> i + m \in x
             /\ i \in Left(x, m) <=> i - m \in x
             /\ i + m \in {j + k : j \in x} <=> i - (k - m) \in x
  <2>1. i \in Right(x, m) <=> i + m \in x
    BY <1>1 DEF Right
  <2>2. i \in Left(x, m) <=> i - m \in x
    BY <1>1 DEF Left
  <2>3. i + m \in {j + k : j \in x} <=> i - (k - m) \in x
    BY <1>1
  <2> QED BY <2>1, <2>2, <2>3
<1>3. k - n \in 0 .. k /\ n \in 0 .. k /\ k - (k - n) = n /\ 0 \in Field(w)
  BY <1>1
<1>4. (Left(a, n) \cup Right(b, k - n)) \cap Field(w)
         = {i \in Field(w) : i + (k - n) \in {j + k : j \in a} \cup b}
  <2>1. ASSUME NEW i \in Field(w)
        PROVE  i \in Left(a, n) \cup Right(b, k - n)
                 <=> i + (k - n) \in {j + k : j \in a} \cup b
    <3>1. i \in Left(a, n) <=> i - n \in a
      BY <1>2, <1>3
    <3>2. i \in Right(b, k - n) <=> i + (k - n) \in b
      BY <1>2, <1>3
    <3>3. i + (k - n) \in {j + k : j \in a} <=> i - n \in a
      BY <1>2, <1>3
    <3> QED BY <3>1, <3>2, <3>3
  <2> QED BY <2>1
<1>5. (Right(a, n) \cup Left(b, k - n)) \cap Field(w)
         = {i \in Field(w) : i + n \in {j + k : j \in b} \cup a}
  <2>1. ASSUME NEW i \in Field(w)
        PROVE  i \in Right(a, n) \cup Left(b, k - n) <=> i + n \in {j + k : j \in b} \cup a
    <3>1. i \in Right(a, n) <=> i + n \in a
      BY <1>2, <1>3
    <3>2. i \in Left(b, k - n) <=> i - (k - n) \in b
      BY <1>2, <1>3
    <3>3. i + n \in {j + k : j \in b} <=> i - (k - n) \in b
      BY <1>2, <1>3
    <3> QED BY <3>1, <3>2, <3>3
  <2> QED BY <2>1
<1>6. 0 \in Right(a, k - n) <=> k - n \in a
  <2>1. 0 \in Right(a, k - n) <=> 0 + (k - n) \in a
    BY <1>2, <1>3
  <2>2. 0 + (k - n) = k - n
    BY <1>1
  <2> QED BY <2>1, <2>2
<1>7. /\ Paired(a, b, w, k - n)
            = {i \in Field(w) : i + (k - n) \in {j + k : j \in a} \cup b}
      /\ Paired(b, a, w, n) = {i \in Field(w) : i + n \in {j + k : j \in b} \cup a}
  BY Zenon DEF Paired, k
<1>8. /\ (Left(a, n) \cup Right(b, k - n)) \cap Field(w) = Paired(a, b, w, k - n)
      /\ (Right(a, n) \cup Left(b, k - n)) \cap Field(w) = Paired(b, a, w, n)
  BY <1>4, <1>5, <1>7, Zenon
<1> QED BY <1>6, <1>8, Zenon DEF Tied, k

\* ShiftExact of the operands a and b, the value v and the carry.
ShiftHolds(op, w, n, a, b, v, cf) ==
    CASE op = "shl" -> Num(v) = (Num(a) % 2 ^ (Bits(w) - n)) * 2 ^ n
      [] op = "shr" ->
           /\ Num(v) = Num(a) \div 2 ^ n
           /\ cf <=> (Num(a) \div 2 ^ (n - 1)) % 2 = 1
      [] op = "sar" ->
           /\ Num(v) = (Signed(a, w) \div 2 ^ n) % 2 ^ Bits(w)
           /\ cf <=> (Signed(a, w) \div 2 ^ (n - 1)) % 2 = 1
      [] op = "shld" ->
           /\ v = Paired(a, b, w, Bits(w) - n)
           /\ cf <=> Bits(w) - n \in a
      [] op = "shrd" ->
           /\ v = Paired(b, a, w, n)
           /\ cf <=> n - 1 \in a

\* The shifts of one operand.
LEMMA ShiftsHold ==
  ASSUME flags \in Flag, NEW w \in Width, NEW a \in SUBSET Field(w), NEW b,
         NEW n \in 1 .. Bits(w), NEW op \in {"shl", "shr", "sar"}, NEW r,
         op = "shl" => r = Shl(a, w, n),
         op = "shr" => r = Shr(a, w, n),
         op = "sar" => r = Sar(a, w, n)
  PROVE  r.value \in SUBSET Field(w) /\ ShiftHolds(op, w, n, a, b, r.value, r.flags.cf)
<1>1. n <= Bits(w)
  BY Sizes
<1>2. CASE op = "shl"
  <2>1. r.value = Left(a, n) \cap Field(w)
    <3>1. r.value = IF n <= Bits(w) THEN Left(a, n) \cap Field(w) ELSE {}
      BY <1>2, ShlIs, Zenon
    <3> QED BY <1>1, <3>1
  <2>2. r.value \in SUBSET Field(w) /\ Num(r.value) = (Num(a) % 2 ^ (Bits(w) - n)) * 2 ^ n
    BY <2>1, ShlNumber
  <2> QED BY <1>2, <2>2, Zenon DEF ShiftHolds
<1>3. CASE op = "shr"
  <2>1. /\ r.value = IF n <= Bits(w) THEN Right(a, n) ELSE {}
        /\ r.flags.cf = (n <= Bits(w) /\ n - 1 \in a)
    BY <1>3, ShrIs, Zenon
  <2>2. r.value = Right(a, n) /\ (r.flags.cf <=> n - 1 \in a)
    BY <1>1, <2>1
  <2>3. /\ r.value \in SUBSET Field(w) /\ Num(r.value) = Num(a) \div 2 ^ n
        /\ r.flags.cf <=> (Num(a) \div 2 ^ (n - 1)) % 2 = 1
    BY <2>2, ShrNumber
  <2>4. op # "shl"
    BY <1>3
  <2>5. ShiftHolds(op, w, n, a, b, r.value, r.flags.cf)
           <=> /\ Num(r.value) = Num(a) \div 2 ^ n
               /\ r.flags.cf <=> (Num(a) \div 2 ^ (n - 1)) % 2 = 1
    BY <1>3 DEF ShiftHolds
  <2> QED BY <2>3, <2>5
<1>4. CASE op = "sar"
  <2> DEFINE v == r.value
             e == SignExtend(a, w)
  <2>1. /\ v = (Right(e, n) \cup
                  IF WordBits - 1 \in e THEN WordBits - n .. WordBits - 1 ELSE {})
               \cap Field(w)
        /\ r.flags.cf = (n - 1 \in e)
    BY <1>4, SarIs, Zenon
  <2> HIDE DEF v
  <2>2. /\ v \in SUBSET Field(w)
        /\ Num(v) = (Signed(a, w) \div 2 ^ n) % 2 ^ Bits(w)
        /\ n - 1 \in e <=> (Signed(a, w) \div 2 ^ (n - 1)) % 2 = 1
    BY <2>1, SarNumber
  <2>3. r.flags.cf <=> (Signed(a, w) \div 2 ^ (n - 1)) % 2 = 1
    BY <2>1, <2>2
  <2>4. ShiftHolds(op, w, n, a, b, v, r.flags.cf)
           <=> /\ Num(v) = (Signed(a, w) \div 2 ^ n) % 2 ^ Bits(w)
               /\ r.flags.cf <=> (Signed(a, w) \div 2 ^ (n - 1)) % 2 = 1
    BY <1>4 DEF ShiftHolds
  <2> QED BY <2>2, <2>3, <2>4 DEF v
<1> QED BY <1>2, <1>3, <1>4

LEMMA DoubleShiftsHold ==
  ASSUME flags \in Flag, NEW w \in Width, NEW a \in SUBSET Field(w), NEW b \in SUBSET Field(w),
         NEW n \in 1 .. Bits(w), NEW op \in {"shld", "shrd"}, NEW huge, NEW r,
         op = "shld" => r = Shld(a, b, w, n, huge),
         op = "shrd" => r = Shrd(a, b, w, n, huge)
  PROVE  r.value \in SUBSET Field(w) /\ ShiftHolds(op, w, n, a, b, r.value, r.flags.cf)
<1>4. w \in Width /\ a \in SUBSET Field(w) /\ b \in SUBSET Field(w) /\ n \in 1 .. Bits(w)
  OBVIOUS
<1>9. Tied(a, b, w, n)
  BY <1>4, DoubleShifted, Zenon
<1>5. (Left(a, n) \cup Right(b, Bits(w) - n)) \cap Field(w) = Paired(a, b, w, Bits(w) - n)
  BY <1>9 DEF Tied
<1>6. (Right(a, n) \cup Left(b, Bits(w) - n)) \cap Field(w) = Paired(b, a, w, n)
  BY <1>9 DEF Tied
<1>7. 0 \in Right(a, Bits(w) - n) <=> Bits(w) - n \in a
  BY <1>9 DEF Tied
<1> DEFINE low == (Right(a, n) \cup Left(b, Rest(b, w, n, huge))) \cap Field(w)
           last == n - 1 \in a
           sign == SignBit(w) \in a
<1>10. Shrd(a, b, w, n, huge) = Shifted(low, w, last, sign)
  BY Zenon DEF Shrd, Shifted
<1>11. last \in BOOLEAN /\ sign \in BOOLEAN
  OBVIOUS
<1> HIDE DEF low, last, sign
<1>8. Shrd(a, b, w, n, huge).value = low /\ Shrd(a, b, w, n, huge).flags.cf = last
  BY <1>10, <1>11, ShiftRecords
<1> DEFINE k == Bits(w) - n
           rest == Rest(b, w, n, huge)
           v == r.value
           cf == r.flags.cf
<1>1. rest = k
  <2>1. n <= Bits(w)
    BY Sizes
  <2> QED BY <2>1 DEF Rest
<1>2. CASE op = "shld"
  <2>1. r = Shld(a, b, w, n, huge)
    BY <1>2
  <2>2. v = (Left(a, n) \cup Right(b, k)) \cap Field(w) /\ cf = (0 \in Right(a, k))
    <3>0. /\ Shld(a, b, w, n, huge).value
                = (Left(a, n) \cup Right(b, Rest(b, w, n, huge))) \cap Field(w)
          /\ Shld(a, b, w, n, huge).flags.cf = (0 \in Right(a, Rest(b, w, n, huge)))
      BY ShldIs
    <3>1. v = (Left(a, n) \cup Right(b, rest)) \cap Field(w) /\ cf = (0 \in Right(a, rest))
      BY <2>1, <3>0, Zenon
    <3> HIDE DEF v, cf, rest, k
    <3> QED BY <1>1, <3>1
  <2>3. /\ v = Paired(a, b, w, Bits(w) - n)
        /\ cf <=> Bits(w) - n \in a
    BY <1>5, <1>7, <2>2, Zenon
  <2>4. v \in SUBSET Field(w)
    BY <2>2
  <2> HIDE DEF v, cf
  <2>5. ShiftHolds(op, w, n, a, b, v, cf)
           <=> /\ v = Paired(a, b, w, Bits(w) - n)
               /\ cf <=> Bits(w) - n \in a
    BY <1>2 DEF ShiftHolds
  <2> QED BY <2>3, <2>4, <2>5 DEF v, cf
<1>3. CASE op = "shrd"
  <2>1. r = Shrd(a, b, w, n, huge)
    BY <1>3
  <2>2. v = (Right(a, n) \cup Left(b, k)) \cap Field(w) /\ cf = (n - 1 \in a)
    <3>1. v = (Right(a, n) \cup Left(b, rest)) \cap Field(w) /\ cf = (n - 1 \in a)
      BY <1>8, <2>1, Zenon DEF low, last
    <3> HIDE DEF v, cf, rest, k
    <3> QED BY <1>1, <3>1
  <2>3. v = Paired(b, a, w, n)
    BY <1>6, <2>2, Zenon
  <2>4. v \in SUBSET Field(w)
    BY <2>2
  <2>5. cf <=> n - 1 \in a
    BY <2>2
  <2> HIDE DEF v, cf
  <2>6. ShiftHolds(op, w, n, a, b, v, cf)
           <=> /\ v = Paired(b, a, w, n)
               /\ cf <=> n - 1 \in a
    BY <1>3 DEF ShiftHolds
  <2> QED BY <2>3, <2>4, <2>5, <2>6 DEF v, cf
<1> QED BY <1>2, <1>3

LEMMA ShiftSteps2 ==
  ASSUME TypeOK, Next
  PROVE  ShiftExact'
<1> DEFINE op == insn'.op
           n == insn'.n
<1>1. ShiftExact' <=>
        (op \in {"shl", "shr", "sar", "shld", "shrd"} /\ n \in 1 .. Bits(insn'.w) =>
           ShiftHolds(op, insn'.w, n, before'.regs[insn'.d] \cap Field(insn'.w),
                      before'.regs[insn'.s] \cap Field(insn'.w),
                      regs'[insn'.d] \cap Field(insn'.w), flags'.cf))
  BY Zenon DEF ShiftExact, ShiftHolds, Paired, Old, Result
<1>2. /\ before'.regs = regs
      /\ flags \in Flag /\ regs \in [Reg -> SUBSET Field(8)]
  BY Steps DEF TypeOK
<1>3. CASE op \in {"shl", "shr", "sar"} /\ n \in 1 .. Bits(insn'.w)
  <2>1. PICK d \in Reg, w \in Width, count \in Nat : Shift(op, d, w, count)
    BY <1>3, Runs DEF ShiftOps
  <2> DEFINE m == Masked(count, w)
             a == ReadGpr(d, w)
             r == CASE op = "shl" -> Shl(a, w, m)
                    [] op = "shr" -> Shr(a, w, m)
                    [] op = "sar" -> Sar(a, w, m)
                    [] op = "rol" -> Rol(a, w, m)
                    [] op = "ror" -> Ror(a, w, m)
                    [] op = "rcl" -> Rotated(TRUE, a, w, m)
                    [] op = "rcr" -> Rotated(FALSE, a, w, m)
  <2>2. insn'.d = d /\ insn'.w = w /\ n = m /\ insn'.s = d
    BY <2>1, Executed DEF Shift
  <2>3. IF m = 0 THEN UNCHANGED <<regs, flags>> ELSE Writes(d, w, r)
    BY <2>1, Zenon DEF Shift
  <2>4. m \in 1 .. Bits(w) /\ m # 0
    BY <1>3, <2>2
  <2>5. a \in SUBSET Field(w) /\ a = regs[d] \cap Field(w)
    BY ReadIs
  <2> HIDE DEF m, a, op
  <2>6. /\ op = "shl" => r = Shl(a, w, m)
        /\ op = "shr" => r = Shr(a, w, m)
        /\ op = "sar" => r = Sar(a, w, m)
    OBVIOUS
  <2>7. op \in {"shl", "shr", "sar"}
    BY <1>3
  <2> HIDE DEF r
  <2>8. r.value \in SUBSET Field(w) /\ ShiftHolds(op, w, m, a, a, r.value, r.flags.cf)
    BY <1>2, <2>4, <2>5, <2>6, <2>7, ShiftsHold
  <2>9. regs' = WriteGpr(regs, d, w, r.value) /\ flags' = r.flags
    BY <2>3, <2>4 DEF Writes
  <2>10. regs'[d] \cap Field(w) = r.value
    <3>1. r.value \cap Field(w) = r.value
      BY <2>8
    <3> QED BY <1>2, <2>9, <3>1, Written
  <2> QED BY <1>1, <1>2, <2>2, <2>5, <2>8, <2>9, <2>10
<1>4. CASE op \in {"shld", "shrd"} /\ n \in 1 .. Bits(insn'.w)
  <2>1. PICK d \in Reg, s \in Reg, w \in Width, count \in Nat : DoubleShift(op, d, s, w, count)
    BY <1>4, Runs
  <2> DEFINE m == Masked(count, w)
             a == ReadGpr(d, w)
             b == ReadGpr(s, w)
             r0(huge) == IF op = "shld" THEN Shld(a, b, w, m, huge) ELSE Shrd(a, b, w, m, huge)
  <2>2. insn'.d = d /\ insn'.w = w /\ n = m /\ insn'.s = s
    BY <2>1, Executed DEF DoubleShift
  <2>3. IF m = 0 THEN UNCHANGED <<regs, flags>>
        ELSE \E huge \in BOOLEAN : Writes(d, w, r0(huge))
    BY <2>1, Zenon DEF DoubleShift
  <2>4. m \in 1 .. Bits(w) /\ m # 0
    BY <1>4, <2>2
  <2>5. /\ a \in SUBSET Field(w) /\ a = regs[d] \cap Field(w)
        /\ b \in SUBSET Field(w) /\ b = regs[s] \cap Field(w)
    BY ReadIs
  <2> HIDE DEF m, a, b, op
  <2>6. PICK huge \in BOOLEAN : Writes(d, w, r0(huge))
    BY <2>3, <2>4
  <2> DEFINE r == r0(huge)
  <2>7. op \in {"shld", "shrd"}
    BY <1>4
  <2>8. /\ op = "shld" => r = Shld(a, b, w, m, huge)
        /\ op = "shrd" => r = Shrd(a, b, w, m, huge)
    OBVIOUS
  <2>9. regs' = WriteGpr(regs, d, w, r.value) /\ flags' = r.flags
    BY <2>6 DEF Writes
  <2> HIDE DEF r
  <2>10. r.value \in SUBSET Field(w) /\ ShiftHolds(op, w, m, a, b, r.value, r.flags.cf)
    <3>1. flags \in Flag /\ w \in Width /\ a \in SUBSET Field(w) /\ b \in SUBSET Field(w)
          /\ m \in 1 .. Bits(w)
      BY <1>2, <2>4, <2>5
    <3> QED BY <2>7, <2>8, <3>1, DoubleShiftsHold, Zenon
  <2>11. regs'[d] \cap Field(w) = r.value
    <3>1. r.value \cap Field(w) = r.value
      BY <2>10
    <3> QED BY <1>2, <2>9, <3>1, Written
  <2> QED BY <1>1, <1>2, <2>2, <2>5, <2>9, <2>10, <2>11
<1> QED BY <1>1, <1>3, <1>4

\* shr and sar divide and round down, shl multiplies, shld and shrd shift the
\* pair of operands, and CF is the last bit out, at every width and for every
\* count up to the operand's.
THEOREM ShiftsExact == Spec => []ShiftExact
<1> DEFINE IInv == TypeOK /\ ShiftExact
<1>1. Init => IInv
  <2>1. Init => insn.op \notin {"shl", "shr", "sar", "shld", "shrd"}
    BY DEF Init, NoInsn
  <2>2. Init => ShiftExact
    BY <2>1, Zenon DEF ShiftExact
  <2> QED BY <2>2, TypeInvariant
<1>2. IInv /\ [Next]_vars => IInv'
  <2> SUFFICES ASSUME TypeOK, ShiftExact, [Next]_vars PROVE ShiftExact'
    BY TypeInvariant
  <2>1. CASE UNCHANGED vars
    <3>1. regs' = regs /\ flags' = flags /\ insn' = insn /\ before' = before
      BY <2>1 DEF vars
    <3> QED BY <3>1, Zenon DEF ShiftExact, Old, Result
  <2> QED BY <2>1, ShiftSteps2
<1>3. IInv => ShiftExact
  OBVIOUS
<1> QED BY <1>1, <1>2, <1>3, PTL DEF Spec

-----------------------------------------------------------------------------
(* Rotation.                                                               *)

RolValue(a, w, k) ==
    IF k = 0 THEN a ELSE (Left(a, k) \cup Right(a, Bits(w) - k)) \cap Field(w)
RorValue(a, w, k) ==
    IF k = 0 THEN a ELSE (Right(a, k) \cup Left(a, Bits(w) - k)) \cap Field(w)

\* One position turned either way by less than the ring.
LEMMA OneRound ==
  ASSUME NEW len \in Nat, NEW i \in 0 .. len - 1, NEW k \in 0 .. len - 1
  PROVE  /\ (i + k) % len = IF i + k < len THEN i + k ELSE i + k - len
         /\ (i + -k) % len = IF i >= k THEN i - k ELSE i - k + len
<1>1. \A q \in Int, r \in Nat : r < len => (q * len + r) % len = r
  BY IntDivisionUnique
<1>2. 1 * len = len /\ (-1) * len = -len /\ 1 \in Int /\ -1 \in Int
  OBVIOUS
<1>3. i + k < len => (i + k) % len = i + k
  BY SmallDividend
<1>4. ASSUME i + k >= len PROVE (i + k) % len = i + k - len
  <2>1. i + k = 1 * len + (i + k - len) /\ i + k - len \in Nat /\ i + k - len < len
    BY <1>2, <1>4
  <2>2. (1 * len + (i + k - len)) % len = i + k - len
    BY <1>1, <1>2, <2>1
  <2> QED BY <2>1, <2>2
<1>5. i >= k => (i + -k) % len = i - k
  BY SmallDividend
<1>6. ASSUME i < k PROVE (i + -k) % len = i - k + len
  <2>1. i + -k = (-1) * len + (i - k + len) /\ i - k + len \in Nat /\ i - k + len < len
    BY <1>2, <1>6
  <2>2. ((-1) * len + (i - k + len)) % len = i - k + len
    BY <1>1, <1>2, <2>1
  <2> QED BY <2>1, <2>2
<1>7. (i + k < len <=> ~(i + k >= len)) /\ (i >= k <=> ~(i < k))
  OBVIOUS
<1> QED BY <1>3, <1>4, <1>5, <1>6, <1>7, Zenon

LEMMA TurnedValue ==
  ASSUME NEW w \in Width, NEW a \in SUBSET Field(w), NEW k \in 0 .. Bits(w) - 1
  PROVE  /\ RolValue(a, w, k) = Round(a, k, Bits(w))
         /\ RorValue(a, w, k) = Round(a, -k, Bits(w))
         /\ RolValue(a, w, k) \in SUBSET Field(w)
         /\ RorValue(a, w, k) \in SUBSET Field(w)
<1> DEFINE b == Bits(w)
           f == 0 .. b - 1
<1>1. b \in Nat /\ 2 <= b /\ Field(w) = f /\ k \in 0 .. b - 1 /\ a \subseteq f
  BY Sizes
<1> HIDE DEF b
<1>2. ASSUME NEW i \in a
      PROVE  /\ (i + k) % b = IF i + k < b THEN i + k ELSE i + k - b
             /\ (i + -k) % b = IF i >= k THEN i - k ELSE i - k + b
  <2>1. i \in 0 .. b - 1
    BY <1>1
  <2> QED BY <1>1, <2>1, OneRound
<1>3. Round(a, k, b) = {IF i + k < b THEN i + k ELSE i + k - b : i \in a}
  BY <1>2 DEF Round
<1>4. Round(a, -k, b) = {IF i >= k THEN i - k ELSE i - k + b : i \in a}
  BY <1>2 DEF Round
<1>5. CASE k = 0
  <2>1. \A i \in a : (i + k < b /\ i + k = i) /\ (i >= k /\ i - k = i)
    BY <1>1, <1>5
  <2>2. Round(a, k, b) = a
    BY <1>3, <2>1
  <2>3. Round(a, -k, b) = a
    BY <1>4, <2>1
  <2>4. RolValue(a, w, k) = a /\ RorValue(a, w, k) = a
    BY <1>5 DEF RolValue, RorValue
  <2> QED BY <1>1, <2>2, <2>3, <2>4 DEF b
<1>6. CASE k # 0
  <2> DEFINE l == (Left(a, k) \cup Right(a, b - k)) \cap f
             r == (Right(a, k) \cup Left(a, b - k)) \cap f
  <2>1. RolValue(a, w, k) = l /\ RorValue(a, w, k) = r
    BY <1>1, <1>6 DEF RolValue, RorValue, b
  <2>2. /\ Left(a, k) \cap f = {i + k : i \in a} \cap f
        /\ Left(a, b - k) \cap f = {i + (b - k) : i \in a} \cap f
    <3>1. f \subseteq Field(8)
      BY Sizes, <1>1
    <3> QED BY <3>1 DEF Left
  <2>3. ASSUME NEW x \in f
        PROVE  /\ x \in Left(a, k) <=> x - k \in a
               /\ x \in Left(a, b - k) <=> x - (b - k) \in a
               /\ x \in Right(a, k) <=> x + k \in a
               /\ x \in Right(a, b - k) <=> x + (b - k) \in a
    <3>1. x \in Left(a, k) <=> x \in {i + k : i \in a}
      BY <2>2
    <3>2. x \in Left(a, b - k) <=> x \in {i + (b - k) : i \in a}
      BY <2>2
    <3>3. x \in {i + k : i \in a} <=> x - k \in a
      BY <1>1
    <3>4. x \in {i + (b - k) : i \in a} <=> x - (b - k) \in a
      BY <1>1
    <3>5. x \in Right(a, k) <=> x + k \in a
      BY <1>1 DEF Right
    <3>6. x \in Right(a, b - k) <=> x + (b - k) \in a
      BY <1>1 DEF Right
    <3> QED BY <3>1, <3>2, <3>3, <3>4, <3>5, <3>6
  <2>4. l = Round(a, k, b)
    <3>1. ASSUME NEW x \in f
          PROVE  x \in Round(a, k, b) <=> x - k \in a \/ x + (b - k) \in a
      <4>1. ASSUME NEW i \in a, x = IF i + k < b THEN i + k ELSE i + k - b
            PROVE  x - k \in a \/ x + (b - k) \in a
        <5>1. CASE i + k < b
          <6>1. x - k = i
            BY <1>1, <4>1, <5>1
          <6> QED BY <6>1
        <5>2. CASE ~(i + k < b)
          <6>1. x + (b - k) = i
            BY <1>1, <4>1, <5>2
          <6> QED BY <6>1
        <5> QED BY <5>1, <5>2
      <4>2. ASSUME x - k \in a PROVE x \in Round(a, k, b)
        <5>1. PICK i \in a : i = x - k
          BY <4>2
        <5>2. x = IF i + k < b THEN i + k ELSE i + k - b
          BY <1>1, <5>1
        <5> QED BY <1>3, <5>2
      <4>3. ASSUME x + (b - k) \in a PROVE x \in Round(a, k, b)
        <5>1. PICK i \in a : i = x + (b - k)
          BY <4>3
        <5>2. x = IF i + k < b THEN i + k ELSE i + k - b
          BY <1>1, <5>1
        <5> QED BY <1>3, <5>2
      <4> QED BY <1>3, <4>1, <4>2, <4>3
    <3>2. Round(a, k, b) \subseteq f
      <4>1. ASSUME NEW i \in a
            PROVE  (IF i + k < b THEN i + k ELSE i + k - b) \in f
        BY <1>1
      <4> QED BY <1>3, <4>1
    <3>3. ASSUME NEW x \in f
          PROVE  x \in l <=> x \in Round(a, k, b)
      BY <2>3, <3>1
    <3> HIDE DEF l
    <3>4. l \subseteq f
      BY DEF l
    <3> QED BY <3>2, <3>3, <3>4
  <2>5. r = Round(a, -k, b)
    <3>1. ASSUME NEW x \in f
          PROVE  x \in Round(a, -k, b) <=> x + k \in a \/ x - (b - k) \in a
      <4>1. ASSUME NEW i \in a, x = IF i >= k THEN i - k ELSE i - k + b
            PROVE  x + k \in a \/ x - (b - k) \in a
        <5>1. CASE i >= k
          <6>1. x + k = i
            BY <1>1, <4>1, <5>1
          <6> QED BY <6>1
        <5>2. CASE ~(i >= k)
          <6>1. x - (b - k) = i
            BY <1>1, <4>1, <5>2
          <6> QED BY <6>1
        <5> QED BY <5>1, <5>2
      <4>2. ASSUME x + k \in a PROVE x \in Round(a, -k, b)
        <5>1. PICK i \in a : i = x + k
          BY <4>2
        <5>2. x = IF i >= k THEN i - k ELSE i - k + b
          BY <1>1, <5>1
        <5> QED BY <1>4, <5>2
      <4>3. ASSUME x - (b - k) \in a PROVE x \in Round(a, -k, b)
        <5>1. PICK i \in a : i = x - (b - k)
          BY <4>3
        <5>2. x = IF i >= k THEN i - k ELSE i - k + b
          BY <1>1, <5>1
        <5> QED BY <1>4, <5>2
      <4> QED BY <1>4, <4>1, <4>2, <4>3
    <3>2. Round(a, -k, b) \subseteq f
      <4>1. ASSUME NEW i \in a
            PROVE  (IF i >= k THEN i - k ELSE i - k + b) \in f
        BY <1>1
      <4> QED BY <1>4, <4>1
    <3>3. ASSUME NEW x \in f
          PROVE  x \in r <=> x \in Round(a, -k, b)
      BY <2>3, <3>1
    <3> HIDE DEF r
    <3>4. r \subseteq f
      BY DEF r
    <3> QED BY <3>2, <3>3, <3>4
  <2>6. l \in SUBSET Field(w) /\ r \in SUBSET Field(w)
    BY <1>1
  <2> HIDE DEF l, r
  <2> QED BY <2>1, <2>4, <2>5, <2>6 DEF b
<1> QED BY <1>5, <1>6

\* RotateExact of the operand a and carry c, the value v and the new carry.
RotateHolds(op, w, n, a, c, v, cf) ==
    CASE op = "rol" -> v = Round(a, n, Bits(w)) /\ (cf <=> 0 \in v)
      [] op = "ror" -> v = Round(a, -n, Bits(w)) /\ (cf <=> SignBit(w) \in v)
      [] op = "rcl" -> Ring(v, cf, w) = Round(Ring(a, c, w), n, Bits(w) + 1)
      [] op = "rcr" -> Ring(v, cf, w) = Round(Ring(a, c, w), -n, Bits(w) + 1)

LEMMA RotatesHold ==
  ASSUME flags \in Flag, NEW w \in Width, NEW a \in SUBSET Field(w), NEW n \in Nat,
         NEW op \in {"rol", "ror", "rcl", "rcr"}, NEW r,
         op = "rol" => r = Rol(a, w, n),
         op = "ror" => r = Ror(a, w, n),
         op = "rcl" => r = Rotated(TRUE, a, w, n),
         op = "rcr" => r = Rotated(FALSE, a, w, n)
  PROVE  /\ r.value \in SUBSET Field(w)
         /\ RotateHolds(op, w, n, a, flags.cf, r.value, r.flags.cf)
<1> DEFINE k == n % Bits(w)
           v == r.value
           cf == r.flags.cf
<1>1. k \in 0 .. Bits(w) - 1 /\ Bits(w) \in Nat \ {0} /\ a \in SUBSET Int
  <2>1. Bits(w) \in Nat /\ 2 <= Bits(w) /\ Field(w) = 0 .. Bits(w) - 1
    BY Sizes
  <2>2. k \in Nat /\ k < Bits(w)
    BY <2>1, DivModNat
  <2> QED BY <2>1, <2>2
<1>2. /\ Round(a, k, Bits(w)) = Round(a, n, Bits(w))
      /\ Round(a, -k, Bits(w)) = Round(a, -n, Bits(w))
  <2>1. n \in Int /\ 0 \in Int
    OBVIOUS
  <2> QED BY <1>1, <2>1, RoundTwice
<1> HIDE DEF k
<1>3. /\ RolValue(a, w, k) = Round(a, k, Bits(w))
      /\ RorValue(a, w, k) = Round(a, -k, Bits(w))
      /\ RolValue(a, w, k) \in SUBSET Field(w)
      /\ RorValue(a, w, k) \in SUBSET Field(w)
  BY <1>1, TurnedValue
<1>4. ASSUME NEW left \in BOOLEAN
      PROVE  /\ Rotated(left, a, w, n).value \in SUBSET Field(w)
             /\ Ring(Rotated(left, a, w, n).value, Rotated(left, a, w, n).flags.cf, w)
                  = Round(Ring(a, flags.cf, w), IF left THEN n ELSE -n, Bits(w) + 1)
  BY RotatedIs, Zenon
<1>5. CASE op = "rol"
  <2>1. v = RolValue(a, w, k) /\ cf = (0 \in v)
    BY <1>5, RolIs, Zenon DEF RolValue, k
  <2> HIDE DEF v, cf
  <2>2. v \in SUBSET Field(w) /\ v = Round(a, n, Bits(w)) /\ (cf <=> 0 \in v)
    BY <1>2, <1>3, <2>1
  <2>3. RotateHolds(op, w, n, a, flags.cf, v, cf)
           <=> v = Round(a, n, Bits(w)) /\ (cf <=> 0 \in v)
    BY <1>5 DEF RotateHolds
  <2> QED BY <2>2, <2>3 DEF v, cf
<1>6. CASE op = "ror"
  <2>1. v = RorValue(a, w, k) /\ cf = (SignBit(w) \in v)
    <3>1. /\ Ror(a, w, n).value
               = IF n % Bits(w) = 0 THEN a
                 ELSE (Right(a, n % Bits(w)) \cup Left(a, Bits(w) - (n % Bits(w)))) \cap Field(w)
          /\ Ror(a, w, n).flags.cf = (SignBit(w) \in Ror(a, w, n).value)
      BY RorIs
    <3>2. r = Ror(a, w, n)
      BY <1>6
    <3> QED BY <3>1, <3>2, Zenon DEF RorValue, k
  <2> HIDE DEF v, cf
  <2>2. v \in SUBSET Field(w) /\ v = Round(a, -n, Bits(w)) /\ (cf <=> SignBit(w) \in v)
    BY <1>2, <1>3, <2>1
  <2>3. RotateHolds(op, w, n, a, flags.cf, v, cf)
           <=> v = Round(a, -n, Bits(w)) /\ (cf <=> SignBit(w) \in v)
    BY <1>6 DEF RotateHolds
  <2> QED BY <2>2, <2>3 DEF v, cf
<1>7. CASE op = "rcl"
  <2>1. v \in SUBSET Field(w) /\ Ring(v, cf, w) = Round(Ring(a, flags.cf, w), n, Bits(w) + 1)
    BY <1>4, <1>7, Zenon
  <2> HIDE DEF v, cf
  <2>2. RotateHolds(op, w, n, a, flags.cf, v, cf)
           <=> Ring(v, cf, w) = Round(Ring(a, flags.cf, w), n, Bits(w) + 1)
    BY <1>7 DEF RotateHolds
  <2> QED BY <2>1, <2>2 DEF v, cf
<1>8. CASE op = "rcr"
  <2>1. v \in SUBSET Field(w) /\ Ring(v, cf, w) = Round(Ring(a, flags.cf, w), -n, Bits(w) + 1)
    BY <1>4, <1>8, Zenon
  <2> HIDE DEF v, cf
  <2>2. RotateHolds(op, w, n, a, flags.cf, v, cf)
           <=> Ring(v, cf, w) = Round(Ring(a, flags.cf, w), -n, Bits(w) + 1)
    BY <1>8 DEF RotateHolds
  <2> QED BY <2>1, <2>2 DEF v, cf
<1> QED BY <1>5, <1>6, <1>7, <1>8

LEMMA RotateSteps ==
  ASSUME TypeOK, Next
  PROVE  RotateExact'
<1> DEFINE op == insn'.op
           n == insn'.n
<1>1. RotateExact' <=>
        (op \in {"rol", "ror", "rcl", "rcr"} /\ n > 0 =>
           RotateHolds(op, insn'.w, n, before'.regs[insn'.d] \cap Field(insn'.w),
                       before'.flags.cf, regs'[insn'.d] \cap Field(insn'.w), flags'.cf))
  BY Zenon DEF RotateExact, RotateHolds, Round, Ring, Old, Result
<1>2. /\ before'.regs = regs /\ before'.flags = flags
      /\ flags \in Flag /\ regs \in [Reg -> SUBSET Field(8)]
  BY Steps DEF TypeOK
<1>3. CASE op \in {"rol", "ror", "rcl", "rcr"} /\ n > 0
  <2>1. PICK d \in Reg, w \in Width, count \in Nat : Shift(op, d, w, count)
    BY <1>3, Runs DEF ShiftOps
  <2> DEFINE m == Masked(count, w)
             a == ReadGpr(d, w)
             r == CASE op = "shl" -> Shl(a, w, m)
                    [] op = "shr" -> Shr(a, w, m)
                    [] op = "sar" -> Sar(a, w, m)
                    [] op = "rol" -> Rol(a, w, m)
                    [] op = "ror" -> Ror(a, w, m)
                    [] op = "rcl" -> Rotated(TRUE, a, w, m)
                    [] op = "rcr" -> Rotated(FALSE, a, w, m)
  <2>2. insn'.d = d /\ insn'.w = w /\ n = m /\ insn'.s = d
    BY <2>1, Executed DEF Shift
  <2>3. IF m = 0 THEN UNCHANGED <<regs, flags>> ELSE Writes(d, w, r)
    BY <2>1, Zenon DEF Shift
  <2>4. m \in Nat /\ m # 0
    <3>1. Bits(IF w = 8 THEN 8 ELSE 4) \in Nat \ {0}
      <4>1. 8 \in Width /\ 4 \in Width
        BY DEF Width
      <4>2. Bits(8) \in Nat /\ 2 <= Bits(8) /\ Bits(4) \in Nat /\ 2 <= Bits(4)
        BY <4>1, Sizes
      <4> QED BY <4>2
    <3>2. m \in Nat
      BY <3>1, DivModNat DEF Masked
    <3> QED BY <1>3, <2>2, <3>2
  <2>5. a \in SUBSET Field(w) /\ a = regs[d] \cap Field(w)
    BY ReadIs
  <2> HIDE DEF m, a, op
  <2>6. /\ op = "rol" => r = Rol(a, w, m)
        /\ op = "ror" => r = Ror(a, w, m)
        /\ op = "rcl" => r = Rotated(TRUE, a, w, m)
        /\ op = "rcr" => r = Rotated(FALSE, a, w, m)
    OBVIOUS
  <2>7. op \in {"rol", "ror", "rcl", "rcr"}
    BY <1>3
  <2> HIDE DEF r
  <2>8. /\ r.value \in SUBSET Field(w)
        /\ RotateHolds(op, w, m, a, flags.cf, r.value, r.flags.cf)
    <3>1. flags \in Flag /\ w \in Width /\ a \in SUBSET Field(w) /\ m \in Nat
      BY <1>2, <2>4, <2>5
    <3> QED BY <2>6, <2>7, <3>1, RotatesHold, Zenon
  <2>9. regs' = WriteGpr(regs, d, w, r.value) /\ flags' = r.flags
    BY <2>3, <2>4 DEF Writes
  <2>10. regs'[d] \cap Field(w) = r.value
    <3>1. r.value \cap Field(w) = r.value
      BY <2>8
    <3> QED BY <1>2, <2>9, <3>1, Written
  <2> QED BY <1>1, <1>2, <2>2, <2>5, <2>8, <2>9, <2>10
<1> QED BY <1>1, <1>3

\* rol and ror turn the operand and rcl and rcr the operand with CF as one more
\* position, by the masked count, which may go round more than once; CF is the
\* bit that went round last.
THEOREM RotationsExact == Spec => []RotateExact
<1> DEFINE IInv == TypeOK /\ RotateExact
<1>1. Init => IInv
  <2>1. Init => insn.op \notin {"rol", "ror", "rcl", "rcr"}
    BY DEF Init, NoInsn
  <2>2. Init => RotateExact
    BY <2>1, Zenon DEF RotateExact
  <2> QED BY <2>2, TypeInvariant
<1>2. IInv /\ [Next]_vars => IInv'
  <2> SUFFICES ASSUME TypeOK, RotateExact, [Next]_vars PROVE RotateExact'
    BY TypeInvariant
  <2>1. CASE UNCHANGED vars
    <3>1. regs' = regs /\ flags' = flags /\ insn' = insn /\ before' = before
      BY <2>1 DEF vars
    <3>2. RotateExact <=>
            (insn.op \in {"rol", "ror", "rcl", "rcr"} /\ insn.n > 0 =>
               RotateHolds(insn.op, insn.w, insn.n, before.regs[insn.d] \cap Field(insn.w),
                           before.flags.cf, regs[insn.d] \cap Field(insn.w), flags.cf))
      BY Zenon DEF RotateExact, RotateHolds, Round, Ring, Old, Result
    <3>3. RotateExact' <=>
            (insn'.op \in {"rol", "ror", "rcl", "rcr"} /\ insn'.n > 0 =>
               RotateHolds(insn'.op, insn'.w, insn'.n, before'.regs[insn'.d] \cap Field(insn'.w),
                           before'.flags.cf, regs'[insn'.d] \cap Field(insn'.w), flags'.cf))
      BY Zenon DEF RotateExact, RotateHolds, Round, Ring, Old, Result
    <3> QED BY <3>1, <3>2, <3>3
  <2> QED BY <2>1, RotateSteps
<1>3. IInv => RotateExact
  OBVIOUS
<1> QED BY <1>1, <1>2, <1>3, PTL DEF Spec

-----------------------------------------------------------------------------
(* The scans.                                                              *)

\* The ends of a word that is not zero, and the number above and below them.
LEMMA Ends ==
  ASSUME NEW w \in Width, NEW s \in SUBSET Field(w), s # {}
  PROVE  /\ Trailing(s) \in Field(w) /\ Leading(s, w) \in Field(w)
         /\ Num(s) % 2 ^ Trailing(s) = 0
         /\ Num(s) % 2 ^ (Trailing(s) + 1) # 0
         /\ Num(s) \div 2 ^ (Bits(w) - 1 - Leading(s, w)) = 1
<1> DEFINE b == Bits(w)
           t == Trailing(s)
           h == CHOOSE i \in s : \A j \in s : j <= i
           x == Num(s)
<1>1. /\ b \in Nat /\ 2 <= b /\ b <= WordBits /\ WordBits \in Nat /\ Field(w) = 0 .. b - 1
      /\ Field(8) = 0 .. WordBits - 1 /\ Field(w) \subseteq Field(8)
  BY Sizes
<1> HIDE DEF b
<1>2. t \in s /\ \A j \in s : t <= j
  <2>1. s \in SUBSET Nat
    BY <1>1
  <2>2. \E i \in s : \A j \in s : i <= j
    BY <2>1, LeastNatural
  <2> QED BY <2>2, Zenon DEF Trailing
<1>3. h \in s /\ \A j \in s : j <= h
  <2> DEFINE T == {b - 1 - i : i \in s}
  <2>1. T \in SUBSET Nat /\ T # {}
    BY <1>1
  <2>2. PICK y \in T : \A z \in T : y <= z
    BY <2>1, LeastNatural
  <2>3. PICK i \in s : y = b - 1 - i
    BY <2>2
  <2>4. ASSUME NEW j \in s PROVE j <= i
    <3>1. b - 1 - j \in T
      OBVIOUS
    <3>2. b - 1 - i <= b - 1 - j
      BY <2>2, <2>3, <3>1
    <3> QED BY <1>1, <3>2
  <2> HIDE DEF T
  <2>5. \E k \in s : \A j \in s : j <= k
    BY <2>4
  <2> QED BY <2>5, Zenon
<1> HIDE DEF t, h
<1>4. /\ t \in Nat /\ t < b /\ h \in Nat /\ h < b /\ t \in Field(w) /\ h \in Field(w)
      /\ t \in Field(8) /\ h \in Field(8) /\ s \in SUBSET Field(8)
      /\ t \in 0 .. WordBits /\ t + 1 \in 0 .. WordBits /\ h \in 0 .. WordBits
  BY <1>1, <1>2, <1>3
<1>5. Leading(s, w) = b - 1 - h /\ b - 1 - h \in Field(w) /\ b - 1 - (b - 1 - h) = h
  <2>1. Leading(s, w) = b - 1 - h
    BY Zenon DEF Leading, b, h
  <2> QED BY <1>1, <1>4, <2>1
<1>6. x % 2 ^ t = 0
  <2>1. s \cap (0 .. t - 1) = {}
    BY <1>1, <1>2, <1>4
  <2>2. x % 2 ^ t = Num(s \cap (0 .. t - 1))
    BY <1>4, NumCut
  <2> QED BY <2>1, <2>2, NumEmpty
<1>7. x % 2 ^ (t + 1) # 0
  <2>1. s \cap (0 .. (t + 1) - 1) = {t}
    BY <1>1, <1>2, <1>4
  <2>2. x % 2 ^ (t + 1) = Num(s \cap (0 .. (t + 1) - 1))
    BY <1>4, NumCut
  <2>3. Num({t}) = 2 ^ t /\ 2 ^ t # 0
    BY <1>4, NumSingle, PowerPositive
  <2> QED BY <2>1, <2>2, <2>3
<1>8. x \div 2 ^ h = 1
  <2>1. Right(s, h) = {0}
    <3>1. ASSUME NEW i \in s, i >= h PROVE i - h = 0
      <4>1. i <= h /\ i \in Nat
        BY <1>1, <1>3
      <4> QED BY <1>4, <3>1, <4>1
    <3>2. h >= h /\ h - h = 0
      BY <1>4
    <3> QED BY <1>3, <3>1, <3>2 DEF Right
  <2>2. x \div 2 ^ h = Num(Right(s, h))
    BY <1>4, NumCut
  <2>3. 0 \in Field(8) /\ 2 ^ 0 = 1
    BY <1>1, PowerZero
  <2>4. Num({0}) = 2 ^ 0
    BY <2>3, NumSingle
  <2> QED BY <2>1, <2>2, <2>3, <2>4
<1> QED BY <1>4, <1>5, <1>6, <1>7, <1>8, Zenon DEF t, x, b

\* A count of bits fits the operand it is written to.
LEMMA CountKept ==
  ASSUME NEW w \in Width, NEW n \in 0 .. Bits(w)
  PROVE  Num(Word(n) \cap Field(w)) = n
<1>1. Bits(w) \in Nat /\ n \in Nat /\ n <= Bits(w)
  BY Sizes
<1>2. 2 ^ Bits(w) > Bits(w) /\ 2 ^ Bits(w) \in Nat
  BY <1>1, PowerExceeds, PowerPositive
<1>3. Num(Word(n) \cap Field(w)) = n % 2 ^ Bits(w)
  BY <1>1, CutFacts
<1>4. n < 2 ^ Bits(w)
  BY <1>1, <1>2
<1> DEFINE d == 2 ^ Bits(w)
<1>5. d \in Nat /\ n < d
  BY <1>2, <1>4
<1> HIDE DEF d
<1>6. n % d = n
  BY <1>1, <1>5, SmallDividend
<1> QED BY <1>3, <1>6 DEF d

\* ScanExact of the source x, the result n and the carry.
ScanHolds(op, w, x, n, cf) ==
    /\ op \in {"bsf", "tzcnt"} /\ x > 0 => x % 2 ^ n = 0 /\ x % 2 ^ (n + 1) # 0
    /\ op = "bsr" /\ x > 0 => x \div 2 ^ n = 1
    /\ op = "lzcnt" /\ x > 0 => x \div 2 ^ (Bits(w) - 1 - n) = 1
    /\ op \in {"tzcnt", "lzcnt"} /\ x = 0 => n = Bits(w) /\ cf

LEMMA ScanSteps2 ==
  ASSUME TypeOK, Next
  PROVE  ScanExact'
<1> DEFINE op == insn'.op
<1>1. ScanExact' <=>
        ScanHolds(op, insn'.w, Num(before'.regs[insn'.s] \cap Field(insn'.w)),
                  Num(regs'[insn'.d] \cap Field(insn'.w)), flags'.cf)
  BY Zenon DEF ScanExact, ScanHolds, Old, Result
<1>2. /\ before'.regs = regs
      /\ flags \in Flag /\ regs \in [Reg -> SUBSET Field(8)]
  BY Steps DEF TypeOK
<1>3. CASE op \notin {"bsf", "bsr", "tzcnt", "lzcnt"}
  <2>1. \A w, x, n, cf : ScanHolds(op, w, x, n, cf)
    BY <1>3 DEF ScanHolds
  <2> QED BY <1>1, <2>1
<1>4. CASE op \in {"bsf", "bsr", "tzcnt", "lzcnt"}
  <2>1. PICK d \in Reg, s \in Reg, w \in Width : Scan(op, d, s, w)
    BY <1>4, Runs
  <2> DEFINE b == ReadGpr(s, w)
             n == IF b = {} THEN Bits(w)
                  ELSE CASE op \in {"bsf", "tzcnt"} -> Trailing(b)
                         [] op = "bsr"   -> Bits(w) - 1 - Leading(b, w)
                         [] op = "lzcnt" -> Leading(b, w)
             f == [flags EXCEPT !.cf = (b = {}), !.of = FALSE, !.zf = (n = 0),
                                !.sf = FALSE, !.pf = ParityOf(Word(n))]
             x == Num(b)
  <2>2. insn'.d = d /\ insn'.w = w /\ insn'.s = s
    BY <2>1, Executed DEF Scan
  <2>3. \/ op \in {"bsf", "bsr"} /\ b = {}
        \/ op \in {"bsf", "bsr"} /\ b # {}
           /\ Writes(d, w, Done(Word(n), [flags EXCEPT !.zf = FALSE]))
        \/ op \in {"tzcnt", "lzcnt"} /\ Writes(d, w, Done(Word(n), f))
    BY <2>1, Zenon DEF Scan
  <2>4. f.cf = (b = {})
    BY <1>2 DEF Flag
  <2>5. b \in SUBSET Field(w) /\ b = regs[s] \cap Field(w)
    BY ReadIs
  <2> HIDE DEF op, b, f
  <2>6. x \in Nat /\ (b = {} <=> x = 0)
    BY <2>5, OperandFacts
  <2> HIDE DEF x
  <2>7. Bits(w) \in Nat /\ 2 <= Bits(w) /\ Field(w) = 0 .. Bits(w) - 1
    BY Sizes
  <2>8. op \in {"bsf", "bsr", "tzcnt", "lzcnt"}
    BY <1>4 DEF op
  <2>9. /\ b = {} => n = Bits(w)
        /\ b # {} /\ op \in {"bsf", "tzcnt"} => n = Trailing(b)
        /\ b # {} /\ op = "bsr" => n = Bits(w) - 1 - Leading(b, w)
        /\ b # {} /\ op = "lzcnt" => n = Leading(b, w)
    OBVIOUS
  <2> HIDE DEF n
  <2>10. b # {} => /\ Trailing(b) \in Field(w) /\ Leading(b, w) \in Field(w)
                   /\ x % 2 ^ Trailing(b) = 0
                   /\ x % 2 ^ (Trailing(b) + 1) # 0
                   /\ x \div 2 ^ (Bits(w) - 1 - Leading(b, w)) = 1
    BY <2>5, Ends, Zenon DEF x
  <2>11. n \in 0 .. Bits(w)
    <3>1. CASE b = {}
      BY <2>7, <2>9, <3>1
    <3>2. CASE b # {}
      <4>1. Trailing(b) \in 0 .. Bits(w) - 1 /\ Leading(b, w) \in 0 .. Bits(w) - 1
        BY <2>7, <2>10, <3>2
      <4> QED BY <2>7, <2>8, <2>9, <3>2, <4>1
    <3> QED BY <3>1, <3>2
  <2>12. ASSUME NEW cf, op \in {"tzcnt", "lzcnt"} => cf = (b = {})
         PROVE  b # {} \/ op \in {"tzcnt", "lzcnt"} => ScanHolds(op, w, x, n, cf)
    <3>1. CASE b = {}
      <4>1. x = 0 /\ ~(x > 0) /\ n = Bits(w)
        BY <2>6, <2>9, <3>1
      <4> QED BY <2>12, <3>1, <4>1 DEF ScanHolds
    <3>2. CASE b # {}
      <4>1. x # 0
        BY <2>6, <3>2
      <4>2. op \in {"bsf", "tzcnt"} => x % 2 ^ n = 0 /\ x % 2 ^ (n + 1) # 0
        BY <2>9, <2>10, <3>2, Zenon
      <4>3. op = "bsr" => x \div 2 ^ n = 1
        BY <2>9, <2>10, <3>2, Zenon
      <4>4. op = "lzcnt" => x \div 2 ^ (Bits(w) - 1 - n) = 1
        BY <2>9, <2>10, <3>2, Zenon
      <4> QED BY <4>1, <4>2, <4>3, <4>4, Zenon DEF ScanHolds
    <3> QED BY <3>1, <3>2
  <2>13. ASSUME NEW g, Writes(d, w, Done(Word(n), g))
         PROVE  Num(regs'[d] \cap Field(w)) = n /\ flags' = g
    <3>1. regs' = WriteGpr(regs, d, w, Word(n)) /\ flags' = g
      BY <2>13 DEF Writes, Done
    <3>2. regs'[d] \cap Field(w) = Word(n) \cap Field(w)
      BY <1>2, <3>1, Written
    <3> QED BY <2>11, <3>1, <3>2, CountKept
  <2> DEFINE v == Num(regs'[d] \cap Field(w))
  <2>14. ScanHolds(op, w, x, v, flags'.cf)
    <3>1. CASE op \in {"bsf", "bsr"} /\ b = {}
      <4>1. ~(x > 0)
        BY <2>6, <3>1
      <4> QED BY <3>1, <4>1 DEF ScanHolds
    <3>2. CASE op \in {"bsf", "bsr"} /\ b # {}
      <4>1. v = n
        BY <2>3, <2>13, <3>2
      <4>2. ~(op \in {"tzcnt", "lzcnt"})
        BY <3>2
      <4> QED BY <2>12, <3>2, <4>1, <4>2
    <3>3. CASE op \in {"tzcnt", "lzcnt"}
      <4>1. v = n /\ flags' = f
        BY <2>3, <2>13, <3>3
      <4> QED BY <2>4, <2>12, <3>3, <4>1
    <3> QED BY <2>8, <3>1, <3>2, <3>3
  <2> QED BY <1>1, <1>2, <2>2, <2>5, <2>14 DEF x, op
<1> QED BY <1>3, <1>4

\* bsf and tzcnt find the lowest one bit, bsr and lzcnt the highest, lzcnt
\* from the top of the operand, and a zero source counts the whole operand.
THEOREM ScansExact == Spec => []ScanExact
<1> DEFINE IInv == TypeOK /\ ScanExact
<1>1. Init => IInv
  <2>1. Init => insn.op = "none"
    BY DEF Init, NoInsn
  <2>2. Init => insn.op \notin {"bsf", "bsr", "tzcnt", "lzcnt"}
    BY <2>1
  <2>3. Init => ScanExact
    BY <2>2 DEF ScanExact
  <2> QED BY <2>3, TypeInvariant
<1>2. IInv /\ [Next]_vars => IInv'
  <2> SUFFICES ASSUME TypeOK, ScanExact, [Next]_vars PROVE ScanExact'
    BY TypeInvariant
  <2>1. CASE UNCHANGED vars
    <3>1. regs' = regs /\ flags' = flags /\ insn' = insn /\ before' = before
      BY <2>1 DEF vars
    <3>2. ScanExact <=>
            ScanHolds(insn.op, insn.w, Num(before.regs[insn.s] \cap Field(insn.w)),
                      Num(regs[insn.d] \cap Field(insn.w)), flags.cf)
      BY Zenon DEF ScanExact, ScanHolds, Old, Result
    <3>3. ScanExact' <=>
            ScanHolds(insn'.op, insn'.w, Num(before'.regs[insn'.s] \cap Field(insn'.w)),
                      Num(regs'[insn'.d] \cap Field(insn'.w)), flags'.cf)
      BY Zenon DEF ScanExact, ScanHolds, Old, Result
    <3> QED BY <3>1, <3>2, <3>3
  <2> QED BY <2>1, ScanSteps2
<1>3. IInv => ScanExact
  OBVIOUS
<1> QED BY <1>1, <1>2, <1>3, PTL DEF Spec

-----------------------------------------------------------------------------
(* Widening.                                                               *)

\* The number of the positions from m to b.
LEMMA NumTop ==
  ASSUME NEW b \in 0 .. WordBits, NEW m \in 0 .. b
  PROVE  Num(m .. b - 1) = 2 ^ b - 2 ^ m
<1> DEFINE low == 0 .. m - 1
           top == m .. b - 1
           d == 2 ^ b
           q == 2 ^ m
<1>1. WordBits \in Nat /\ Field(8) = 0 .. WordBits - 1
  <2>1. 8 \in Width
    BY DEF Width
  <2> QED BY <2>1, Sizes
<1>2. b \in Nat /\ m \in Nat /\ m <= b /\ b <= WordBits /\ m \in 0 .. WordBits
  BY <1>1
<1>3. /\ low \cup top = 0 .. b - 1 /\ low \cap top = {}
      /\ low \in SUBSET Field(8) /\ top \in SUBSET Field(8)
  BY <1>1, <1>2
<1>4. Num(low) = q - 1 /\ Num(0 .. b - 1) = d - 1
  BY <1>2, NumFull
<1>5. d \in Nat /\ q \in Nat
  BY <1>2, PowerPositive
<1> HIDE DEF low, top, d, q
<1>6. Num(low \cup top) = Num(low) + Num(top) /\ Num(top) \in Nat
  <2>1. 0 \in 0 .. WordBits
    BY <1>1
  <2> QED BY <1>3, <2>1, NumUnion, NumCut
<1>7. Num(low \cup top) = d - 1
  BY <1>3, <1>4
<1>8. Num(top) = d - q
  BY <1>4, <1>5, <1>6, <1>7
<1> QED BY <1>8 DEF top, d, q

LEMMA WidthOrder ==
  ASSUME NEW n \in Width, NEW w \in Width, n < w
  PROVE  Bits(n) < Bits(w)
<1>1. CASE ByteBits = 2
  BY <1>1 DEF Bits, Width
<1>2. CASE ByteBits = 4
  BY <1>2 DEF Bits, Width
<1>3. CASE ByteBits = 8
  BY <1>3 DEF Bits, Width
<1> QED BY <1>1, <1>2, <1>3, BitsAssumption

LEMMA WidenSigned ==
  ASSUME NEW n \in Width, NEW w \in Width, n < w, NEW a \in SUBSET Field(n)
  PROVE  Signed(SignExtend(a, n) \cap Field(w), w) = Signed(a, n)
<1> DEFINE m == Bits(n)
           b == Bits(w)
           top == m .. b - 1
           v == SignExtend(a, n) \cap Field(w)
           p == 2 ^ m
           d == 2 ^ b
           x == Num(a)
<1>1. /\ m \in Nat /\ b \in Nat /\ m < b /\ 2 <= m /\ b <= WordBits /\ WordBits \in Nat
      /\ Field(n) = 0 .. m - 1 /\ Field(w) = 0 .. b - 1 /\ Field(8) = 0 .. WordBits - 1
      /\ SignBit(n) = m - 1 /\ SignBit(w) = b - 1
  BY Sizes, WidthOrder
<1> HIDE DEF m, b
<1>2. x \in Nat
  BY OperandFacts
<1>3. p \in Nat /\ d \in Nat
  BY <1>1, PowerPositive
<1>4. a \in SUBSET Field(8) /\ a \in SUBSET Field(w)
  BY <1>1
<1>5. Num(top) = d - p
  <2>1. b \in 0 .. WordBits /\ m \in 0 .. b
    BY <1>1
  <2> QED BY <2>1, NumTop
<1>6. ASSUME SignBit(n) \in a PROVE Signed(v, w) = Signed(a, n)
  <2>1. v = a \cup top
    <3>1. SignExtend(a, n) = a \cup (Field(8) \ Field(n))
      BY <1>6 DEF SignExtend
    <3>2. (Field(8) \ Field(n)) \cap Field(w) = top
      BY <1>1
    <3> HIDE DEF top
    <3> QED BY <1>4, <3>1, <3>2
  <2>2. a \cap top = {} /\ top \in SUBSET Field(8) /\ SignBit(w) \in top
    BY <1>1
  <2> HIDE DEF v, top
  <2>3. Num(a \cup top) = Num(a) + Num(top)
    BY <1>4, <2>2, NumUnion
  <2>4. Signed(v, w) = Num(v) - d
    BY <2>1, <2>2 DEF Signed, d, b
  <2>5. Signed(a, n) = x - p
    BY <1>6 DEF Signed, p, m
  <2>6. Num(v) = x + (d - p)
    BY <1>5, <2>1, <2>3
  <2> HIDE DEF x, d, p
  <2> QED BY <1>2, <1>3, <2>4, <2>5, <2>6
<1>7. ASSUME SignBit(n) \notin a PROVE Signed(v, w) = Signed(a, n)
  <2>1. v = a
    <3>1. SignExtend(a, n) = a \cap Field(n)
      BY <1>7 DEF SignExtend
    <3> QED BY <1>4, <3>1
  <2>2. SignBit(w) \notin a
    BY <1>1
  <2> HIDE DEF v
  <2>3. Signed(v, w) = x - 0
    BY <2>1, <2>2 DEF Signed
  <2>4. Signed(a, n) = x - 0
    BY <1>7 DEF Signed
  <2> QED BY <2>3, <2>4
<1> QED BY <1>6, <1>7 DEF v

LEMMA SameSigned ==
  ASSUME NEW w \in Width, NEW a \in SUBSET Field(w)
  PROVE  SignExtend(a, w) \cap Field(w) = a
BY DEF SignExtend

LEMMA SignSteps ==
  ASSUME TypeOK, Next
  PROVE  SignKept'
<1> DEFINE op == insn'.op
           movsx == Signed(regs'[insn'.d] \cap Field(insn'.w), insn'.w)
                      = Signed(before'.regs[insn'.s] \cap Field(insn'.n), insn'.n)
           cwde == Signed(regs'["rax"] \cap Field(insn'.w), insn'.w)
                      = Signed(before'.regs["rax"] \cap Field(insn'.n), insn'.n)
           cdq == Signed(regs'["rdx"] \cap Field(insn'.w), insn'.w)
                    = IF Signed(before'.regs["rax"] \cap Field(insn'.w), insn'.w) < 0
                      THEN -1 ELSE 0
<1>1. SignKept' <=> /\ op = "movsx" /\ insn'.n <= insn'.w => movsx
                    /\ op = "cwde" => cwde
                    /\ op = "cdq" => cdq
  BY Zenon DEF SignKept, Old, Result
<1>2. before'.regs = regs /\ regs \in [Reg -> SUBSET Field(8)]
  BY Steps DEF TypeOK
<1>3. "rax" \in Reg /\ "rdx" \in Reg
  BY DEF Reg
<1>4. ASSUME NEW r \in Reg, NEW q \in Reg, NEW w \in Width, NEW n \in Width, n <= w,
             regs' = WriteGpr(regs, r, w, SignExtend(ReadGpr(q, n), n))
      PROVE  Signed(regs'[r] \cap Field(w), w) = Signed(regs[q] \cap Field(n), n)
  <2> DEFINE a == ReadGpr(q, n)
  <2>1. a \in SUBSET Field(n) /\ a = regs[q] \cap Field(n)
    BY ReadIs
  <2> HIDE DEF a
  <2>2. regs'[r] \cap Field(w) = SignExtend(a, n) \cap Field(w)
    BY <1>2, <1>4, Written DEF a
  <2>3. Signed(SignExtend(a, n) \cap Field(w), w) = Signed(a, n)
    <3>1. CASE n = w
      BY <2>1, <3>1, SameSigned
    <3>2. CASE n < w
      BY <2>1, <3>2, WidenSigned
    <3>3. n \in Nat /\ w \in Nat
      BY DEF Width
    <3> QED BY <1>4, <3>1, <3>2, <3>3
  <2> QED BY <2>1, <2>2, <2>3
<1>5. CASE op = "movsx" /\ insn'.n <= insn'.w
  <2>1. PICK d \in Reg, s \in Reg, w \in Width, n \in Width : MoveSigned("movsx", d, s, w, n)
    BY <1>5, Runs
  <2>2. insn'.d = d /\ insn'.w = w /\ insn'.s = s /\ insn'.n = n
    BY <2>1, Executed DEF MoveSigned
  <2>3. regs' = WriteGpr(regs, d, w, SignExtend(ReadGpr(s, n), n))
    BY <2>1 DEF MoveSigned, Writes, Done
  <2>4. Signed(regs'[d] \cap Field(w), w) = Signed(regs[s] \cap Field(n), n)
    BY <1>4, <1>5, <2>2, <2>3
  <2>5. movsx
    BY <1>2, <2>2, <2>4
  <2> HIDE DEF movsx, cwde, cdq
  <2> QED BY <1>1, <1>5, <2>5
<1>6. CASE op \notin {"movsx", "cwde", "cdq"} \/ (op = "movsx" /\ ~(insn'.n <= insn'.w))
  <2> HIDE DEF movsx, cwde, cdq
  <2> QED BY <1>1, <1>6
<1>7. CASE op \in {"cwde", "cdq"}
  <2>1. PICK d \in Reg, s \in Reg, w \in Width, n \in Width : Widen(op, d, s, w, n)
    BY <1>7, Runs
  <2>2. insn'.d = d /\ insn'.w = w /\ insn'.s = s /\ insn'.n = n /\ n <= w
    <3>1. 2 * n = w
      BY <2>1 DEF Widen
    <3>2. n <= w
      BY <3>1 DEF Width
    <3> QED BY <2>1, <3>2, Executed DEF Widen
  <2> HIDE DEF op
  <2>5. op = "cwde" => cwde
    <3> SUFFICES ASSUME op = "cwde" PROVE cwde
      OBVIOUS
    <3>1. regs' = WriteGpr(regs, "rax", w, SignExtend(ReadGpr("rax", n), n))
      BY <2>1 DEF Widen
    <3>2. Signed(regs'["rax"] \cap Field(w), w) = Signed(regs["rax"] \cap Field(n), n)
      BY <1>3, <1>4, <2>2, <3>1
    <3> QED BY <1>2, <2>2, <3>2
  <2>6. op = "cdq" => cdq
    <3> SUFFICES ASSUME op = "cdq" PROVE cdq
      OBVIOUS
    <3> DEFINE v == IF SignBit(w) \in regs["rax"] THEN Field(w) ELSE {}
               a == regs["rax"] \cap Field(w)
               p == 2 ^ Bits(w)
    <3>1. regs' = WriteGpr(regs, "rdx", w, v)
      BY <2>1 DEF Widen
    <3> HIDE DEF v
    <3>2. regs'["rdx"] \cap Field(w) = v \cap Field(w)
      BY <1>2, <1>3, <3>1, Written
    <3>3. v \cap Field(w) = v
      BY DEF v
    <3>4. SignBit(w) \in Field(w) /\ Field(w) = 0 .. Bits(w) - 1
          /\ Bits(w) \in Nat /\ Bits(w) <= WordBits /\ WordBits \in Nat
      BY Sizes
    <3>5. a \in SUBSET Field(w)
      OBVIOUS
    <3>6. SignBit(w) \in a <=> SignBit(w) \in regs["rax"]
      BY <3>4
    <3> HIDE DEF a
    <3>7. Num(a) \in Nat /\ Num(a) < p
      BY <3>5, OperandFacts
    <3>8. p \in Nat
      BY <3>4, PowerPositive
    <3>9. CASE SignBit(w) \in a
      <4>1. v = Field(w)
        BY <3>6, <3>9 DEF v
      <4>2. Num(Field(w)) = p - 1
        <5>1. Bits(w) \in 0 .. WordBits
          BY <3>4
        <5>2. Num(0 .. Bits(w) - 1) = p - 1
          BY <5>1, NumFull
        <5> QED BY <3>4, <5>2
      <4>3. Signed(v, w) = (p - 1) - p
        BY <3>4, <4>1, <4>2 DEF Signed
      <4>4. Signed(a, w) = Num(a) - p
        BY <3>9 DEF Signed
      <4> HIDE DEF p
      <4>5. Signed(v, w) = -1 /\ Signed(a, w) < 0
        BY <3>7, <3>8, <4>3, <4>4
      <4>6. Signed(v, w) = IF Signed(a, w) < 0 THEN -1 ELSE 0
        BY <4>5
      <4> QED BY <1>2, <2>2, <3>2, <3>3, <4>6 DEF a
    <3>10. CASE SignBit(w) \notin a
      <4>1. v = {} /\ SignBit(w) \notin v
        BY <3>6, <3>10 DEF v
      <4>2. Signed(v, w) = 0 - 0
        BY <4>1, NumEmpty DEF Signed
      <4>3. Signed(a, w) = Num(a) - 0
        BY <3>10 DEF Signed
      <4>4. Signed(v, w) = 0 /\ ~(Signed(a, w) < 0)
        BY <3>7, <4>2, <4>3
      <4>5. Signed(v, w) = IF Signed(a, w) < 0 THEN -1 ELSE 0
        BY <4>4
      <4> QED BY <1>2, <2>2, <3>2, <3>3, <4>5 DEF a
    <3> QED BY <3>9, <3>10
  <2> HIDE DEF movsx, cwde, cdq
  <2> QED BY <1>1, <1>7, <2>5, <2>6 DEF op
<1> QED BY <1>5, <1>6, <1>7

\* movsx, cbw to cdqe and cwd to cqo keep the signed value of their source.
THEOREM SignsKept == Spec => []SignKept
<1> DEFINE IInv == TypeOK /\ SignKept
<1>1. Init => IInv
  <2>1. Init => insn.op = "none"
    BY DEF Init, NoInsn
  <2>2. Init => SignKept
    BY <2>1 DEF SignKept
  <2> QED BY <2>2, TypeInvariant
<1>2. IInv /\ [Next]_vars => IInv'
  <2> SUFFICES ASSUME TypeOK, SignKept, [Next]_vars PROVE SignKept'
    BY TypeInvariant
  <2>1. CASE UNCHANGED vars
    <3>1. regs' = regs /\ flags' = flags /\ insn' = insn /\ before' = before
      BY <2>1 DEF vars
    <3> QED BY <3>1 DEF SignKept, Old, Result
  <2> QED BY <2>1, SignSteps
<1>3. IInv => SignKept
  OBVIOUS
<1> QED BY <1>1, <1>2, <1>3, PTL DEF Spec
=============================================================================
