------------------------------ MODULE NatFacts ------------------------------
(***************************************************************************)
(* Facts about the naturals the other proofs rest on.  The library states  *)
(* the least-number principle and induction for an operator P(_), which    *)
(* the installed provers cannot instantiate; here both are about a SET of  *)
(* naturals, and follow from the well-foundedness of the strict subset     *)
(* ordering, applied to the initial segments of the naturals.              *)
(***************************************************************************)
EXTENDS Integers, FiniteSetTheorems, FunctionTheorems, WellFoundedInduction, TLAPS

\* A non-empty set of naturals has a least element (used wherever the code
\* takes the top of a queue).
LEMMA LeastNatural ==
  ASSUME NEW T \in SUBSET Nat, T # {}
  PROVE  \E x \in T : \A y \in T : x <= y
<1> DEFINE R == StrictSubsetOrdering(Nat)
           F == {0 .. x : x \in T}
<1>1. IsWellFoundedOn(R, FiniteSubsetsOf(Nat))
  BY FS_StrictSubsetOrderingWellFounded
<1>2. F \subseteq FiniteSubsetsOf(Nat)
  <2> SUFFICES ASSUME NEW x \in T PROVE 0 .. x \in FiniteSubsetsOf(Nat)
    OBVIOUS
  <2> IsFiniteSet(0 .. x)
    BY FS_Interval
  <2> QED BY DEF FiniteSubsetsOf
<1>3. F # {}
  OBVIOUS
<1>4. PICK I \in F : \A J \in F : ~(<<J, I>> \in R)
  <2> HIDE DEF R, F
  <2> QED BY <1>1, <1>2, <1>3, WFMin
<1>5. PICK x \in T : I = 0 .. x
  OBVIOUS
<1>6. ASSUME NEW y \in T, ~(x <= y) PROVE FALSE
  <2>1. 0 .. y \in F
    OBVIOUS
  <2>2. 0 .. y \subseteq 0 .. x /\ x \in 0 .. x /\ x \notin 0 .. y
    BY <1>6
  <2>3. 0 .. y \in SUBSET Nat /\ 0 .. x \in SUBSET Nat
    OBVIOUS
  <2>4. <<0 .. y, 0 .. x>> \in R
    BY <2>2, <2>3, Zenon DEF StrictSubsetOrdering
  <2> QED BY <1>4, <1>5, <2>1, <2>4
<1> QED BY <1>6

\* Induction for a SET of naturals.
LEMMA NatSetInduction ==
  ASSUME NEW T \in SUBSET Nat, 0 \in T, \A n \in T : n + 1 \in T
  PROVE  T = Nat
<1> SUFFICES ASSUME Nat \ T # {} PROVE FALSE
  OBVIOUS
<1>1. PICK m \in Nat \ T : \A y \in Nat \ T : m <= y
  BY LeastNatural
<1>2. m - 1 \in Nat /\ m - 1 \notin Nat \ T
  BY <1>1
<1> QED BY <1>1, <1>2

\* The powers of two, of which the provers know nothing: they count the
\* subsets of a finite set.
LEMMA PowerStep ==
  ASSUME NEW n \in Nat
  PROVE  2 ^ n \in Nat /\ 2 ^ (n + 1) = 2 * 2 ^ n
<1> DEFINE S == 1 .. n
           P == SUBSET S
           Q == {A \cup {n + 1} : A \in P}
           f == [A \in P |-> A \cup {n + 1}]
<1>1. IsFiniteSet(S) /\ Cardinality(S) = n
  BY FS_Interval
<1>2. IsFiniteSet(P) /\ Cardinality(P) = 2 ^ n
  BY <1>1, FS_SUBSET
<1>3. n + 1 \notin S
  OBVIOUS
<1>4. IsFiniteSet(S \cup {n + 1}) /\ Cardinality(S \cup {n + 1}) = n + 1
  BY <1>1, <1>3, FS_AddElement
<1>5. Cardinality(SUBSET (S \cup {n + 1})) = 2 ^ (n + 1)
  BY <1>4, FS_SUBSET
<1>6. SUBSET (S \cup {n + 1}) = P \cup Q
  <2>1. ASSUME NEW B \in SUBSET (S \cup {n + 1}), n + 1 \in B PROVE B \in Q
    <3>1. B \ {n + 1} \in P /\ B = (B \ {n + 1}) \cup {n + 1}
      BY <2>1
    <3> QED BY <3>1
  <2>2. ASSUME NEW B \in SUBSET (S \cup {n + 1}), n + 1 \notin B PROVE B \in P
    BY <2>2
  <2>3. P \cup Q \subseteq SUBSET (S \cup {n + 1})
    OBVIOUS
  <2> QED BY <2>1, <2>2, <2>3
<1>7. f \in Bijection(P, Q)
  <2>1. f \in [P -> Q]
    OBVIOUS
  <2>2. ASSUME NEW A \in P, NEW B \in P, f[A] = f[B] PROVE A = B
    <3>1. n + 1 \notin A /\ n + 1 \notin B
      BY <1>3
    <3>2. A \cup {n + 1} = B \cup {n + 1}
      BY <2>2
    <3> QED BY <3>1, <3>2
  <2>3. \A B \in Q : \E A \in P : f[A] = B
    OBVIOUS
  <2> QED BY <2>1, <2>2, <2>3 DEF Bijection, Injection, Surjection, IsInjective
<1>8. IsFiniteSet(Q) /\ Cardinality(Q) = 2 ^ n
  BY <1>2, <1>7, FS_Bijection DEF ExistsBijection
<1>9. P \cap Q = {}
  BY <1>3
<1>10. Cardinality(P \cup Q) = 2 ^ n + 2 ^ n - Cardinality(P \cap Q)
  BY <1>2, <1>8, FS_Union
<1>11. Cardinality(P \cap Q) = 0
  BY <1>9, FS_EmptySet
<1>12. 2 ^ n \in Nat
  BY <1>2, FS_CardinalityType
<1>13. 2 ^ (n + 1) = 2 ^ n + 2 ^ n - 0
  BY <1>5, <1>6, <1>10, <1>11, Zenon
<1> DEFINE p == 2 ^ n
           q == 2 ^ (n + 1)
<1> HIDE DEF p, q
<1>14. p \in Nat /\ q = p + p - 0
  BY <1>12, <1>13, Zenon DEF p, q
<1>15. q = 2 * p
  BY <1>14
<1> QED BY <1>12, <1>15, Zenon DEF p, q

LEMMA PowerZero == 2 ^ 0 = 1
<1>1. IsFiniteSet({}) /\ Cardinality({}) = 0
  BY FS_EmptySet
<1>2. Cardinality(SUBSET {}) = 2 ^ 0
  BY <1>1, FS_SUBSET
<1>3. SUBSET {} = {{}}
  OBVIOUS
<1>4. Cardinality({{}}) = 1
  BY FS_Singleton
<1> QED BY <1>2, <1>3, <1>4

LEMMA PowerPositive ==
  ASSUME NEW n \in Nat
  PROVE  2 ^ n \in Nat /\ 2 ^ n >= 1
<1> DEFINE T == {k \in Nat : 2 ^ k >= 1}
<1>1. 0 \in T
  BY PowerZero
<1>2. ASSUME NEW k \in T PROVE k + 1 \in T
  BY PowerStep
<1>3. T \in SUBSET Nat
  OBVIOUS
<1> HIDE DEF T
<1>4. T = Nat
  BY <1>1, <1>2, <1>3, NatSetInduction
<1> QED BY <1>4, PowerStep DEF T

LEMMA PowerExceeds ==
  ASSUME NEW n \in Nat
  PROVE  2 ^ n > n
<1> DEFINE T == {k \in Nat : 2 ^ k > k}
<1>1. 0 \in T
  BY PowerZero
<1>2. ASSUME NEW k \in T PROVE k + 1 \in T
  BY PowerStep
<1>3. T \in SUBSET Nat
  OBVIOUS
<1> HIDE DEF T
<1>4. T = Nat
  BY <1>1, <1>2, <1>3, NatSetInduction
<1> QED BY <1>4 DEF T

LEMMA PowerSum ==
  ASSUME NEW m \in Nat, NEW n \in Nat
  PROVE  2 ^ (m + n) = 2 ^ m * 2 ^ n
<1> DEFINE T == {k \in Nat : 2 ^ (m + k) = 2 ^ m * 2 ^ k}
<1>0. \A k \in Nat : 2 ^ k \in Nat
  BY PowerStep
<1>1. 0 \in T
  BY PowerZero, <1>0
<1>2. ASSUME NEW k \in T PROVE k + 1 \in T
  <2> DEFINE a == 2 ^ m
             b == 2 ^ k
  <2>1. 2 ^ (m + (k + 1)) = 2 * 2 ^ (m + k)
    <3>1. 2 ^ ((m + k) + 1) = 2 * 2 ^ (m + k)
      BY PowerStep
    <3>2. (m + k) + 1 = m + (k + 1)
      OBVIOUS
    <3> QED BY <3>1, <3>2
  <2>2. 2 ^ (k + 1) = 2 * b
    BY PowerStep
  <2>3. 2 ^ (m + k) = a * b
    OBVIOUS
  <2>4. a \in Nat /\ b \in Nat
    BY <1>0
  <2> HIDE DEF a, b
  <2>5. 2 * (a * b) = a * (2 * b)
    BY <2>4
  <2> QED BY <2>1, <2>2, <2>3, <2>5 DEF a
<1>3. T \in SUBSET Nat
  OBVIOUS
<1> HIDE DEF T
<1>4. T = Nat
  BY <1>1, <1>2, <1>3, NatSetInduction
<1> QED BY <1>4 DEF T
-----------------------------------------------------------------------------
\* Division with remainder, for divisors the provers cannot evaluate.
LEMMA DivisionUnique ==
  ASSUME NEW d \in Nat, NEW q \in Nat, NEW r \in Nat, r < d
  PROVE  (q * d + r) \div d = q /\ (q * d + r) % d = r
<1> DEFINE n == q * d + r
           x == n \div d
           y == n % d
<1>1. n \in Nat /\ d \in Nat \ {0}
  OBVIOUS
<1>2. x \in Int /\ y \in 0 .. d - 1 /\ n = d * x + y
  BY <1>1
<1>3. n = q * d + r
  OBVIOUS
<1> HIDE DEF n, x, y
<1>4. d * (x - q) = r - y
  BY <1>2, <1>3
<1>5. x - q >= 1 => d * (x - q) >= d
  <2> DEFINE z == x - q
  <2>1. z \in Int
    BY <1>2
  <2> HIDE DEF z
  <2>2. z >= 1 => d * z >= d
    BY <2>1, <1>1
  <2> QED BY <2>2 DEF z
<1>6. x - q <= 0 - 1 => d * (x - q) <= 0 - d
  <2> DEFINE z == x - q
  <2>1. z \in Int
    BY <1>2
  <2> HIDE DEF z
  <2>2. z <= 0 - 1 => d * z <= 0 - d
    BY <2>1, <1>1
  <2> QED BY <2>2 DEF z
<1>7. x = q
  BY <1>1, <1>2, <1>4, <1>5, <1>6
<1>8. y = r
  BY <1>2, <1>4, <1>7
<1> QED BY <1>7, <1>8 DEF n, x, y

\* The quotient and the remainder.
LEMMA Division ==
  ASSUME NEW n \in Nat, NEW d \in Nat \ {0}
  PROVE  /\ n \div d \in Nat /\ n % d \in 0 .. d - 1
         /\ n = (n \div d) * d + (n % d)
<1> DEFINE x == n \div d
           y == n % d
<1>1. x \in Int /\ y \in 0 .. d - 1 /\ n = d * x + y
  OBVIOUS
<1> HIDE DEF x, y
<1>2. x >= 0
  <2>1. x <= 0 - 1 => d * x <= 0 - d
    BY <1>1
  <2> QED BY <1>1, <2>1
<1>3. d * x = x * d
  BY <1>1
<1> QED BY <1>1, <1>2, <1>3 DEF x, y

LEMMA DivModNat ==
  ASSUME NEW n \in Nat, NEW d \in Nat \ {0}
  PROVE  n \div d \in Nat /\ n % d \in Nat /\ n % d < d
<1> DEFINE y == n % d
<1>1. n \div d \in Nat /\ y \in 0 .. d - 1
  BY Division
<1> HIDE DEF y
<1>2. y \in Nat /\ y < d
  BY <1>1
<1> QED BY <1>1, <1>2 DEF y

LEMMA SmallDividend ==
  ASSUME NEW d \in Nat, NEW n \in Nat, n < d
  PROVE  n \div d = 0 /\ n % d = n
<1>1. 0 * d + n = n /\ 0 \in Nat
  OBVIOUS
<1>2. (0 * d + n) \div d = 0 /\ (0 * d + n) % d = n
  BY <1>1, DivisionUnique
<1> QED BY <1>1, <1>2

LEMMA ModPlusMultiple ==
  ASSUME NEW n \in Nat, NEW d \in Nat \ {0}, NEW m \in Nat
  PROVE  (n + m * d) % d = n % d
<1> DEFINE x == n \div d
           y == n % d
<1>1. x \in Nat /\ y \in 0 .. d - 1 /\ n = x * d + y
  BY Division
<1> HIDE DEF x, y
<1>2. n + m * d = (x + m) * d + y
  BY <1>1
<1>3. ((x + m) * d + y) % d = y
  <2>1. x + m \in Nat /\ y \in Nat /\ y < d
    BY <1>1
  <2> QED BY <2>1, DivisionUnique
<1> QED BY <1>2, <1>3 DEF y

\* The same for integers: the remainder is that of two's complement.
LEMMA IntDivision ==
  ASSUME NEW n \in Int, NEW d \in Nat \ {0}
  PROVE  /\ n \div d \in Int /\ n % d \in Nat /\ n % d < d
         /\ n = (n \div d) * d + (n % d)
<1> DEFINE x == n \div d
           y == n % d
<1>1. x \in Int /\ y \in 0 .. d - 1 /\ n = d * x + y
  OBVIOUS
<1> HIDE DEF x, y
<1>2. d * x = x * d
  BY <1>1
<1>3. y \in Nat /\ y < d
  BY <1>1
<1> QED BY <1>1, <1>2, <1>3 DEF x, y

LEMMA IntDivisionUnique ==
  ASSUME NEW d \in Nat, NEW q \in Int, NEW r \in Nat, r < d
  PROVE  (q * d + r) \div d = q /\ (q * d + r) % d = r
<1> DEFINE n == q * d + r
           x == n \div d
           y == n % d
<1>1. n \in Int /\ d \in Nat \ {0}
  OBVIOUS
<1>2. x \in Int /\ y \in Nat /\ y < d /\ n = x * d + y
  BY <1>1, IntDivision
<1>3. n = q * d + r
  OBVIOUS
<1> HIDE DEF n, x, y
<1>4. d * (x - q) = r - y
  BY <1>2, <1>3
<1>5. x - q >= 1 => d * (x - q) >= d
  <2> DEFINE e == x - q
  <2>1. e \in Int
    BY <1>2
  <2> HIDE DEF e
  <2>2. e >= 1 => d * e >= d
    BY <2>1, <1>1
  <2> QED BY <2>2 DEF e
<1>6. x - q <= 0 - 1 => d * (x - q) <= 0 - d
  <2> DEFINE e == x - q
  <2>1. e \in Int
    BY <1>2
  <2> HIDE DEF e
  <2>2. e <= 0 - 1 => d * e <= 0 - d
    BY <2>1, <1>1
  <2> QED BY <2>2 DEF e
<1>7. x = q
  BY <1>1, <1>2, <1>4, <1>5, <1>6
<1>8. y = r
  BY <1>2, <1>4, <1>7
<1> QED BY <1>7, <1>8 DEF n, x, y

LEMMA IntModMultiple ==
  ASSUME NEW n \in Int, NEW d \in Nat \ {0}, NEW m \in Int
  PROVE  (n + m * d) % d = n % d
<1> DEFINE x == n \div d
           y == n % d
<1>1. x \in Int /\ y \in Nat /\ y < d /\ n = x * d + y
  BY IntDivision
<1> HIDE DEF x, y
<1>2. n + m * d = (x + m) * d + y /\ x + m \in Int
  BY <1>1
<1> DEFINE q == x + m
<1> HIDE DEF q
<1>3. q \in Int /\ n + m * d = q * d + y
  BY <1>2 DEF q
<1>4. (q * d + y) % d = y
  BY <1>1, <1>3, IntDivisionUnique
<1> QED BY <1>3, <1>4 DEF y

\* A remainder by k * d, taken in two steps.
LEMMA IntModSplit ==
  ASSUME NEW n \in Int, NEW d \in Nat \ {0}, NEW k \in Nat \ {0}
  PROVE  /\ n % (k * d) = ((n \div d) % k) * d + (n % d)
         /\ (n % (k * d)) % d = n % d
<1> DEFINE q == n \div d
           r == n % d
           u == q \div k
           v == q % k
<1>1. q \in Int /\ r \in Nat /\ r < d /\ n = q * d + r
  BY IntDivision
<1> HIDE DEF q, r
<1>2. u \in Int /\ v \in Nat /\ v < k /\ q = u * k + v
  BY <1>1, IntDivision
<1> HIDE DEF u, v
<1> DEFINE c == k * d
           e == v * d + r
<1>3. c \in Nat \ {0} /\ e \in Nat
  BY <1>1, <1>2
<1>4. e < c
  <2>1. (v + 1) * d <= k * d
    BY <1>2
  <2>2. (v + 1) * d = v * d + d
    BY <1>2
  <2> QED BY <1>1, <1>2, <2>1, <2>2
<1>5. n = u * c + e
  <2>1. (u * k + v) * d = u * (k * d) + v * d
    BY <1>2
  <2> QED BY <1>1, <1>2, <2>1
<1> HIDE DEF c, e
<1>6. n % c = e
  BY <1>2, <1>3, <1>4, <1>5, IntDivisionUnique
<1>7. e % d = r
  <2>1. (v * d + r) % d = r
    BY <1>1, <1>2, IntDivisionUnique
  <2> QED BY <2>1 DEF e
<1> QED BY <1>6, <1>7 DEF c, e, v, q, r

\* The lowest bit of a number, which is what bsf looks for.
LEMMA LowestBit ==
  ASSUME NEW v \in Nat \ {0}, NEW m \in Nat, v < 2 ^ m
  PROVE  \E n \in 0 .. m - 1 :
            /\ (v \div 2 ^ n) % 2 = 1
            /\ \A k \in 0 .. n - 1 : (v \div 2 ^ k) % 2 = 0
<1> DEFINE T == {j \in Nat : v % 2 ^ j # 0}
<1>1. m \in T
  <2>1. v % 2 ^ m = v
    BY PowerPositive, SmallDividend
  <2> QED BY <2>1
<1>2. PICK j \in T : \A i \in T : j <= i
  BY <1>1, LeastNatural
<1>3. j \in Nat /\ j # 0 /\ j <= m /\ v % 2 ^ j # 0
  <2>1. v % 2 ^ 0 = 0
    BY PowerZero
  <2> QED BY <1>1, <1>2, <2>1
\* A power that divides v, and what is left.
<1>4. ASSUME NEW i \in Nat, v % 2 ^ i = 0
      PROVE  \E q \in Nat : v = q * 2 ^ i /\ v \div 2 ^ i = q
  <2> DEFINE p == 2 ^ i
  <2>1. p \in Nat \ {0} /\ v % p = 0
    BY <1>4, PowerPositive
  <2> HIDE DEF p
  <2>2. v \div p \in Nat /\ v = (v \div p) * p + (v % p)
    BY <2>1, Division
  <2> DEFINE q == v \div p
  <2>3. q \in Nat /\ v = q * p + 0
    BY <2>1, <2>2
  <2> HIDE DEF q
  <2>4. v = q * p
    BY <2>1, <2>3
  <2> QED BY <2>3, <2>4 DEF p, q
<1>5. ASSUME NEW k \in 0 .. j - 2 PROVE (v \div 2 ^ k) % 2 = 0
  <2>1. k \in Nat /\ k + 1 \in Nat /\ k + 1 \notin T
    BY <1>2, <1>3
  <2>2. PICK q \in Nat : v = q * 2 ^ (k + 1)
    BY <1>4, <2>1
  <2> DEFINE p == 2 ^ k
  <2>3. p \in Nat \ {0} /\ 2 ^ (k + 1) = 2 * p
    BY <2>1, PowerStep, PowerPositive
  <2> HIDE DEF p
  <2>4. v = (2 * q) * p + 0 /\ 2 * q \in Nat /\ 0 < p
    BY <2>2, <2>3
  <2>5. v \div p = 2 * q
    BY <2>3, <2>4, DivisionUnique
  <2>6. (2 * q) % 2 = 0
    OBVIOUS
  <2> QED BY <2>5, <2>6 DEF p
<1> DEFINE n == j - 1
<1>6. n \in Nat /\ n \in 0 .. m - 1 /\ n + 1 = j /\ n \notin T
  BY <1>2, <1>3
<1>7. (v \div 2 ^ n) % 2 = 1
  <2>1. PICK q \in Nat : v = q * 2 ^ n /\ v \div 2 ^ n = q
    BY <1>4, <1>6
  <2>2. SUFFICES ASSUME q % 2 = 0 PROVE FALSE
    BY <2>1
  <2> DEFINE p == 2 ^ n
             h == q \div 2
  <2>3. p \in Nat \ {0} /\ 2 ^ j = 2 * p
    <3>1. 2 ^ (n + 1) = 2 * 2 ^ n
      BY <1>6, PowerStep
    <3> QED BY <1>6, <3>1, PowerPositive
  <2>4. h \in Nat /\ q = 2 * h /\ v = q * p
    BY <2>1, <2>2
  <2> HIDE DEF p, h
  <2>5. v = h * (2 * p) + 0 /\ 0 < 2 * p /\ 2 * p \in Nat
    BY <2>3, <2>4
  <2>6. v % (2 * p) = 0
    BY <2>4, <2>5, DivisionUnique
  <2> QED BY <1>3, <2>3, <2>6
<1> QED BY <1>5, <1>6, <1>7

-----------------------------------------------------------------------------
\* A definition by recursion on 0 .. n has a value: the form of every
\* recursive function in these modules.
IsRecursion(f, S, first, n, step) ==
    /\ f \in [0 .. n -> S]
    /\ f[0] = first
    /\ \A i \in 1 .. n : f[i] = step[<<i, f[i - 1]>>]

LEMMA RecursionExists ==
  ASSUME NEW S, NEW first \in S, NEW n \in Nat, NEW step \in [(1 .. n) \X S -> S]
  PROVE  \E f : IsRecursion(f, S, first, n, step)
<1> DEFINE T == {k \in Nat : k <= n => \E f : IsRecursion(f, S, first, k, step)}
<1>1. 0 \in T
  <2>1. IsRecursion([i \in 0 .. 0 |-> first], S, first, 0, step)
    BY DEF IsRecursion
  <2> QED BY <2>1
<1>2. ASSUME NEW k \in T PROVE k + 1 \in T
  <2> SUFFICES ASSUME k + 1 <= n PROVE \E f : IsRecursion(f, S, first, k + 1, step)
    OBVIOUS
  <2>0. PICK f : IsRecursion(f, S, first, k, step)
    OBVIOUS
  <2>1. /\ f \in [0 .. k -> S] /\ f[0] = first
        /\ \A i \in 1 .. k : f[i] = step[<<i, f[i - 1]>>]
    BY <2>0 DEF IsRecursion
  <2> DEFINE g == [i \in 0 .. k + 1 |-> IF i <= k THEN f[i] ELSE step[<<k + 1, f[k]>>]]
  <2>2. k \in 0 .. k /\ k + 1 \in 1 .. n /\ f[k] \in S
    BY <2>1
  <2>3. step[<<k + 1, f[k]>>] \in S
    BY <2>2
  <2>4. g \in [0 .. k + 1 -> S]
    BY <2>1, <2>3
  <2>5. g[0] = first
    BY <2>1
  <2>6. ASSUME NEW i \in 1 .. k + 1 PROVE g[i] = step[<<i, g[i - 1]>>]
    <3>1. i - 1 \in 0 .. k /\ g[i - 1] = f[i - 1]
      OBVIOUS
    <3>2. CASE i <= k
      <4>1. i \in 1 .. k /\ g[i] = f[i]
        BY <3>2
      <4> QED BY <2>1, <3>1, <4>1
    <3>3. CASE i = k + 1
      <4>1. g[i] = step[<<k + 1, f[k]>>] /\ i - 1 = k
        BY <3>3
      <4> QED BY <3>1, <3>3, <4>1
    <3> QED BY <3>2, <3>3
  <2>7. IsRecursion(g, S, first, k + 1, step)
    BY <2>4, <2>5, <2>6 DEF IsRecursion
  <2> QED BY <2>7
<1>3. T \in SUBSET Nat
  OBVIOUS
<1>4. T = Nat
  <2> HIDE DEF T
  <2> QED BY <1>1, <1>2, <1>3, NatSetInduction
<1> QED BY <1>4
=============================================================================
