------------------------------ MODULE BusProofs ------------------------------
(***************************************************************************)
(* Proofs about the bus: the table is sound whatever is mapped and in      *)
(* whatever order, the two-entry overlap check of map() and the binary     *)
(* search of resolve() mean what a search of the whole table would.        *)
(***************************************************************************)
EXTENDS Bus, NatFacts, TLAPS

TableType == mappings \in Seq(Mapping) /\ Len(mappings) <= MaxMappings
TableInv == TableType /\ MappingsSound

\* What the type says of one entry.
LEMMA EntryType ==
  ASSUME TableType
  PROVE  /\ Len(mappings) \in Nat
         /\ \A i \in 1 .. Len(mappings) :
               /\ mappings[i] \in Mapping
               /\ mappings[i].base \in Nat /\ mappings[i].end \in Nat
               /\ mappings[i].base < AddrSpace /\ mappings[i].end < AddrSpace
<1>1. mappings \in Seq(Mapping)
  BY DEF TableType
<1>2. \A i \in 1 .. Len(mappings) : mappings[i] \in Mapping
  <2> HIDE DEF Mapping
  <2> QED BY <1>1
<1>3. \A m \in Mapping : /\ m.base \in Nat /\ m.end \in Nat
                         /\ m.base < AddrSpace /\ m.end < AddrSpace
  BY AddrAssumption DEF Mapping, Addr
<1> QED BY <1>1, <1>2, <1>3

\* A range that map() does not call invalid ends inside the address space.
LEMMA ValidRange ==
  ASSUME NEW base \in Addr, NEW size \in Addr
  PROVE  Invalid(base, size) <=> size = 0 \/ base + size >= AddrSpace
<1>1. AddrSpace \in Nat \ {0} /\ base \in Nat /\ size \in Nat
      /\ base < AddrSpace /\ size < AddrSpace
  BY AddrAssumption DEF Addr
<1>2. CASE base + size < AddrSpace
  <2>1. base + size \in 0 .. AddrSpace - 1
    BY <1>1, <1>2
  <2>2. (base + size) % AddrSpace = base + size
    BY <1>1, <2>1
  <2> QED BY <1>1, <1>2, <2>2 DEF Invalid, Wraps
<1>3. CASE base + size >= AddrSpace
  <2>1. base + size \in AddrSpace .. 2 * AddrSpace - 1
    BY <1>1, <1>3
  <2>2. (base + size) % AddrSpace = base + size - AddrSpace
    BY <1>1, <2>1
  <2> QED BY <1>1, <1>3, <2>2 DEF Invalid, Wraps
<1> QED BY <1>1, <1>2, <1>3

\* At the insertion point of a sound table, no clash with the two neighbours
\* means no clash with any entry.
LEMMA NeighboursDecide ==
  ASSUME TableInv, NEW base \in Nat, NEW size \in Nat \ {0},
         NEW k \in 1 .. Len(mappings) + 1, UpperBound(k, base)
  PROVE  Clash(k, base, size) = {} <=>
           \A i \in 1 .. Len(mappings) :
              IF i < k THEN mappings[i].end <= base
                       ELSE base + size <= mappings[i].base
<1>1. /\ Len(mappings) \in Nat
      /\ \A i \in 1 .. Len(mappings) :
            mappings[i].base \in Nat /\ mappings[i].end \in Nat
  BY EntryType DEF TableInv
<1>0. Clash(k, base, size) = {} <=>
        /\ ~(k > 1 /\ mappings[k - 1].end > base)
        /\ ~(k <= Len(mappings) /\ mappings[k].base < base + size)
  BY Zenon DEF Clash
<1>2. ASSUME Clash(k, base, size) = {}, NEW i \in 1 .. Len(mappings)
      PROVE  IF i < k THEN mappings[i].end <= base ELSE base + size <= mappings[i].base
  <2>1. CASE i < k
    <3>1. k - 1 \in 1 .. Len(mappings) /\ mappings[k - 1].end <= base
      <4>1. k - 1 \in 1 .. Len(mappings) /\ k > 1
        BY <1>1, <2>1
      <4> QED BY <1>0, <1>1, <1>2, <4>1
    <3>2. CASE i = k - 1
      BY <2>1, <3>1, <3>2
    <3>3. CASE i < k - 1
      <4>1. /\ mappings[i].end <= mappings[k - 1].base
            /\ mappings[k - 1].base < mappings[k - 1].end
        BY <3>1, <3>3 DEF TableInv, MappingsSound
      <4> QED BY <1>1, <2>1, <3>1, <4>1
    <3> QED BY <1>1, <2>1, <3>2, <3>3
  <2>2. CASE i >= k
    <3>1. k \in 1 .. Len(mappings) /\ base + size <= mappings[k].base
      <4>1. k \in 1 .. Len(mappings)
        BY <1>1, <2>2
      <4> QED BY <1>0, <1>1, <1>2, <4>1
    <3>2. CASE i = k
      BY <3>1, <3>2
    <3>3. CASE i > k
      <4>1. /\ mappings[k].end <= mappings[i].base
            /\ mappings[k].base < mappings[k].end
        BY <3>1, <3>3 DEF TableInv, MappingsSound
      <4> QED BY <1>1, <2>2, <3>1, <4>1
    <3> QED BY <1>1, <2>2, <3>2, <3>3
  <2> QED BY <1>1, <2>1, <2>2
<1>3. ASSUME \A i \in 1 .. Len(mappings) :
               IF i < k THEN mappings[i].end <= base
                        ELSE base + size <= mappings[i].base
      PROVE  Clash(k, base, size) = {}
  <2>1. k > 1 => ~(mappings[k - 1].end > base)
    BY <1>1, <1>3
  <2>2. k <= Len(mappings) => ~(mappings[k].base < base + size)
    BY <1>1, <1>3
  <2> QED BY <1>0, <2>1, <2>2
<1> QED BY <1>2, <1>3

\* The sequence the insertion builds.
LEMMA Inserted ==
  ASSUME TableType, NEW k \in 1 .. Len(mappings) + 1, NEW m \in Mapping
  PROVE  /\ Insert(k, m) \in Seq(Mapping)
         /\ Len(Insert(k, m)) = Len(mappings) + 1
         /\ \A i \in 1 .. Len(mappings) + 1 :
               Insert(k, m)[i] = IF i < k THEN mappings[i]
                                 ELSE IF i = k THEN m ELSE mappings[i - 1]
<1>1. Len(mappings) \in Nat /\ \A i \in 1 .. Len(mappings) : mappings[i] \in Mapping
  BY EntryType
<1>2. ASSUME NEW i \in 1 .. Len(mappings) + 1
      PROVE  (IF i < k THEN mappings[i] ELSE IF i = k THEN m ELSE mappings[i - 1])
               \in Mapping
  <2> HIDE DEF Mapping
  <2>1. CASE i < k
    BY <1>1, <2>1
  <2>2. CASE i = k
    BY <2>2
  <2>3. CASE i > k
    BY <1>1, <2>3
  <2> QED BY <1>1, <2>1, <2>2, <2>3
<1>3. Insert(k, m) \in [1 .. Len(mappings) + 1 -> Mapping]
  <2> HIDE DEF Mapping
  <2> QED BY <1>2 DEF Insert
<1>4. Insert(k, m) \in Seq(Mapping) /\ Len(Insert(k, m)) = Len(mappings) + 1
  <2> HIDE DEF Mapping, Insert
  <2> QED BY <1>1, <1>3
<1> QED BY <1>4 DEF Insert

\* What a call of map() can do, with its verdict.
LEMMA MapOutcome ==
  ASSUME NEW base \in Addr, NEW size \in Addr, NEW r \in Region, Map(base, size, r)
  PROVE  \/ Invalid(base, size) /\ mappings' = mappings /\ ~result'.ok
         \/ /\ ~Invalid(base, size)
            /\ \E k \in 1 .. Len(mappings) + 1 :
                  /\ UpperBound(k, base)
                  /\ \/ /\ Clash(k, base, size) # {}
                        /\ mappings' = mappings
                        /\ ~result'.ok
                     \/ /\ Clash(k, base, size) = {}
                        /\ mappings' = Insert(k, [base |-> base, end |-> base + size,
                                                  region |-> r])
                        /\ result'.ok
<1>1. ~Err("kInvalidMapping", base).ok /\ Done.ok /\ \A a : ~Err("kOverlap", a).ok
  BY DEF Err, Done, Ok
<1> QED BY <1>1 DEF Map

LEMMA SoundMap ==
  ASSUME TableInv, NEW base \in Addr, NEW size \in Addr, NEW r \in Region,
         Map(base, size, r)
  PROVE  TableInv'
<1> DEFINE m == [base |-> base, end |-> base + size, region |-> r]
           n == Len(mappings)
<1>1. /\ n \in Nat
      /\ \A i \in 1 .. n : mappings[i].base \in Nat /\ mappings[i].end \in Nat
  BY EntryType DEF TableInv
<1>2. base \in Nat /\ size \in Nat
  BY AddrAssumption DEF Addr
<1>3. CASE mappings' = mappings
  BY <1>3 DEF TableInv, TableType, MappingsSound
<1>4. ASSUME ~Invalid(base, size),
             NEW k \in 1 .. n + 1, UpperBound(k, base), Clash(k, base, size) = {},
             mappings' = Insert(k, m)
      PROVE  TableInv'
  <2>1. size # 0 /\ base + size < AddrSpace
    BY <1>2, <1>4, ValidRange, AddrAssumption DEF Addr
  <2>2. m \in Mapping /\ m.base = base /\ m.end = base + size
    BY <1>2, <2>1, AddrAssumption DEF Mapping, Addr
  <2>3. \A i \in 1 .. n : IF i < k THEN mappings[i].end <= base
                                   ELSE base + size <= mappings[i].base
    BY <1>2, <1>4, <2>1, NeighboursDecide
  <2> HIDE DEF m
  <2>4. /\ mappings' \in Seq(Mapping)
        /\ Len(mappings') = n + 1
        /\ \A i \in 1 .. n + 1 :
              mappings'[i] = IF i < k THEN mappings[i]
                             ELSE IF i = k THEN m ELSE mappings[i - 1]
    BY <1>4, <2>2, Inserted DEF TableInv
  <2> HIDE DEF n
  <2>5. \A i \in 1 .. n : mappings[i].base < mappings[i].end
    BY DEF TableInv, MappingsSound, n
  <2>6. \A i, j \in 1 .. n : i < j => mappings[i].end <= mappings[j].base
    BY DEF TableInv, MappingsSound, n
  <2>7. \A i \in 1 .. n + 1 : mappings'[i].base < mappings'[i].end
    <3> SUFFICES ASSUME NEW i \in 1 .. n + 1
                 PROVE  mappings'[i].base < mappings'[i].end
      OBVIOUS
    <3>1. CASE i < k
      BY <1>1, <2>4, <2>5, <3>1
    <3>2. CASE i = k
      BY <1>2, <2>1, <2>2, <2>4, <3>2
    <3>3. CASE i > k
      BY <1>1, <2>4, <2>5, <3>3
    <3> QED BY <1>1, <3>1, <3>2, <3>3
  <2>8. \A i, j \in 1 .. n + 1 : i < j => mappings'[i].end <= mappings'[j].base
    <3> SUFFICES ASSUME NEW i \in 1 .. n + 1, NEW j \in 1 .. n + 1, i < j
                 PROVE  mappings'[i].end <= mappings'[j].base
      OBVIOUS
    <3>1. CASE j < k
      BY <1>1, <2>4, <2>6, <3>1
    <3>2. CASE j = k
      BY <1>1, <2>2, <2>3, <2>4, <3>2
    <3>3. CASE i = k
      BY <1>1, <2>2, <2>3, <2>4, <3>3
    <3>4. CASE i < k /\ k < j
      <4>1. i \in 1 .. n /\ j - 1 \in 1 .. n /\ i < j - 1
        BY <1>1, <3>4
      <4>2. mappings'[i] = mappings[i] /\ mappings'[j] = mappings[j - 1]
        BY <1>1, <2>4, <3>4
      <4> QED BY <2>6, <4>1, <4>2
    <3>5. CASE k < i
      BY <1>1, <2>4, <2>6, <3>5
    <3> QED BY <1>1, <3>1, <3>2, <3>3, <3>4, <3>5
  <2>9. Len(mappings') <= MaxMappings
    <3>1. n < MaxMappings /\ MaxMappings \in Nat
      BY MaxMappingsAssumption DEF n, Map
    <3> QED BY <1>1, <2>4, <3>1
  <2> QED BY <2>4, <2>7, <2>8, <2>9 DEF TableInv, TableType, MappingsSound
<1> QED BY <1>3, <1>4, MapOutcome

LEMMA TableNext == TableInv /\ [Next]_vars => TableInv'
<1> SUFFICES ASSUME TableInv, [Next]_vars PROVE TableInv'
  OBVIOUS
<1>1. ASSUME NEW r \in Region, NEW base \in MapBases, NEW size \in MapSizes[r],
             Map(base, size, r)
      PROVE  TableInv'
  <2>1. base \in Addr /\ size \in Addr
    BY MapAssumption
  <2> QED BY <1>1, <2>1, SoundMap
<1>2. CASE UNCHANGED mappings
  BY <1>2 DEF TableInv, TableType, MappingsSound
<1>3. \/ \E address \in Addr, w \in Widths : Read(address, w)
      \/ \E address \in Addr, w \in Widths : \E v \in WriteVals[w] : Write(address, w, v)
      \/ UNCHANGED vars
      => UNCHANGED mappings
  BY DEF Read, Write, vars
<1> QED BY <1>1, <1>2, <1>3 DEF Next

LEMMA TableCorrect == Spec => []TableInv
<1>1. Init => TableInv
  BY MaxMappingsAssumption DEF Init, TableInv, TableType, MappingsSound
<1>2. TableInv /\ [Next]_vars => TableInv'
  BY TableNext
<1> QED BY <1>1, <1>2, PTL DEF Spec

\* In whatever order ranges are mapped, the table stays sorted, free of empty
\* entries and free of overlaps.
THEOREM TableIsSound == Spec => []MappingsSound
<1>1. TableInv => MappingsSound
  BY DEF TableInv
<1> QED BY <1>1, TableCorrect, PTL

-----------------------------------------------------------------------------
\* On a sound table the entry before the upper bound is the only one that can
\* cover the address.
LEMMA ResolveCovers ==
  ASSUME TableInv, NEW address \in Addr
  PROVE  Resolve(address) = {m \in Entries : Covers(m, address)}
<1>1. /\ Len(mappings) \in Nat
      /\ \A i \in 1 .. Len(mappings) :
            mappings[i].base \in Nat /\ mappings[i].end \in Nat
  BY EntryType DEF TableInv
<1>2. address \in Nat
  BY AddrAssumption DEF Addr
<1>3. ASSUME NEW m \in Resolve(address) PROVE m \in Entries /\ Covers(m, address)
  <2>1. PICK k \in 2 .. Len(mappings) + 1 :
          UpperBound(k, address) /\ m = mappings[k - 1] /\ address < m.end
    BY <1>3 DEF Resolve
  <2>2. k - 1 \in 1 .. Len(mappings) /\ k - 1 < k
    BY <1>1, <2>1
  <2>3. mappings[k - 1].base <= address
    BY <2>1, <2>2 DEF UpperBound
  <2>4. m \in Entries
    BY <1>3 DEF Resolve, Entries
  <2> QED BY <2>1, <2>3, <2>4 DEF Covers
<1>4. ASSUME NEW m \in Entries, Covers(m, address) PROVE m \in Resolve(address)
  <2>1. PICK i \in 1 .. Len(mappings) : m = mappings[i]
    BY DEF Entries
  <2>2. mappings[i].base <= address /\ address < mappings[i].end
    BY <1>4, <2>1 DEF Covers
  <2>3. ASSUME NEW j \in 1 .. Len(mappings)
        PROVE  j < i + 1 <=> mappings[j].base <= address
    <3>1. CASE j = i
      BY <1>1, <2>2, <3>1
    <3>2. CASE j < i
      <4>1. mappings[j].base < mappings[j].end /\ mappings[j].end <= mappings[i].base
        BY <3>2 DEF TableInv, MappingsSound
      <4> QED BY <1>1, <1>2, <2>2, <3>2, <4>1
    <3>3. CASE j > i
      <4>1. mappings[i].end <= mappings[j].base
        BY <3>3 DEF TableInv, MappingsSound
      <4> QED BY <1>1, <1>2, <2>2, <3>3, <4>1
    <3> QED BY <1>1, <3>1, <3>2, <3>3
  <2>4. i + 1 \in 2 .. Len(mappings) + 1 /\ i + 1 \in 1 .. Len(mappings) + 1 /\ (i + 1) - 1 = i
    BY <1>1
  <2>5. UpperBound(i + 1, address)
    BY <2>3, <2>4 DEF UpperBound
  <2> QED BY <2>1, <2>2, <2>4, <2>5 DEF Resolve
<1>5. Resolve(address) \subseteq Entries
  BY DEF Resolve, Entries
<1> QED BY <1>3, <1>4, <1>5

\* resolve() agrees with a search of the whole table, for every address.
THEOREM ResolveIsExact == Spec => []ResolveAgrees
<1>1. TableInv => ResolveAgrees
  BY ResolveCovers DEF ResolveAgrees
<1> QED BY <1>1, TableCorrect, PTL

-----------------------------------------------------------------------------
\* The addresses of a range are free: below the end of the space and covered by
\* no entry.
Free(base, size) ==
    \A a \in base .. base + size - 1 :
        a + 1 < AddrSpace /\ \A m \in Entries : ~Covers(m, a)

\* An accepted range is free: the neighbours keep every other entry away.
LEMMA AcceptedIsFree ==
  ASSUME TableInv, NEW base \in Addr, NEW size \in Addr, ~Invalid(base, size),
         NEW k \in 1 .. Len(mappings) + 1, UpperBound(k, base),
         Clash(k, base, size) = {}
  PROVE  size > 0 /\ Free(base, size)
<1>1. base \in Nat /\ size \in Nat \ {0} /\ base + size < AddrSpace
  BY ValidRange, AddrAssumption DEF Addr
<1>2. \A i \in 1 .. Len(mappings) :
         IF i < k THEN mappings[i].end <= base ELSE base + size <= mappings[i].base
  BY <1>1, NeighboursDecide
<1>3. \A i \in 1 .. Len(mappings) :
         mappings[i].base \in Nat /\ mappings[i].end \in Nat
  BY EntryType DEF TableInv
<1>4. ASSUME NEW a \in base .. base + size - 1, NEW m \in Entries, Covers(m, a)
      PROVE  FALSE
  <2>1. PICK i \in 1 .. Len(mappings) : m = mappings[i]
    BY DEF Entries
  <2>2. mappings[i].base <= a /\ a < mappings[i].end
    BY <1>4, <2>1 DEF Covers
  <2> QED BY <1>1, <1>2, <1>3, <2>2
<1>5. \A a \in base .. base + size - 1 : a + 1 < AddrSpace
  BY <1>1, AddrAssumption
<1> QED BY <1>1, <1>4, <1>5 DEF Free

\* A range that clashes with a neighbour shares an address with it.
LEMMA ClashIsTaken ==
  ASSUME TableInv, NEW base \in Addr, NEW size \in Addr, ~Invalid(base, size),
         NEW k \in 1 .. Len(mappings) + 1, UpperBound(k, base),
         Clash(k, base, size) # {}
  PROVE  ~Free(base, size)
<1>1. base \in Nat /\ size \in Nat \ {0} /\ base + size < AddrSpace
  BY ValidRange, AddrAssumption DEF Addr
<1>2. /\ Len(mappings) \in Nat
      /\ \A i \in 1 .. Len(mappings) :
            mappings[i].base \in Nat /\ mappings[i].end \in Nat
  BY EntryType DEF TableInv
<1>3. \/ k > 1 /\ mappings[k - 1].end > base
      \/ k <= Len(mappings) /\ mappings[k].base < base + size
  BY Zenon DEF Clash
<1>4. CASE k > 1 /\ mappings[k - 1].end > base
  <2>1. k - 1 \in 1 .. Len(mappings) /\ k - 1 < k
    BY <1>2, <1>4
  <2>2. mappings[k - 1].base <= base
    BY <2>1 DEF UpperBound
  <2>3. mappings[k - 1] \in Entries /\ Covers(mappings[k - 1], base)
    BY <1>1, <1>4, <2>1, <2>2 DEF Entries, Covers
  <2>4. base \in base .. base + size - 1
    BY <1>1
  <2> QED BY <2>3, <2>4 DEF Free
<1>5. CASE k <= Len(mappings) /\ mappings[k].base < base + size
  <2>1. k \in 1 .. Len(mappings) /\ ~(k < k)
    BY <1>2, <1>5
  <2>2. ~(mappings[k].base <= base)
    BY <2>1 DEF UpperBound
  <2>3. mappings[k].base < mappings[k].end
    BY <2>1 DEF TableInv, MappingsSound
  <2>4. mappings[k] \in Entries /\ Covers(mappings[k], mappings[k].base)
    BY <1>2, <2>1, <2>3 DEF Entries, Covers
  <2>5. mappings[k].base \in base .. base + size - 1
    BY <1>1, <1>2, <1>5, <2>1, <2>2
  <2> QED BY <2>4, <2>5 DEF Free
<1> QED BY <1>3, <1>4, <1>5

\* An invalid range is empty or reaches the end of the space.
LEMMA InvalidIsTaken ==
  ASSUME NEW base \in Addr, NEW size \in Addr, Invalid(base, size)
  PROVE  ~(size > 0 /\ Free(base, size))
<1>1. /\ base \in Nat /\ size \in Nat /\ AddrSpace \in Nat
      /\ size = 0 \/ base + size >= AddrSpace
  BY ValidRange, AddrAssumption DEF Addr
<1>2. CASE size > 0 /\ base + size >= AddrSpace
  <2>1. base + size - 1 \in base .. base + size - 1
    BY <1>1, <1>2
  <2>2. ~((base + size - 1) + 1 < AddrSpace)
    BY <1>1, <1>2
  <2> QED BY <2>1, <2>2 DEF Free
<1> QED BY <1>1, <1>2

LEMMA InsertAdds ==
  ASSUME TableInv, NEW k \in 1 .. Len(mappings) + 1, NEW m \in Mapping,
         mappings' = Insert(k, m)
  PROVE  Entries' = Entries \cup {m}
<1>1. /\ Len(mappings) \in Nat
      /\ Len(mappings') = Len(mappings) + 1
      /\ \A i \in 1 .. Len(mappings) + 1 :
            mappings'[i] = IF i < k THEN mappings[i]
                           ELSE IF i = k THEN m ELSE mappings[i - 1]
  BY Inserted, EntryType DEF TableInv
<1>2. Entries' = {mappings'[i] : i \in 1 .. Len(mappings) + 1}
  BY <1>1 DEF Entries
<1>3. ASSUME NEW i \in 1 .. Len(mappings) + 1
      PROVE  mappings'[i] \in Entries \cup {m}
  <2>1. CASE i < k
    <3>1. i \in 1 .. Len(mappings) /\ mappings'[i] = mappings[i]
      BY <1>1, <2>1
    <3> QED BY <3>1 DEF Entries
  <2>2. CASE i = k
    BY <1>1, <2>2
  <2>3. CASE i > k
    <3>1. i - 1 \in 1 .. Len(mappings) /\ mappings'[i] = mappings[i - 1]
      BY <1>1, <2>3
    <3> QED BY <3>1 DEF Entries
  <2> QED BY <1>1, <2>1, <2>2, <2>3
<1>4. ASSUME NEW i \in 1 .. Len(mappings)
      PROVE  mappings[i] \in Entries'
  <2>1. CASE i < k
    <3>1. i \in 1 .. Len(mappings) + 1 /\ mappings'[i] = mappings[i]
      BY <1>1, <2>1
    <3> QED BY <1>2, <3>1
  <2>2. CASE i >= k
    <3>1. i + 1 \in 1 .. Len(mappings) + 1 /\ mappings'[i + 1] = mappings[i]
      BY <1>1, <2>2
    <3> QED BY <1>2, <3>1
  <2> QED BY <1>1, <2>1, <2>2
<1>5. m \in Entries'
  BY <1>1, <1>2
<1>6. Entries \subseteq Entries'
  BY <1>4 DEF Entries
<1>7. Entries' \subseteq Entries \cup {m}
  BY <1>2, <1>3
<1> QED BY <1>5, <1>6, <1>7

\* map() looks at two entries, yet accepts a range exactly when no entry at all
\* shares an address with it and it ends inside the space; a refused call
\* leaves the table alone.
THEOREM MapIsExact == Spec => MapVerdict
<1>1. ASSUME TableInv, NEW r \in Region, NEW base \in MapBases, NEW size \in MapSizes[r],
             Map(base, size, r)
      PROVE  LET m == [base |-> base, end |-> base + size, region |-> r]
             IN  IF size > 0 /\ Free(base, size)
                 THEN result'.ok /\ Entries' = Entries \cup {m} /\ m \notin Entries
                 ELSE ~result'.ok /\ mappings' = mappings
  <2> DEFINE m == [base |-> base, end |-> base + size, region |-> r]
  <2>1. base \in Addr /\ size \in Addr
    BY MapAssumption
  <2>2. CASE Invalid(base, size) /\ mappings' = mappings /\ ~result'.ok
    BY <2>1, <2>2, InvalidIsTaken
  <2>3. ASSUME ~Invalid(base, size), NEW k \in 1 .. Len(mappings) + 1,
               UpperBound(k, base), Clash(k, base, size) # {},
               mappings' = mappings, ~result'.ok
        PROVE  ~(size > 0 /\ Free(base, size)) /\ ~result'.ok /\ mappings' = mappings
    BY <2>1, <2>3, <1>1, ClashIsTaken
  <2>4. ASSUME ~Invalid(base, size), NEW k \in 1 .. Len(mappings) + 1,
               UpperBound(k, base), Clash(k, base, size) = {},
               mappings' = Insert(k, m), result'.ok
        PROVE  /\ size > 0 /\ Free(base, size)
               /\ result'.ok /\ Entries' = Entries \cup {m} /\ m \notin Entries
    <3>1. size > 0 /\ Free(base, size)
      BY <1>1, <2>1, <2>4, AcceptedIsFree
    <3>2. base \in Nat /\ size \in Nat /\ base + size < AddrSpace
      BY <2>1, <2>4, ValidRange, AddrAssumption DEF Addr
    <3>3. m \in Mapping /\ Covers(m, base) /\ base \in base .. base + size - 1
      BY <3>1, <3>2, AddrAssumption DEF Mapping, Addr, Covers
    <3>4. m \notin Entries
      BY <3>1, <3>3 DEF Free
    <3>5. Entries' = Entries \cup {m}
      <4> HIDE DEF m
      <4> QED BY <1>1, <2>4, <3>3, InsertAdds
    <3> QED BY <2>4, <3>1, <3>4, <3>5
  <2> QED BY <1>1, <2>1, <2>2, <2>3, <2>4, MapOutcome
<1>2. TableInv /\ [Next]_vars =>
        \A r \in Region, base \in MapBases : \A size \in MapSizes[r] :
          Map(base, size, r) =>
            LET free == \A a \in base .. base + size - 1 :
                           a + 1 < AddrSpace /\ \A m \in Entries : ~Covers(m, a)
                m    == [base |-> base, end |-> base + size, region |-> r]
            IN  IF size > 0 /\ free
                THEN result'.ok /\ Entries' = Entries \cup {m} /\ m \notin Entries
                ELSE ~result'.ok /\ mappings' = mappings
  BY <1>1 DEF Free
<1> QED BY <1>2, TableCorrect, PTL DEF Spec, MapVerdict

-----------------------------------------------------------------------------
(***************************************************************************)
(* The accesses.                                                           *)
(***************************************************************************)

\* Facts about the mapping that serves a covered address.
LEMMA ServingFacts ==
  ASSUME TableInv, NEW address \in Addr, Resolve(address) # {}
  PROVE  /\ Serving(address) \in Resolve(address)
         /\ Serving(address) \in Entries
         /\ Covers(Serving(address), address)
         /\ Serving(address).base \in Nat /\ Serving(address).end \in Nat
         /\ Serving(address).region \in Region
<1>1. Serving(address) \in Resolve(address)
  BY DEF Serving
<1>2. Serving(address) \in Entries /\ Covers(Serving(address), address)
  BY <1>1, ResolveCovers
<1>3. \A m \in Entries : m.base \in Nat /\ m.end \in Nat /\ m.region \in Region
  <2>1. \A m \in Mapping : m.region \in Region
    BY DEF Mapping
  <2> QED BY <2>1, EntryType DEF Entries, TableInv
<1> QED BY <1>1, <1>2, <1>3

\* A sound table has one mapping per address.
LEMMA OneServes ==
  ASSUME TableInv, NEW address \in Addr, NEW m \in Entries, Covers(m, address)
  PROVE  Resolve(address) = {m} /\ Serving(address) = m
<1>1. /\ Len(mappings) \in Nat
      /\ \A i \in 1 .. Len(mappings) :
            mappings[i].base \in Nat /\ mappings[i].end \in Nat
  BY EntryType DEF TableInv
<1>2. ASSUME NEW l \in Entries, Covers(l, address) PROVE l = m
  <2>1. PICK i \in 1 .. Len(mappings) : m = mappings[i]
    BY DEF Entries
  <2>2. PICK j \in 1 .. Len(mappings) : l = mappings[j]
    BY DEF Entries
  <2>3. /\ mappings[i].base <= address /\ address < mappings[i].end
        /\ mappings[j].base <= address /\ address < mappings[j].end
    BY <1>2, <2>1, <2>2 DEF Covers
  <2>4. ~(i < j) /\ ~(j < i)
    <3>1. i < j => mappings[i].end <= mappings[j].base
      BY DEF TableInv, MappingsSound
    <3>2. j < i => mappings[j].end <= mappings[i].base
      BY DEF TableInv, MappingsSound
    <3>3. address \in Nat
      BY AddrAssumption DEF Addr
    <3> QED BY <1>1, <2>3, <3>1, <3>2, <3>3
  <2> QED BY <1>1, <2>1, <2>2, <2>4
<1>3. Resolve(address) = {m}
  BY <1>2, ResolveCovers
<1> QED BY <1>3 DEF Serving

\* The region's offset, rebased, names a byte of the access.
LEMMA ErrorNamesByte == TableInv => ErrorInAccess
<1> SUFFICES ASSUME TableInv, NEW address \in Addr, NEW w \in Widths,
                    NEW write \in BOOLEAN, NEW e \in Errors(address, w, write)
             PROVE  \E i \in 0 .. w - 1 : e.address = (address + i) % AddrSpace
  BY DEF ErrorInAccess
<1>1. /\ address \in Nat /\ address < AddrSpace /\ AddrSpace \in Nat \ {0}
      /\ w \in Nat \ {0}
  BY AddrAssumption, WidthAssumption DEF Addr
<1>2. address % AddrSpace = address /\ address + 0 = address /\ 0 \in 0 .. w - 1
  BY <1>1
<1>3. \A k, a : Err(k, a).address = a
  BY DEF Err
<1>4. CASE Resolve(address) = {}
  <2>1. e.address = address
    BY <1>3, <1>4 DEF Errors
  <2> QED BY <1>2, <2>1
<1>5. CASE Resolve(address) # {}
  <2> DEFINE m == Serving(address)
             offset == address - m.base
  <2>1. m.base \in Nat /\ m.base <= address
    BY <1>5, ServingFacts DEF Covers
  <2>2. offset \in Nat /\ m.base + offset = address
    BY <1>1, <2>1
  <2>3. e \in Refused(m, address, w, write)
    BY <1>5 DEF Errors
  <2> HIDE DEF m
  <2>4. CASE e.address = Rebase(m, offset)
    BY <1>2, <2>2, <2>4 DEF Rebase
  <2>5. CASE /\ m.region \in RamRegions
             /\ OutOfBounds(Size[m.region], offset, w)
             /\ e.address = Rebase(m, FirstOutOfBounds(Size[m.region], offset))
    <3>1. Size[m.region] \in Nat
      BY <2>5, SizeAssumption, AddrAssumption DEF Addr
    <3>2. CASE offset >= Size[m.region]
      BY <2>4, <2>5, <3>2 DEF FirstOutOfBounds
    <3>3. CASE offset < Size[m.region]
      <4> DEFINE i == Size[m.region] - offset
      <4>1. i \in 0 .. w - 1
        BY <1>1, <2>2, <2>5, <3>1, <3>3 DEF OutOfBounds
      <4>2. m.base + Size[m.region] = address + i
        BY <1>1, <2>1, <3>1
      <4>3. e.address = (m.base + Size[m.region]) % AddrSpace
        BY <2>2, <2>5, <3>1, <3>3 DEF Rebase, FirstOutOfBounds
      <4> QED BY <4>1, <4>2, <4>3
    <3> QED BY <2>2, <3>1, <3>2, <3>3
  <2>6. \/ e.address = Rebase(m, offset)
        \/ /\ m.region \in RamRegions
           /\ OutOfBounds(Size[m.region], offset, w)
           /\ e.address = Rebase(m, FirstOutOfBounds(Size[m.region], offset))
    BY <1>3, <2>3 DEF Refused
  <2> QED BY <2>4, <2>5, <2>6
<1> QED BY <1>4, <1>5

\* Whatever is mapped, the address a failed access reports is the address of one
\* of the bytes it asked for.
THEOREM ErrorsAreAbsolute == Spec => []ErrorInAccess
BY ErrorNamesByte, TableCorrect, PTL

-----------------------------------------------------------------------------
\* No mapping is smaller than the RAM behind it.
Roomy == \A r \in RamRegions : \A s \in MapSizes[r] : s = 0 \/ s >= Size[r]
RoomyTable == \A m \in Entries : m.region \in RamRegions => m.end - m.base >= Size[m.region]

LEMMA RoomyNext == ASSUME Roomy PROVE TableInv /\ RoomyTable /\ [Next]_vars => RoomyTable'
<1> SUFFICES ASSUME TableInv, RoomyTable, [Next]_vars PROVE RoomyTable'
  OBVIOUS
<1>1. ASSUME NEW r \in Region, NEW base \in MapBases, NEW size \in MapSizes[r],
             Map(base, size, r)
      PROVE  RoomyTable'
  <2>1. base \in Addr /\ size \in Addr
    BY MapAssumption
  <2>2. CASE mappings' = mappings
    BY <2>2 DEF RoomyTable, Entries
  <2>3. ASSUME ~Invalid(base, size), NEW k \in 1 .. Len(mappings) + 1,
               mappings' = Insert(k, [base |-> base, end |-> base + size, region |-> r])
        PROVE  RoomyTable'
    <3> DEFINE m == [base |-> base, end |-> base + size, region |-> r]
    <3>1. base \in Nat /\ size \in Nat \ {0} /\ base + size < AddrSpace
      BY <2>1, <2>3, ValidRange, AddrAssumption DEF Addr
    <3>2. m \in Mapping /\ m.end - m.base = size /\ m.region = r
      BY <3>1, AddrAssumption DEF Mapping, Addr
    <3>3. r \in RamRegions => size >= Size[r]
      BY <3>1 DEF Roomy
    <3> HIDE DEF m
    <3>4. Entries' = Entries \cup {m}
      BY <2>3, <3>2, InsertAdds DEF m
    <3> QED BY <3>2, <3>3, <3>4 DEF RoomyTable
  <2> QED BY <1>1, <2>1, <2>2, <2>3, MapOutcome
<1>2. CASE UNCHANGED mappings
  BY <1>2 DEF RoomyTable, Entries
<1>3. \/ \E address \in Addr, w \in Widths : Read(address, w)
      \/ \E address \in Addr, w \in Widths : \E v \in WriteVals[w] : Write(address, w, v)
      \/ UNCHANGED vars
      => UNCHANGED mappings
  BY DEF Read, Write, vars
<1> QED BY <1>1, <1>2, <1>3 DEF Next

\* If no mapping is smaller than its RAM, a read succeeds exactly when all its
\* bytes lie in one mapping and in the RAM behind it.
THEOREM AccessIsExact == ASSUME Roomy PROVE Spec => []AccessExact
<1>1. Init => RoomyTable
  BY DEF Init, RoomyTable, Entries
<1>2. TableInv /\ RoomyTable /\ [Next]_vars => RoomyTable'
  BY RoomyNext
<1>3. ASSUME TableInv, RoomyTable, NEW address \in Addr, NEW w \in Widths
      PROVE  Errors(address, w, FALSE) = {} <=>
               \E m \in Entries :
                 /\ m.region \in RamRegions
                 /\ \A i \in 0 .. w - 1 :
                       Covers(m, address + i) /\ address + i < m.base + Size[m.region]
  <2>1. address \in Nat /\ w \in Nat \ {0} /\ address + 0 = address
    BY AddrAssumption, WidthAssumption DEF Addr
  <2>2. \A r \in RamRegions : Size[r] \in Nat
    BY SizeAssumption, AddrAssumption DEF Addr
  <2>3. ASSUME Errors(address, w, FALSE) = {}
        PROVE  \E m \in Entries :
                 /\ m.region \in RamRegions
                 /\ \A i \in 0 .. w - 1 :
                       Covers(m, address + i) /\ address + i < m.base + Size[m.region]
    <3>1. Resolve(address) # {}
      BY <2>3, Zenon DEF Errors
    <3>2. PICK m \in Entries : m = Serving(address)
      BY <3>1, <1>3, ServingFacts
    <3>3. Refused(m, address, w, FALSE) = {}
      BY <2>3, <3>1, <3>2, Zenon DEF Errors
    <3>4. m.region \in RamRegions /\ ~OutOfBounds(Size[m.region], address - m.base, w)
      BY <3>3, Zenon DEF Refused
    <3>5. m.base \in Nat /\ m.end \in Nat /\ m.base <= address
      BY <1>3, <3>1, <3>2, ServingFacts DEF Covers
    <3>6. Size[m.region] \in Nat /\ m.end - m.base >= Size[m.region]
      BY <1>3, <2>2, <3>4 DEF RoomyTable
    <3>7. /\ address - m.base < Size[m.region]
          /\ Size[m.region] - (address - m.base) >= w
      BY <2>1, <3>4, <3>5, <3>6 DEF OutOfBounds
    <3>8. ASSUME NEW i \in 0 .. w - 1
          PROVE  Covers(m, address + i) /\ address + i < m.base + Size[m.region]
      BY <2>1, <3>5, <3>6, <3>7 DEF Covers
    <3> QED BY <3>4, <3>8
  <2>4. ASSUME NEW m \in Entries, m.region \in RamRegions,
               \A i \in 0 .. w - 1 :
                 Covers(m, address + i) /\ address + i < m.base + Size[m.region]
        PROVE  Errors(address, w, FALSE) = {}
    <3>1. 0 \in 0 .. w - 1 /\ w - 1 \in 0 .. w - 1
      BY <2>1
    <3>2. /\ Covers(m, address) /\ address < m.base + Size[m.region]
          /\ address + (w - 1) < m.base + Size[m.region]
      BY <2>1, <2>4, <3>1
    <3>3. Resolve(address) = {m} /\ Serving(address) = m
      BY <1>3, <3>2, OneServes
    <3>4. m.base \in Nat /\ m.base <= address
      BY <1>3, <3>2, <3>3, ServingFacts DEF Covers
    <3>5. ~OutOfBounds(Size[m.region], address - m.base, w)
      BY <2>1, <2>2, <2>4, <3>2, <3>4 DEF OutOfBounds
    <3>6. Refused(m, address, w, FALSE) = {}
      BY <2>4, <3>5, Zenon DEF Refused
    <3>7. Resolve(address) # {}
      BY <3>3
    <3> QED BY <3>3, <3>6, <3>7, Zenon DEF Errors
  <2> QED BY <2>3, <2>4
<1>4. TableInv /\ RoomyTable => AccessExact
  BY <1>3 DEF AccessExact
<1> QED BY <1>1, <1>2, <1>4, TableCorrect, PTL DEF Spec
-----------------------------------------------------------------------------
(***************************************************************************)
(* The bytes behind the bus.                                               *)
(***************************************************************************)

\* The values of i and then j bytes.
LEMMA SpanFacts ==
  /\ \A i \in Nat : Span(i) \in Nat \ {0}
  /\ \A i, j \in Nat : Span(i + j) = Span(i) * Span(j)
  /\ Span(0) = 1
  /\ Span(1) = 2 ^ ByteBits
<1>1. ASSUME NEW i \in Nat PROVE Span(i) \in Nat \ {0}
  <2>1. i * ByteBits \in Nat
    BY ByteAssumption
  <2>2. 2 ^ (i * ByteBits) \in Nat /\ 2 ^ (i * ByteBits) >= 1
    BY <2>1, PowerPositive
  <2> QED BY <2>2 DEF Span
<1>2. ASSUME NEW i \in Nat, NEW j \in Nat PROVE Span(i + j) = Span(i) * Span(j)
  <2> DEFINE k == i * ByteBits
             l == j * ByteBits
  <2>1. k \in Nat /\ l \in Nat /\ (i + j) * ByteBits = k + l
    BY ByteAssumption
  <2>2. 2 ^ (k + l) = 2 ^ k * 2 ^ l
    <3> HIDE DEF k, l
    <3> QED BY <2>1, PowerSum
  <2> QED BY <2>1, <2>2 DEF Span
<1>3. Span(0) = 1
  <2>1. 0 * ByteBits = 0
    BY ByteAssumption
  <2> QED BY <2>1, PowerZero DEF Span
<1>4. Span(1) = 2 ^ ByteBits
  <2>1. 1 * ByteBits = ByteBits
    BY ByteAssumption
  <2> QED BY <2>1 DEF Span
<1> QED BY <1>1, <1>2, <1>3, <1>4

\* A digit above the i-th does not change it.
LEMMA DigitKept ==
  ASSUME NEW s \in Nat, NEW d \in Nat, NEW i \in Nat, NEW k \in Nat, i < k
  PROVE  ((s + d * Span(k)) \div Span(i)) % Span(1) = (s \div Span(i)) % Span(1)
<1> DEFINE P == Span(i)
           D == Span(1)
           E == Span(k - i - 1)
           q == s \div P
           r == s % P
<1>1. k - i - 1 \in Nat /\ i + (k - i - 1) \in Nat /\ (i + (k - i - 1)) + 1 = k
  OBVIOUS
<1>2. /\ P \in Nat \ {0} /\ D \in Nat \ {0} /\ E \in Nat \ {0}
      /\ Span(k) = (P * E) * D
  <2>1. Span((i + (k - i - 1)) + 1) = Span(i + (k - i - 1)) * D
    BY <1>1, SpanFacts
  <2>2. Span(i + (k - i - 1)) = P * E
    BY <1>1, SpanFacts
  <2> QED BY <1>1, <2>1, <2>2, SpanFacts
<1>3. q \in Nat /\ r \in 0 .. P - 1 /\ s = q * P + r
  BY <1>2, Division
<1> DEFINE n == s + d * Span(k)
           m == d * E
<1>4. n = (q + m * D) * P + r /\ q + m * D \in Nat /\ m \in Nat
  <2> HIDE DEF P, D, E, q, r
  <2> QED BY <1>2, <1>3
<1> HIDE DEF P, D, E, q, r, n, m
<1>5. n \div P = q + m * D
  <2>1. q + m * D \in Nat /\ r \in Nat /\ r < P
    BY <1>2, <1>3, <1>4
  <2> QED BY <1>2, <1>4, <2>1, DivisionUnique
<1>6. (q + m * D) % D = q % D
  BY <1>2, <1>3, <1>4, ModPlusMultiple
<1> QED BY <1>5, <1>6 DEF n, P, D, q

\* get_le16/32/64 computes the one value of w bytes whose i-th digit is the
\* byte at position at + i.
LEMMA GetLeDigits ==
  ASSUME NEW p, NEW at \in Nat, NEW w \in Nat, \A i \in 0 .. w - 1 : p[at + i] \in Byte
  PROVE  /\ GetLe(p, at, w) \in Value(w)
         /\ \A i \in 0 .. w - 1 : (GetLe(p, at, w) \div Span(i)) % Span(1) = p[at + i]
<1> DEFINE step == [x \in (1 .. w) \X Nat |-> x[2] + p[at + x[1] - 1] * Span(x[1] - 1)]
           Sum(f) == [i \in 0 .. w |->
                        IF i = 0 THEN 0 ELSE f[i - 1] + p[at + i - 1] * Span(i - 1)]
           sum == CHOOSE f : f = Sum(f)
<1>1. GetLe(p, at, w) = sum[w]
  BY DEF GetLe
<1> HIDE DEF step, Sum, sum
<1>2. \A i \in 0 .. w - 1 : p[at + i] \in Nat /\ p[at + i] < Span(1)
  <2>1. Span(1) \in Nat
    BY SpanFacts
  <2>2. \A b \in Byte : b \in Nat /\ b < Span(1)
    BY <2>1 DEF Byte
  <2> QED BY <2>2
<1>3. \A i \in 1 .. w : /\ p[at + i - 1] \in Nat
                        /\ p[at + i - 1] * Span(i - 1) \in Nat
  <2> SUFFICES ASSUME NEW i \in 1 .. w
               PROVE  p[at + i - 1] \in Nat /\ p[at + i - 1] * Span(i - 1) \in Nat
    OBVIOUS
  <2>1. i - 1 \in 0 .. w - 1 /\ at + (i - 1) = at + i - 1
    OBVIOUS
  <2>2. p[at + i - 1] \in Nat
    BY <1>2, <2>1
  <2>3. i - 1 \in Nat
    OBVIOUS
  <2>4. Span(i - 1) \in Nat
    <3> DEFINE j == i - 1
    <3>1. j \in Nat
      BY <2>3
    <3> HIDE DEF j
    <3> QED BY <3>1, SpanFacts DEF j
  <2> QED BY <2>2, <2>4
<1>4. step \in [(1 .. w) \X Nat -> Nat]
  BY <1>3 DEF step
<1>5. PICK f \in [0 .. w -> Nat] :
            f[0] = 0 /\ \A i \in 1 .. w : f[i] = step[<<i, f[i - 1]>>]
  <2>1. 0 \in Nat
    OBVIOUS
  <2>2. PICK f : IsRecursion(f, Nat, 0, w, step)
    BY <1>4, <2>1, RecursionExists
  <2> QED BY <2>2 DEF IsRecursion
<1>6. f = Sum(f)
  <2>1. ASSUME NEW i \in 1 .. w
        PROVE  step[<<i, f[i - 1]>>] = f[i - 1] + p[at + i - 1] * Span(i - 1)
    <3>1. i - 1 \in 0 .. w /\ \A j \in 0 .. w : f[j] \in Nat
      BY <1>5
    <3> QED BY <3>1 DEF step
  <2>2. ASSUME NEW i \in 0 .. w
        PROVE  f[i] = IF i = 0 THEN 0 ELSE f[i - 1] + p[at + i - 1] * Span(i - 1)
    <3>1. CASE i = 0
      BY <1>5, <3>1
    <3>2. CASE i # 0
      <4>1. i \in 1 .. w
        BY <3>2
      <4> QED BY <1>5, <2>1, <3>2, <4>1
    <3> QED BY <3>1, <3>2
  <2> QED BY <1>5, <2>2 DEF Sum
<1>7. sum = Sum(sum)
  BY <1>6 DEF sum
<1>8. /\ sum[0] = 0
      /\ \A k \in 0 .. w - 1 : sum[k + 1] = sum[k] + p[at + k] * Span(k)
  <2>1. \A i \in 0 .. w :
           sum[i] = IF i = 0 THEN 0 ELSE sum[i - 1] + p[at + i - 1] * Span(i - 1)
    BY <1>7 DEF Sum
  <2>2. ASSUME NEW k \in 0 .. w - 1 PROVE sum[k + 1] = sum[k] + p[at + k] * Span(k)
    <3>1. k + 1 \in 0 .. w /\ k + 1 # 0 /\ (k + 1) - 1 = k /\ at + (k + 1) - 1 = at + k
      OBVIOUS
    <3> QED BY <2>1, <3>1
  <2> QED BY <2>1, <2>2
<1> DEFINE Right(k) == /\ sum[k] \in 0 .. Span(k) - 1
                       /\ \A i \in 0 .. k - 1 :
                             (sum[k] \div Span(i)) % Span(1) = p[at + i]
           T == {k \in Nat : k <= w => Right(k)}
<1>9. 0 \in T
  <2>1. Span(0) = 1 /\ sum[0] = 0
    BY <1>8, SpanFacts
  <2> QED BY <2>1
<1>10. ASSUME NEW k \in T PROVE k + 1 \in T
  <2> SUFFICES ASSUME k + 1 <= w PROVE Right(k + 1)
    OBVIOUS
  <2> DEFINE s == sum[k]
             d == p[at + k]
             K == Span(k)
             D == Span(1)
  <2>1. k \in 0 .. w - 1 /\ Right(k)
    OBVIOUS
  <2>2. /\ s \in Nat /\ s < K /\ d \in Nat /\ d < D
        /\ K \in Nat \ {0} /\ D \in Nat \ {0} /\ Span(k + 1) = K * D
        /\ sum[k + 1] = s + d * K
    <3>1. K \in Nat \ {0} /\ D \in Nat \ {0} /\ Span(k + 1) = K * D
      BY SpanFacts
    <3>2. d \in Nat /\ d < D
      BY <1>2, <2>1
    <3>3. sum[k + 1] = s + d * K
      BY <1>8, <2>1
    <3> HIDE DEF K, D, d
    <3>4. s \in 0 .. K - 1
      BY <2>1 DEF K
    <3> QED BY <3>1, <3>2, <3>3, <3>4
  <2>3. s + d * K \in 0 .. K * D - 1
    <3> HIDE DEF s, d, K, D
    <3>1. (D - 1) - d \in Nat /\ d \in Nat
      BY <2>2
    <3>2. ((D - 1) - d) * K >= 0
      <4> DEFINE z == (D - 1) - d
      <4>1. z \in Nat
        BY <3>1
      <4> HIDE DEF z
      <4>2. z * K >= 0
        BY <2>2, <4>1
      <4> QED BY <4>2 DEF z
    <3>3. ((D - 1) - d) * K = K * D - K - d * K
      BY <2>2
    <3>4. d * K \in Nat
      BY <2>2
    <3>5. K * D \in Nat
      BY <2>2
    <3> DEFINE x == d * K
               y == K * D
    <3> HIDE DEF x, y
    <3>6. y - K - x >= 0 /\ x \in Nat /\ y \in Nat
      BY <3>2, <3>3, <3>4, <3>5 DEF x, y
    <3>7. s + x \in 0 .. y - 1
      BY <2>2, <3>6
    <3> QED BY <3>7 DEF x, y
  <2>4. ASSUME NEW i \in 0 .. (k + 1) - 1
        PROVE  (sum[k + 1] \div Span(i)) % D = p[at + i]
    <3>1. CASE i < k
      <4>1. ((s + d * K) \div Span(i)) % D = (s \div Span(i)) % D
        <5>1. s \in Nat /\ d \in Nat /\ i \in Nat /\ k \in Nat
          BY <2>2
        <5> HIDE DEF s, d
        <5> QED BY <3>1, <5>1, DigitKept
      <4>2. (s \div Span(i)) % D = p[at + i]
        BY <2>1, <3>1
      <4> QED BY <2>2, <4>1, <4>2
    <3>2. CASE i = k
      <4>1. (s + d * K) \div K = d
        <5>1. s + d * K = d * K + s
          BY <2>2
        <5> HIDE DEF s, d, K
        <5> QED BY <2>2, <5>1, DivisionUnique
      <4>2. d % D = d
        <5> HIDE DEF d, D
        <5> QED BY <2>2, SmallDividend
      <4> QED BY <2>2, <3>2, <4>1, <4>2
    <3> QED BY <3>1, <3>2
  <2> QED BY <2>2, <2>3, <2>4
<1>11. T \in SUBSET Nat
  OBVIOUS
<1> HIDE DEF Right
<1>12. Right(w)
  <2>1. T = Nat
    <3> HIDE DEF T
    <3> QED BY <1>9, <1>10, <1>11, NatSetInduction
  <2> QED BY <2>1
<1> QED BY <1>1, <1>12 DEF Right, Value

\* put_le16/32/64 writes bytes.
LEMMA PutLeBytes ==
  ASSUME NEW n, NEW p \in [0 .. n - 1 -> Byte], NEW at \in Nat, NEW w \in Nat, NEW v \in Nat
  PROVE  PutLe(p, at, w, v) \in [0 .. n - 1 -> Byte]
<1>1. ASSUME NEW o \in at .. at + w - 1 PROVE (v \div Span(o - at)) % Span(1) \in Byte
  <2>1. o - at \in Nat
    OBVIOUS
  <2>2. Span(o - at) \in Nat \ {0} /\ Span(1) \in Nat \ {0}
    BY <2>1, SpanFacts
  <2>3. v \div Span(o - at) \in Nat
    BY <2>2, Division
  <2> QED BY <2>2, <2>3, Division DEF Byte
<1> HIDE DEF Byte
<1> QED BY <1>1 DEF PutLe
MemoryType == /\ DOMAIN bytes = RamRegions
              /\ \A r \in RamRegions : bytes[r] \in [0 .. Size[r] - 1 -> Byte]

\* A write goes nowhere, or to the offset of its address in the RAM that serves it.
LEMMA StoredWhere ==
  ASSUME TableInv, NEW address \in Addr, NEW w \in Nat \ {0}, NEW v \in Nat
  PROVE  \/ Stored(address, w, v) = bytes
         \/ /\ Errors(address, w, TRUE) = {}
            /\ Resolve(address) # {}
            /\ Serving(address).region \in RamRegions
            /\ address - Serving(address).base \in Nat
            /\ Stored(address, w, v) =
                 [bytes EXCEPT ![Serving(address).region] =
                     PutLe(@, address - Serving(address).base, w, v)]
<1>1. CASE Errors(address, w, TRUE) = {} /\ Serving(address).region \in RamRegions
  <2>1. Resolve(address) # {}
    BY <1>1, Zenon DEF Errors
  <2>2. Serving(address).base \in Nat /\ Serving(address).base <= address /\ address \in Nat
    BY <2>1, ServingFacts, AddrAssumption DEF Covers, Addr
  <2>3. Stored(address, w, v) =
          [bytes EXCEPT ![Serving(address).region] =
              PutLe(@, address - Serving(address).base, w, v)]
    BY <1>1, Zenon DEF Stored
  <2>4. address - Serving(address).base \in Nat
    BY <2>2
  <2> QED BY <1>1, <2>1, <2>3, <2>4, Zenon
<1>2. CASE ~(Errors(address, w, TRUE) = {} /\ Serving(address).region \in RamRegions)
  BY <1>2, Zenon DEF Stored
<1> QED BY <1>1, <1>2

LEMMA MemoryKept ==
  ASSUME TableInv, MemoryType, NEW address \in Addr, NEW w \in Nat \ {0}, NEW v \in Nat,
         bytes' = Stored(address, w, v)
  PROVE  MemoryType'
<1>1. CASE bytes' = bytes
  BY <1>1 DEF MemoryType
<1>2. CASE /\ Serving(address).region \in RamRegions
           /\ address - Serving(address).base \in Nat
           /\ bytes' = [bytes EXCEPT ![Serving(address).region] =
                           PutLe(@, address - Serving(address).base, w, v)]
  <2> DEFINE r == Serving(address).region
             at == address - Serving(address).base
  <2> HIDE DEF r, at
  <2>1. r \in RamRegions /\ at \in Nat /\ bytes' = [bytes EXCEPT ![r] = PutLe(@, at, w, v)]
    BY <1>2 DEF r, at
  <2>2. PutLe(bytes[r], at, w, v) \in [0 .. Size[r] - 1 -> Byte]
    BY <2>1, PutLeBytes DEF MemoryType
  <2> QED BY <2>1, <2>2 DEF MemoryType
<1> QED BY <1>1, <1>2, StoredWhere

LEMMA Written == \A w \in Widths : \A v \in WriteVals[w] : v \in Nat /\ v \in Value(w)
<1> SUFFICES ASSUME NEW w \in Widths, NEW v \in WriteVals[w]
             PROVE  v \in Nat /\ v \in Value(w)
  OBVIOUS
<1>1. v \in Value(w)
  BY WriteAssumption
<1>2. Span(w) \in Nat
  BY WidthAssumption, SpanFacts
<1> QED BY <1>1, <1>2 DEF Value

\* The table and the memory keep their types: the table stays in its bound,
\* a region keeps its size, and what put_le stores is a byte.
THEOREM BusTypeCorrect == Spec => []TypeOK
<1>1. Init => MemoryType
  <2>1. 0 \in Byte
    BY SpanFacts DEF Byte
  <2> QED BY <2>1 DEF Init, MemoryType
<1>2. TableInv /\ MemoryType /\ [Next]_vars => MemoryType'
  <2> SUFFICES ASSUME TableInv, MemoryType, [Next]_vars PROVE MemoryType'
    OBVIOUS
  <2>1. ASSUME NEW address \in Addr, NEW w \in Widths, NEW v \in WriteVals[w],
               Write(address, w, v)
        PROVE  MemoryType'
    <3>1. w \in Nat \ {0} /\ v \in Nat /\ bytes' = Stored(address, w, v)
      BY <2>1, Written, WidthAssumption DEF Write
    <3> QED BY <3>1, MemoryKept
  <2>2. CASE UNCHANGED bytes
    BY <2>2 DEF MemoryType
  <2> QED BY <2>1, <2>2 DEF Next, Map, Read, vars
<1>3. TableInv /\ MemoryType => TypeOK
  BY DEF TableInv, TableType, MemoryType, TypeOK
<1> QED BY <1>1, <1>2, <1>3, TableCorrect, PTL DEF Spec

LEMMA MemoryCorrect == Spec => []MemoryType
<1>1. TypeOK => MemoryType
  BY DEF TypeOK, MemoryType
<1> QED BY <1>1, BusTypeCorrect, PTL
-----------------------------------------------------------------------------
(***************************************************************************)
(* The flat address space.                                                 *)
(***************************************************************************)

View == [a \in Attached |-> CellOf(a)]
Store == [c \in Cells |-> bytes[c[1]][c[2]]]

LEMMA CellIs ==
  ASSUME TableInv, NEW a \in Addr, NEW m \in Entries, Covers(m, a)
  PROVE  a \in Attached /\ CellOf(a) = <<m.region, a - m.base>>
<1>1. {x \in Entries : Covers(x, a)} = {m}
  BY OneServes, ResolveCovers
<1>2. (CHOOSE x \in Entries : Covers(x, a)) = m
  BY <1>1
<1> QED BY <1>2 DEF Attached, CellOf

\* The addresses of an access to RAM lead to consecutive cells of it.
LEMMA AccessCells ==
  ASSUME TableInv, RoomyTable, NEW a \in Addr, NEW w \in Nat \ {0}, NEW m \in Entries,
         Covers(m, a), m.region \in RamRegions,
         ~OutOfBounds(Size[m.region], a - m.base, w)
  PROVE  /\ a - m.base \in Nat
         /\ \A i \in 0 .. w - 1 :
               /\ a + i \in Attached
               /\ CellOf(a + i) = <<m.region, (a - m.base) + i>>
               /\ (a - m.base) + i \in 0 .. Size[m.region] - 1
               /\ CellOf(a + i) \in Cells
<1> DEFINE r == m.region
           off == a - m.base
<1>1. /\ a \in Nat /\ AddrSpace \in Nat /\ Size[r] \in Nat
      /\ m.base \in Nat /\ m.end \in Nat /\ m.base <= a
      /\ m.end < AddrSpace /\ m.end - m.base >= Size[r]
  <2>1. m.base \in Nat /\ m.end \in Nat /\ m.end < AddrSpace
    BY EntryType DEF Entries, TableInv
  <2> QED BY <2>1, SizeAssumption, AddrAssumption DEF Addr, Covers, RoomyTable
<1>2. off \in Nat /\ off < Size[r] /\ Size[r] - off >= w
  BY <1>1 DEF OutOfBounds
<1>3. ASSUME NEW i \in 0 .. w - 1
      PROVE  /\ a + i \in Attached
             /\ CellOf(a + i) = <<r, off + i>>
             /\ off + i \in 0 .. Size[r] - 1
             /\ CellOf(a + i) \in Cells
  <2>1. a + i \in Addr /\ Covers(m, a + i) /\ (a + i) - m.base = off + i
    BY <1>1, <1>2 DEF Addr, Covers
  <2>2. off + i \in 0 .. Size[r] - 1
    BY <1>1, <1>2
  <2>3. a + i \in Attached /\ CellOf(a + i) = <<r, off + i>>
    <3>1. a + i \in Attached /\ CellOf(a + i) = <<r, (a + i) - m.base>>
      BY <2>1, CellIs
    <3> QED BY <2>1, <3>1
  <2>4. <<r, off + i>> \in Cells
    <3> HIDE DEF off
    <3> QED BY <2>2 DEF Cells
  <2> QED BY <2>2, <2>3, <2>4
<1> QED BY <1>2, <1>3

LEMMA AccessWhole ==
  ASSUME TableInv, RoomyTable, NEW a \in Addr, NEW w \in Nat \ {0}, NEW m \in Entries,
         Covers(m, a), m.region \in RamRegions,
         ~OutOfBounds(Size[m.region], a - m.base, w)
  PROVE  Flat!Whole(a, w)
<1>1. a \in Nat /\ a + 0 = a /\ 0 \in 0 .. w - 1
  BY AddrAssumption DEF Addr
<1> DEFINE off == a - m.base
<1>2. /\ off \in Nat
      /\ \A i \in 0 .. w - 1 : /\ a + i \in Attached /\ CellOf(a + i) = <<m.region, off + i>>
                               /\ CellOf(a + i) \in Cells
  BY AccessCells
<1> HIDE DEF off
<1>3. a \in Attached /\ CellOf(a) = <<m.region, off>>
  BY <1>1, <1>2
<1>4. \A i \in 0 .. w - 1 : /\ a + i \in DOMAIN View
                            /\ View[a + i] \in Cells
                            /\ View[a + i] = <<View[a][1], View[a][2] + i>>
  BY <1>2, <1>3 DEF View
<1> QED BY <1>4 DEF Flat!Whole, View

\* The errors of an access are errors, and without one the access goes to the
\* region that serves the address.
LEMMA AccessOutcome ==
  ASSUME TableInv, NEW a \in Addr, NEW w \in Nat \ {0}, NEW write \in BOOLEAN
  PROVE  /\ \A e \in Errors(a, w, write) : e.ok = FALSE
         /\ Errors(a, w, write) = {} =>
               /\ Serving(a) \in Entries /\ Covers(Serving(a), a)
               /\ \/ /\ Serving(a).region \in RamRegions
                     /\ ~OutOfBounds(Size[Serving(a).region], a - Serving(a).base, w)
                  \/ /\ Serving(a).region \in ExitRegions
                     /\ Serving(a).region \notin RamRegions
                     /\ write /\ a - Serving(a).base = 0 /\ w = 4
<1>1. \A k, x : Err(k, x).ok = FALSE
  BY DEF Err
<1>2. \A m : \A e \in Refused(m, a, w, write) : e.ok = FALSE
  BY <1>1 DEF Refused
<1>3. \A e \in Errors(a, w, write) : e.ok = FALSE
  BY <1>1, <1>2 DEF Errors
<1>4. ASSUME Errors(a, w, write) = {}
      PROVE  /\ Serving(a) \in Entries /\ Covers(Serving(a), a)
             /\ \/ /\ Serving(a).region \in RamRegions
                   /\ ~OutOfBounds(Size[Serving(a).region], a - Serving(a).base, w)
                \/ /\ Serving(a).region \in ExitRegions
                   /\ Serving(a).region \notin RamRegions
                   /\ write /\ a - Serving(a).base = 0 /\ w = 4
  <2>1. Resolve(a) # {} /\ Refused(Serving(a), a, w, write) = {}
    BY <1>4, Zenon DEF Errors
  <2>2. Serving(a) \in Entries /\ Covers(Serving(a), a) /\ Serving(a).region \in Region
    BY <2>1, ServingFacts
  <2> DEFINE m == Serving(a)
  <2> HIDE DEF m
  <2>3. Refused(m, a, w, write) = {}
    BY <2>1 DEF m
  <2>4. \/ m.region \in RamRegions /\ ~OutOfBounds(Size[m.region], a - m.base, w)
        \/ m.region \notin RamRegions /\ write /\ ExitAccepts(a - m.base, w)
    BY <2>3, Zenon DEF Refused
  <2> QED BY <2>2, <2>4 DEF m, Region, ExitAccepts, ExitWidth
<1> QED BY <1>3, <1>4

\* A call that failed without effect.
LEMMA RefusedCall ==
  ASSUME UNCHANGED <<mappings, bytes>>, result'.ok = FALSE
  PROVE  Flat!SpaceNext
<1>1. Flat!Refuse
  BY DEF Flat!Refuse, Flat!Failed, Attached, CellOf, Entries, Cells
<1> QED BY <1>1 DEF Flat!SpaceNext

LEMMA MapAttaches ==
  ASSUME TableInv, NEW r \in Region, NEW base \in MapBases, NEW size \in MapSizes[r],
         Map(base, size, r)
  PROVE  Flat!SpaceNext
<1> DEFINE m == [base |-> base, end |-> base + size, region |-> r]
<1>1. base \in Addr /\ size \in Addr /\ bytes' = bytes
  BY MapAssumption DEF Map
<1>2. ASSUME mappings' = mappings, ~result'.ok PROVE Flat!SpaceNext
  <2>1. result'.ok = FALSE
    BY <1>2 DEF Map, Err, Done, Ok
  <2> QED BY <1>1, <1>2, <2>1, RefusedCall
<1>3. ASSUME ~Invalid(base, size), NEW k \in 1 .. Len(mappings) + 1,
             UpperBound(k, base), Clash(k, base, size) = {},
             mappings' = Insert(k, m), result'.ok
      PROVE  Flat!SpaceNext
  <2>1. result' = Done
    BY <1>3 DEF Map, Err
  <2>2. size > 0 /\ Free(base, size)
    BY <1>1, <1>3, AcceptedIsFree
  <2>3. base \in Nat /\ size \in Nat /\ base + size < AddrSpace
    BY <1>1, <1>3, ValidRange, AddrAssumption DEF Addr
  <2>4. m \in Mapping /\ Covers(m, base) /\ base \in base .. base + size - 1
    BY <2>2, <2>3, AddrAssumption DEF Mapping, Addr, Covers
  <2>5. \A a \in Addr : Covers(m, a) => a \in base .. base + size - 1
    BY <2>3, AddrAssumption DEF Covers, Addr
  <2> HIDE DEF m
  <2>6. Entries' = Entries \cup {m}
    BY <1>3, <2>4, InsertAdds
  <2>7. Attached' = {a \in Addr : \E x \in Entries' : Covers(x, a)}
    BY DEF Attached
  <2>8. Attached \subseteq Attached'
    BY <2>6, <2>7 DEF Attached
  <2>9. base \in Attached' /\ base \notin Attached
    <3>1. base \notin Attached
      BY <2>2, <2>4 DEF Free, Attached
    <3> QED BY <1>1, <2>4, <2>6, <2>7, <3>1
  <2>10. ASSUME NEW a \in Attached PROVE CellOf(a)' = CellOf(a)
    <3>1. PICK x \in Entries : Covers(x, a)
      BY DEF Attached
    <3>2. a \in Addr
      BY DEF Attached
    <3>3. {y \in Entries : Covers(y, a)} = {x}
      BY <3>1, <3>2, OneServes, ResolveCovers
    <3>4. ~Covers(m, a)
      BY <2>2, <2>5, <3>1, <3>2 DEF Free
    <3>5. {y \in Entries' : Covers(y, a)} = {x}
      BY <2>6, <3>3, <3>4
    <3>6. (CHOOSE y \in Entries : Covers(y, a)) = (CHOOSE y \in Entries' : Covers(y, a))
      BY <3>3, <3>5
    <3> QED BY <3>6 DEF CellOf
  <2>11. ASSUME NEW a \in Attached' PROVE CellOf(a)' \in Region \X Addr
    <3>1. a \in Addr /\ \E x \in Entries' : Covers(x, a)
      BY <2>7
    <3>2. PICK y \in Entries' : Covers(y, a) /\ y = CHOOSE x \in Entries' : Covers(x, a)
      BY <3>1
    <3>3. y \in Mapping
      <4>1. \A x \in Entries : x \in Mapping
        BY EntryType DEF Entries, TableInv
      <4>2. m \in Mapping /\ y \in Entries \cup {m}
        BY <2>4, <2>6, <3>2
      <4> QED BY <4>1, <4>2
    <3>4. y.base \in Nat /\ y.region \in Region /\ y.base <= a /\ a \in Nat /\ a < AddrSpace
      BY <3>1, <3>2, <3>3, AddrAssumption DEF Mapping, Addr, Covers
    <3>5. a - y.base \in Addr
      BY <3>4, AddrAssumption DEF Addr
    <3>6. CellOf(a)' = <<y.region, a - y.base>>
      BY <3>2 DEF CellOf
    <3> QED BY <3>4, <3>5, <3>6
  <2>12. View' = [a \in Attached' |-> CellOf(a)'] /\ View = [a \in Attached |-> CellOf(a)]
    BY DEF View
  <2>13. /\ DOMAIN View \subseteq DOMAIN View'
         /\ DOMAIN View # DOMAIN View'
         /\ DOMAIN View' \subseteq Addr
         /\ \A a \in DOMAIN View : View'[a] = View[a]
         /\ \A a \in DOMAIN View' : View'[a] \in Region \X Addr
    <3>1. DOMAIN View = Attached /\ DOMAIN View' = Attached' /\ Attached' \subseteq Addr
      BY <2>7, <2>12
    <3> QED BY <2>8, <2>9, <2>10, <2>11, <2>12, <3>1
  <2>14. Store' = Store
    BY <1>1 DEF Store, Cells
  <2>15. (IF result'.ok THEN result' ELSE [ok |-> FALSE]) = Flat!Answer(0)
    BY <2>1 DEF Done, Ok, Flat!Answer
  <2>16. Flat!Attach
    BY <2>13, <2>14, <2>15 DEF Flat!Attach, View, Store
  <2> QED BY <2>16 DEF Flat!SpaceNext
<1> QED BY <1>1, <1>2, <1>3, MapOutcome
LEMMA ReadLoads ==
  ASSUME TableInv, RoomyTable, MemoryType, NEW a \in Addr, NEW w \in Widths, Read(a, w)
  PROVE  Flat!SpaceNext
<1>1. w \in Nat \ {0} /\ FALSE \in BOOLEAN
  BY WidthAssumption
<1>2. result' = ReadResult(a, w) /\ UNCHANGED <<mappings, bytes>>
  BY DEF Read
<1>3. CASE Errors(a, w, FALSE) # {}
  <2>1. ReadResult(a, w) = CHOOSE e \in Errors(a, w, FALSE) : TRUE
    BY <1>3, Zenon DEF ReadResult
  <2>2. ReadResult(a, w).ok = FALSE
    BY <1>1, <1>3, <2>1, AccessOutcome
  <2> QED BY <1>2, <2>2, RefusedCall
<1>4. CASE Errors(a, w, FALSE) = {}
  <2> DEFINE m == Serving(a)
             off == a - m.base
             p == bytes[m.region]
             v == GetLe(p, off, w)
  <2>1. /\ m \in Entries /\ Covers(m, a) /\ m.region \in RamRegions
        /\ ~OutOfBounds(Size[m.region], off, w)
    BY <1>1, <1>4, AccessOutcome
  <2>2. result' = Ok(v)
    BY <1>2, <1>4, Zenon DEF ReadResult
  <2> HIDE DEF m
  <2>3. Flat!Whole(a, w)
    BY <1>1, <2>1, AccessWhole
  <2>4. /\ off \in Nat
        /\ \A i \in 0 .. w - 1 : /\ a + i \in Attached
                                 /\ CellOf(a + i) = <<m.region, off + i>>
                                 /\ off + i \in 0 .. Size[m.region] - 1
                                 /\ CellOf(a + i) \in Cells
    BY <1>1, <2>1, AccessCells
  <2> HIDE DEF off
  <2>5. \A i \in 0 .. w - 1 : p[off + i] \in Byte
    BY <2>1, <2>4 DEF MemoryType
  <2> HIDE DEF p
  <2>6. v \in Value(w) /\ \A i \in 0 .. w - 1 : (v \div Span(i)) % Span(1) = p[off + i]
    BY <1>1, <2>4, <2>5, GetLeDigits
  <2> HIDE DEF v
  <2>7. \A i \in 0 .. w - 1 : Flat!Digit(v, i) = Store[View[a + i]]
    <3> SUFFICES ASSUME NEW i \in 0 .. w - 1 PROVE Flat!Digit(v, i) = Store[View[a + i]]
      OBVIOUS
    <3>1. View[a + i] = <<m.region, off + i>>
      BY <2>4 DEF View
    <3>2. Store[View[a + i]] = p[off + i]
      <4>1. <<m.region, off + i>> \in Cells
        BY <2>4
      <4> QED BY <3>1, <4>1 DEF Store, p
    <3>3. Flat!Digit(v, i) = (v \div Span(i)) % Span(1)
      BY SpanFacts DEF Flat!Digit, Span
    <3> QED BY <2>6, <3>2, <3>3
  <2>8. v \in 0 .. 2 ^ (w * ByteBits) - 1
    BY <2>6 DEF Value, Span
  <2>9. (IF result'.ok THEN result' ELSE [ok |-> FALSE]) = Flat!Answer(v)
    BY <2>2 DEF Ok, Flat!Answer
  <2>10. UNCHANGED <<View, Store>>
    BY <1>2 DEF View, Store, Attached, CellOf, Entries, Cells
  <2>11. Flat!Load(a, w)
    BY <2>3, <2>7, <2>8, <2>9, <2>10 DEF Flat!Load, View, Store
  <2> QED BY <2>11 DEF Flat!SpaceNext
<1> QED BY <1>3, <1>4

LEMMA WriteSaves ==
  ASSUME TableInv, RoomyTable, MemoryType, NEW a \in Addr, NEW w \in Widths,
         NEW v \in WriteVals[w], Write(a, w, v)
  PROVE  Flat!SpaceNext
<1>1. w \in Nat \ {0} /\ TRUE \in BOOLEAN /\ v \in Nat /\ v \in 0 .. 2 ^ (w * ByteBits) - 1
  BY WidthAssumption, Written DEF Value, Span
<1>2. /\ result' = WriteResult(a, w) /\ mappings' = mappings
      /\ bytes' = Stored(a, w, v)
  BY DEF Write
<1>3. CASE Errors(a, w, TRUE) # {}
  <2>1. WriteResult(a, w) = CHOOSE e \in Errors(a, w, TRUE) : TRUE
    BY <1>3, Zenon DEF WriteResult
  <2>2. WriteResult(a, w).ok = FALSE
    BY <1>1, <1>3, <2>1, AccessOutcome
  <2>3. bytes' = bytes
    BY <1>2, <1>3, Zenon DEF Stored
  <2> QED BY <1>2, <2>2, <2>3, RefusedCall
<1>4. CASE Errors(a, w, TRUE) = {}
  <2> DEFINE m == Serving(a)
             off == a - m.base
  <2>1. /\ m \in Entries /\ Covers(m, a)
        /\ \/ m.region \in RamRegions /\ ~OutOfBounds(Size[m.region], off, w)
           \/ /\ m.region \in ExitRegions /\ m.region \notin RamRegions
              /\ off = 0 /\ w = 4
    BY <1>1, <1>4, AccessOutcome
  <2>2. result' = Done
    BY <1>2, <1>4, Zenon DEF WriteResult
  <2>3. (IF result'.ok THEN result' ELSE [ok |-> FALSE]) = Flat!Answer(0)
    BY <2>2 DEF Done, Ok, Flat!Answer
  <2>4. View' = View /\ Store' = [c \in Cells |-> bytes'[c[1]][c[2]]]
    BY <1>2 DEF View, Store, Attached, CellOf, Entries, Cells
  <2>5. a \in Attached /\ View[a] = <<m.region, off>>
    BY <2>1, CellIs DEF View
  <2>6. CASE m.region \in RamRegions /\ ~OutOfBounds(Size[m.region], off, w)
    <3>1. bytes' = [bytes EXCEPT ![m.region] = PutLe(@, off, w, v)]
      BY <1>2, <1>4, <2>6, Zenon DEF Stored
    <3> HIDE DEF m
    <3>2. Flat!Whole(a, w)
      BY <1>1, <2>1, <2>6, AccessWhole
    <3>3. off \in Nat
      BY <1>1, <2>1, <2>6, AccessCells
    <3> HIDE DEF off
    <3>4. \A i \in Nat : Flat!Digit(v, i) = (v \div Span(i)) % Span(1)
      BY SpanFacts DEF Flat!Digit, Span
    <3>5. ASSUME NEW c \in Cells
          PROVE  bytes'[c[1]][c[2]] =
                   IF c[1] = m.region /\ c[2] \in off .. off + w - 1
                   THEN Flat!Digit(v, c[2] - off) ELSE Store[c]
      <4>1. PICK r \in RamRegions : \E o \in 0 .. Size[r] - 1 : c = <<r, o>>
        BY DEF Cells
      <4> PICK o \in 0 .. Size[r] - 1 : c = <<r, o>>
        BY <4>1
      <4>2. bytes[r] \in [0 .. Size[r] - 1 -> Byte]
        BY DEF MemoryType
      <4>3. CASE r # m.region
        BY <3>1, <4>1, <4>3 DEF Store, MemoryType
      <4>4. CASE r = m.region
        <5>1. bytes'[r] = PutLe(bytes[r], off, w, v)
          BY <3>1, <4>4 DEF MemoryType
        <5>2. bytes'[r][o] = IF o \in off .. off + w - 1
                             THEN (v \div Span(o - off)) % Span(1) ELSE bytes[r][o]
          BY <4>1, <4>2, <5>1 DEF PutLe
        <5>3. o \in off .. off + w - 1 => o - off \in Nat
          BY <3>3
        <5>4. Store[c] = bytes[r][o] /\ c[1] = r /\ c[2] = o
          BY <4>1 DEF Store
        <5> QED BY <3>4, <4>1, <4>4, <5>2, <5>3, <5>4
      <4> QED BY <4>3, <4>4
    <3>6. Store' = [c \in Cells |->
                      IF c[1] = View[a][1] /\ c[2] \in View[a][2] .. View[a][2] + w - 1
                      THEN Flat!Digit(v, c[2] - View[a][2]) ELSE Store[c]]
      BY <2>4, <2>5, <3>5
    <3>7. Flat!Save(a, w, v)
      BY <2>3, <2>4, <3>6 DEF Flat!Save, View, Store
    <3> QED BY <1>1, <3>2, <3>7 DEF Flat!SpaceNext
  <2>7. CASE m.region \in ExitRegions /\ m.region \notin RamRegions /\ off = 0 /\ w = 4
    <3>1. bytes' = bytes
      BY <1>2, <2>7, Zenon DEF Stored
    <3>2. Store' = Store
      BY <3>1 DEF Store, Cells
    <3> HIDE DEF m, off
    <3>3. a \in DOMAIN View /\ View[a] \in {<<r, 0>> : r \in ExitRegions}
      BY <2>5, <2>7 DEF View
    <3>4. Flat!Command(a, w)
      BY <2>3, <2>4, <2>7, <3>2, <3>3 DEF Flat!Command, View, Store
    <3> QED BY <3>4 DEF Flat!SpaceNext
  <2> QED BY <2>1, <2>6, <2>7
<1> QED BY <1>3, <1>4

\* If no mapping is smaller than its RAM, the bus implements the flat address
\* space: what is attached stays where it is, and loads and stores are byte-wise
\* exact, all or nothing, whatever the table and whatever the aliases.
THEOREM BusIsFlat == ASSUME Roomy PROVE Spec => ImplementsAddressSpace
<1>1. Init => Flat!SpaceInit
  <2> SUFFICES ASSUME Init PROVE Flat!SpaceInit
    OBVIOUS
  <2>1. Attached = {}
    BY DEF Init, Attached, Entries
  <2>2. View = [a \in {} |-> 0]
    BY <2>1 DEF View
  <2>3. Store = [c \in Cells |-> 0]
    <3>1. ASSUME NEW c \in Cells PROVE bytes[c[1]][c[2]] = 0
      BY DEF Init, Cells
    <3> QED BY <3>1 DEF Store
  <2>4. (IF result.ok THEN result ELSE [ok |-> FALSE]) = Flat!Answer(0)
    BY DEF Init, Done, Ok, Flat!Answer
  <2> QED BY <2>2, <2>3, <2>4 DEF Flat!SpaceInit, View, Store
<1>2. TableInv /\ RoomyTable /\ MemoryType /\ [Next]_vars
        => [Flat!SpaceNext]_(Flat!space)
  <2>1. CASE UNCHANGED vars
    BY <2>1 DEF vars, Flat!space, Attached, CellOf, Entries, Cells
  <2> QED BY <2>1, MapAttaches, ReadLoads, WriteSaves DEF Next
<1>3. Spec => []RoomyTable
  <2>1. Init => RoomyTable
    BY DEF Init, RoomyTable, Entries
  <2>2. TableInv /\ RoomyTable /\ [Next]_vars => RoomyTable'
    BY RoomyNext
  <2> QED BY <2>1, <2>2, TableCorrect, PTL DEF Spec
<1> QED BY <1>1, <1>2, <1>3, TableCorrect, MemoryCorrect, PTL
        DEF Spec, ImplementsAddressSpace, Flat!SpaceSpec
=============================================================================
