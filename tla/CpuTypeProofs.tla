---------------------------- MODULE CpuTypeProofs ----------------------------
(***************************************************************************)
(* Proofs about what instructions compute, for every program, size of a    *)
(* byte and layout of memory: the register file, the instruction pointers  *)
(* and memory hold what their types say, and a string instruction is its   *)
(* iterations.  What the bus returns is taken from the proofs about it.    *)
(***************************************************************************)
EXTENDS CpuProofs

\* The bus the CPU uses, with the theorems about it.
Bus == INSTANCE BusProofs WITH
    mappings <- Layout, signal <- 0, result <- 0, MaxMappings <- Len(Layout),
    MapBases <- {}, MapSizes <- [r \in RamRegions \cup ExitRegions |-> {}],
    Widths <- {1, 2, 4, 8}, WriteVals <- [w \in {1, 2, 4, 8} |-> {}]

Width == {1, 2, 4, 8}
File == [Reg -> Word]

-----------------------------------------------------------------------------
(* The memory behind the bus.                                              *)

LEMMA WordIsTwo == AddrSpace \in Nat /\ AddrSpace >= 2
<1>1. 8 * ByteBits \in Nat /\ 8 * ByteBits = (8 * ByteBits - 1) + 1
      /\ 8 * ByteBits - 1 \in Nat
  BY WordAssumption
<1>2. \A n \in Nat : 2 ^ (n + 1) = 2 * 2 ^ n /\ 2 ^ n \in Nat /\ 2 ^ n >= 1
  BY PowerStep, PowerPositive
<1>3. 2 ^ (8 * ByteBits) = 2 * 2 ^ (8 * ByteBits - 1)
  BY <1>1, <1>2
<1> QED BY <1>1, <1>2, <1>3, WordAssumption

\* What the proofs about the bus assume holds of the bus the CPU uses.
BusAssumed ==
    /\ Bus!ByteAssumption /\ Bus!AddrAssumption /\ Bus!RegionAssumption
    /\ Bus!SizeAssumption /\ Bus!MapAssumption /\ Bus!WidthAssumption
    /\ Bus!WriteAssumption /\ Bus!MaxMappingsAssumption

LEMMA BusFits == BusAssumed
<1>1. Bus!ByteAssumption /\ Bus!AddrAssumption /\ Bus!RegionAssumption
  BY WordAssumption, WordIsTwo, LayoutAssumption
     DEF Bus!ByteAssumption, Bus!AddrAssumption, Bus!RegionAssumption
<1>2. Bus!SizeAssumption
  BY LayoutAssumption DEF Bus!SizeAssumption, Word, Bus!Addr
<1>3. Bus!MapAssumption
  BY DEF Bus!MapAssumption, Bus!Region
<1>4. Bus!WidthAssumption /\ Bus!WriteAssumption
  BY DEF Bus!WidthAssumption, Bus!WriteAssumption
<1>5. Bus!MaxMappingsAssumption
  BY LayoutAssumption DEF Bus!MaxMappingsAssumption
<1> QED BY <1>1, <1>2, <1>3, <1>4, <1>5 DEF BusAssumed

LEMMA LayoutSound == Bus!TableInv
<1>1. Mem!Mapping = Bus!Mapping
  BY DEF Mem!Mapping, Bus!Mapping, Mem!Addr, Bus!Addr, Mem!Region, Bus!Region
<1>2. Bus!TableType
  BY <1>1, LayoutAssumption DEF Bus!TableType
<1>3. Bus!MappingsSound
  BY LayoutAssumption DEF Bus!MappingsSound
<1> QED BY <1>2, <1>3 DEF Bus!TableInv

\* The two instances of the bus are one.
LEMMA SameSpan == \A n : Span(n) = Bus!Span(n)
BY DEF Span, Mem!Span, Bus!Span

LEMMA SameErrors ==
  ASSUME NEW address, NEW w, NEW write
  PROVE  /\ Mem!Errors(address, w, write) = Bus!Errors(address, w, write)
         /\ Mem!Serving(address) = Bus!Serving(address)
<1>1. Mem!Resolve(address) = Bus!Resolve(address)
  BY DEF Mem!Resolve, Bus!Resolve, Mem!UpperBound, Bus!UpperBound
<1>2. Mem!Serving(address) = Bus!Serving(address)
  BY <1>1 DEF Mem!Serving, Bus!Serving
<1>3. \A m : Mem!Refused(m, address, w, write) = Bus!Refused(m, address, w, write)
  BY DEF Mem!Refused, Bus!Refused, Mem!OutOfBounds, Bus!OutOfBounds, Mem!Err, Bus!Err,
         Mem!Rebase, Bus!Rebase, Mem!FirstOutOfBounds, Bus!FirstOutOfBounds,
         Mem!ExitAccepts, Bus!ExitAccepts, Mem!ExitWidth, Bus!ExitWidth
<1>4. Mem!Errors(address, w, write) = Bus!Errors(address, w, write)
  BY <1>1, <1>2, <1>3 DEF Mem!Errors, Bus!Errors, Mem!Err, Bus!Err
<1> QED BY <1>2, <1>4

LEMMA SameGetLe == \A p, at, w : Mem!GetLe(p, at, w) = Bus!GetLe(p, at, w)
BY DEF Mem!GetLe, Bus!GetLe, Mem!Span, Bus!Span

LEMMA SameStored ==
  ASSUME NEW address, NEW w, NEW v
  PROVE  Mem!Stored(address, w, v) = Bus!Stored(address, w, v)
<1>1. \A p, at : Mem!PutLe(p, at, w, v) = Bus!PutLe(p, at, w, v)
  BY DEF Mem!PutLe, Bus!PutLe, Mem!Span, Bus!Span
<1> QED BY <1>1, SameErrors DEF Mem!Stored, Bus!Stored

-----------------------------------------------------------------------------
(* Words and the values of fewer bytes.                                    *)

LEMMA SpanNat == \A n \in Nat : Span(n) \in Nat \ {0}
BY SameSpan, BusFits, Bus!SpanFacts DEF BusAssumed

LEMMA SpanSum == \A m, n \in Nat : Span(m + n) = Span(m) * Span(n)
BY SameSpan, BusFits, Bus!SpanFacts DEF BusAssumed

\* A word is a whole number of values of w bytes.
LEMMA WordSpan ==
  ASSUME NEW w \in Width
  PROVE  /\ Span(w) \in Nat \ {0} /\ Span(w) <= AddrSpace
         /\ \E m \in Nat \ {0} : AddrSpace = m * Span(w)
<1>1. AddrSpace = Span(8)
  BY WordAssumption DEF Span, Mem!Span
<1>2. w \in Nat /\ 8 - w \in Nat /\ (8 - w) + w = 8
  BY DEF Width
<1>3. Span(w) \in Nat \ {0} /\ Span(8 - w) \in Nat \ {0}
  BY <1>2, SpanNat
<1>4. AddrSpace = Span(8 - w) * Span(w)
  BY <1>1, <1>2, SpanSum
<1> DEFINE S == Span(w)
           M == Span(8 - w)
<1>5. S \in Nat \ {0} /\ M \in Nat \ {0} /\ AddrSpace = M * S
  BY <1>3, <1>4
<1> HIDE DEF S, M
<1>6. S <= M * S
  BY <1>5
<1> QED BY <1>5, <1>6 DEF S

LEMMA InWord == \A x : x \in Word <=> x \in Nat /\ x < AddrSpace
BY WordIsTwo DEF Word

LEMMA LowRange ==
  ASSUME NEW w \in Width, NEW v \in Nat
  PROVE  Low(v, w) \in Nat /\ Low(v, w) < Span(w) /\ Low(v, w) \in Word
<1>1. Span(w) \in Nat \ {0} /\ Span(w) <= AddrSpace
  BY WordSpan
<1>2. v % Span(w) \in 0 .. Span(w) - 1
  BY <1>1, Division
<1> QED BY <1>1, <1>2, WordIsTwo, InWord DEF Low

LEMMA AddWord == \A a, b \in Nat : Add(a, b) \in Word
BY WordIsTwo DEF Add, Word

LEMMA SubWord == \A a \in Nat, b \in Word : Sub(a, b) \in Word
BY WordIsTwo DEF Sub, Word

\* Replacing the low w bytes of a word gives a word.
LEMMA DepositWord ==
  ASSUME NEW w \in Width, NEW x \in Word, NEW v \in Nat
  PROVE  x - Low(x, w) + Low(v, w) \in Word
<1>1. PICK m \in Nat \ {0} : AddrSpace = m * Span(w)
  BY WordSpan
<1> DEFINE S == Span(w)
           q == x \div S
           r == x % S
           y == Low(v, w)
<1>2. S \in Nat \ {0} /\ x \in Nat /\ x < m * S
  BY <1>1, WordSpan, InWord
<1>3. q \in Nat /\ r \in 0 .. S - 1 /\ x = q * S + r
  BY <1>2, Division
<1>4. y \in Nat /\ y < S /\ Low(x, w) = r
  BY LowRange DEF Low
<1> HIDE DEF S, q, r, y
<1>5. q < m
  <2>1. SUFFICES ASSUME q >= m PROVE FALSE
    BY <1>1, <1>3
  <2>2. q * S >= m * S
    BY <1>1, <1>2, <1>3, <2>1
  <2> QED BY <1>1, <1>2, <1>3, <2>2
<1>6. (q + 1) * S <= m * S
  BY <1>1, <1>2, <1>3, <1>5
<1>7. (q + 1) * S = q * S + S
  BY <1>2, <1>3
<1>8. q * S + y \in Nat /\ q * S + y < m * S
  BY <1>1, <1>2, <1>3, <1>4, <1>6, <1>7
<1>9. x - r + y = q * S + y
  BY <1>2, <1>3, <1>4
<1> QED BY <1>1, <1>4, <1>8, <1>9, InWord DEF S, y

LEMMA WriteGprType ==
  ASSUME NEW file \in File, NEW r, NEW w \in Width, NEW v \in Nat
  PROVE  WriteGpr(file, r, w, v) \in File
<1>1. CASE w >= 4
  BY <1>1, LowRange DEF WriteGpr, File
<1>2. CASE ~(w >= 4)
  <2>1. WriteGpr(file, r, w, v) = [file EXCEPT ![r] = @ - Low(@, w) + Low(v, w)]
    BY <1>2 DEF WriteGpr
  <2>2. CASE r \in Reg
    <3>1. file[r] - Low(file[r], w) + Low(v, w) \in Word
      BY <2>2, DepositWord DEF File
    <3> QED BY <2>1, <2>2, <3>1 DEF File
  <2>3. CASE r \notin Reg
    BY <2>1, <2>3 DEF File
  <2> QED BY <2>2, <2>3
<1> QED BY <1>1, <1>2

-----------------------------------------------------------------------------
(* What is read.                                                           *)

\* What a read of w bytes returns is a value of w bytes.
LEMMA LoadRange ==
  ASSUME Bus!MemoryType, NEW address \in Word, NEW w \in Width, NEW at,
         Load(address, w, at).ok
  PROVE  LET v == Load(address, w, at).value
         IN  v \in Nat /\ v < Span(w) /\ v \in Word
<1> DEFINE m   == Bus!Serving(address)
           off == address - m.base
           v   == Bus!GetLe(bytes[m.region], off, w)
<1>1. Bus!Errors(address, w, FALSE) = {}
  BY SameErrors DEF Load, Refusal
<1>2. Load(address, w, at).value = v
  <2>1. Mem!Errors(address, w, FALSE) = {}
    BY <1>1, SameErrors
  <2>2. Mem!ReadResult(address, w) = Mem!Ok(Mem!GetLe(bytes[Mem!Serving(address).region],
                                                     address - Mem!Serving(address).base, w))
    BY <2>1, Zenon DEF Mem!ReadResult
  <2>3. Mem!ReadResult(address, w).value = v
    BY <2>2, SameErrors, SameGetLe DEF Mem!Ok
  <2> QED BY <2>1, <2>3 DEF Load, Loaded
<1>3. address \in Bus!Addr /\ w \in Nat \ {0}
  BY DEF Word, Bus!Addr, Width
<1>4. /\ m \in Bus!Entries /\ Bus!Covers(m, address)
      /\ m.region \in RamRegions
      /\ ~Bus!OutOfBounds(Size[m.region], off, w)
  BY <1>1, <1>3, LayoutSound, BusFits, Bus!AccessOutcome DEF BusAssumed
<1>5. Bus!Resolve(address) # {}
  BY <1>1, Zenon DEF Bus!Errors, Bus!Err
<1>6. m.base \in Nat
  BY <1>3, <1>5, LayoutSound, BusFits, Bus!ServingFacts DEF BusAssumed
<1> HIDE DEF m
<1>7. off \in Nat /\ off < Size[m.region] /\ Size[m.region] - off >= w
  BY <1>3, <1>4, <1>6, LayoutAssumption, InWord DEF Bus!Covers, Bus!OutOfBounds
<1>8. Size[m.region] \in Nat
  BY <1>4, LayoutAssumption, InWord
<1> HIDE DEF off
<1>9. \A i \in 0 .. w - 1 : bytes[m.region][off + i] \in Bus!Byte
  <2> SUFFICES ASSUME NEW i \in 0 .. w - 1 PROVE bytes[m.region][off + i] \in Bus!Byte
    OBVIOUS
  <2>1. off + i \in 0 .. Size[m.region] - 1
    BY <1>3, <1>7, <1>8
  <2> QED BY <1>4, <2>1 DEF Bus!MemoryType
<1>10. v \in Bus!Value(w)
  BY <1>3, <1>7, <1>9, BusFits, Bus!GetLeDigits DEF BusAssumed
<1>11. v \in 0 .. Span(w) - 1
  BY <1>10, SameSpan DEF Bus!Value
<1> HIDE DEF v
<1>12. Span(w) \in Nat /\ Span(w) <= AddrSpace
  BY WordSpan
<1>13. v \in Nat /\ v < Span(w) /\ v < AddrSpace
  BY <1>11, <1>12, WordIsTwo
<1>14. v \in Word
  BY <1>13, InWord
<1> QED BY <1>2, <1>13, <1>14

\* What the decoder delivers for the instruction at rip.
LEMMA CurInsn == code \in Programs /\ rip \in DOMAIN code => IsInsn(Cur)
BY ProgramAssumption DEF Cur

LEMMA AddressType ==
  ASSUME NEW file \in File, NEW o, IsOperand(o), After \in Word
  PROVE  EffectiveAddress(o, file) \in Word
<1> DEFINE part(r) == IF r = "none" THEN 0 ELSE file[r]
<1>1. CASE o.reg = "rip"
  BY <1>1, AddWord, InWord DEF EffectiveAddress, IsOperand
<1>2. CASE o.reg # "rip"
  <2>1. EffectiveAddress(o, file) = (o.disp + part(o.reg) + part(o.index) * o.scale) % AddrSpace
    BY <1>2 DEF EffectiveAddress
  <2>2. part(o.reg) \in Nat /\ part(o.index) \in Nat
    BY <1>2, InWord DEF IsOperand, File
  <2>3. o.disp \in Nat /\ o.scale \in {1, 2, 4, 8}
    BY InWord DEF IsOperand
  <2> HIDE DEF part
  <2>4. part(o.index) * o.scale \in Nat
    BY <2>2, <2>3
  <2>5. o.disp + part(o.reg) + part(o.index) * o.scale \in Nat
    BY <2>2, <2>3, <2>4
  <2> QED BY <2>1, <2>5, WordIsTwo DEF Word
<1> QED BY <1>1, <1>2

Readies == regs \in File /\ Bus!MemoryType /\ After \in Word

\* What is read is a word, of the operand's width but for an immediate, which
\* is sign-extended.
LEMMA ReadRange ==
  ASSUME Readies, NEW o, IsOperand(o), NEW w \in Width, ReadSized(o, w).ok
  PROVE  LET v == ReadSized(o, w).value
         IN  v \in Word /\ (o.kind # "imm" => v < Span(w))
<1> USE DEF Readies
<1>1. CASE o.kind = "imm"
  BY <1>1 DEF ReadSized, Loaded, IsOperand
<1>2. CASE o.kind = "reg"
  <2>1. regs[o.reg] \in Nat
    BY <1>2, InWord DEF IsOperand, File
  <2>2. ReadSized(o, w).value = Low(regs[o.reg], w)
    BY <1>2 DEF ReadSized, Loaded, ReadGpr
  <2> QED BY <2>1, <2>2, LowRange
<1>3. CASE o.kind = "high"
  <2>1. regs[o.reg] \in Nat
    BY <1>3, InWord DEF IsOperand, File
  <2> DEFINE x == Low(regs[o.reg], 2)
  <2>2. ReadSized(o, w).value = x \div Span(1)
    BY <1>3 DEF ReadSized, Loaded, ReadGpr
  <2>3. x \in Nat /\ x < Span(2)
    BY <2>1, LowRange DEF Width
  <2>4. Span(1) \in Nat \ {0} /\ Span(2) = Span(1) * Span(1)
    <3>1. Span(1 + 1) = Span(1) * Span(1)
      BY SpanSum
    <3> QED BY <3>1, SpanNat
  <2>5. Span(1) <= Span(w) /\ Span(w) <= AddrSpace /\ Span(w) \in Nat
    <3>1. w - 1 \in Nat /\ (w - 1) + 1 = w
      BY DEF Width
    <3>2. Span(w) = Span(w - 1) * Span(1) /\ Span(w - 1) \in Nat \ {0}
      BY <3>1, SpanSum, SpanNat
    <3> DEFINE a == Span(w - 1)
               b == Span(1)
    <3>3. a \in Nat \ {0} /\ b \in Nat \ {0} /\ Span(w) = a * b
      BY <2>4, <3>2
    <3> HIDE DEF a, b
    <3>4. b <= a * b
      BY <3>3
    <3> QED BY <3>3, <3>4, WordSpan DEF b
  <2> DEFINE d == x \div Span(1)
             b == Span(1)
  <2>6. d \in Nat /\ x % b \in 0 .. b - 1 /\ x = d * b + (x % b)
    BY <2>3, <2>4, Division
  <2>7. d < b
    <3> HIDE DEF x, d, b
    <3>0. b \in Nat \ {0} /\ x < b * b
      BY <2>3, <2>4 DEF b
    <3>1. SUFFICES ASSUME d >= b PROVE FALSE
      BY <2>6, <3>0
    <3>2. d * b >= b * b
      BY <2>6, <3>0, <3>1
    <3> QED BY <2>3, <2>6, <3>0, <3>2
  <2>8. d < Span(w) /\ d < AddrSpace
    <3> HIDE DEF d
    <3> QED BY <2>4, <2>5, <2>6, <2>7, WordIsTwo DEF b
  <2>9. d \in Word
    <3> HIDE DEF d
    <3> QED BY <2>6, <2>8, InWord
  <2> QED BY <2>2, <2>8, <2>9
<1>4. CASE o.kind = "mem"
  <2>1. ReadSized(o, w) = Load(EffectiveAddress(o, regs), w, rip)
    BY <1>4 DEF ReadSized
  <2> QED BY <2>1, AddressType, LoadRange
<1>5. CASE o.kind \in {"fsgs", "bank"}
  BY <1>5 DEF ReadSized, Refusal
<1>6. CASE o.kind \notin {"imm", "reg", "high", "mem", "fsgs", "bank"}
  <2>1. ReadSized(o, w).value = 0
    BY <1>6 DEF ReadSized, Loaded
  <2>2. Span(w) \in Nat \ {0}
    BY WordSpan
  <2> QED BY <2>1, <2>2, WordIsTwo, InWord
<1> QED BY <1>1, <1>2, <1>3, <1>4, <1>5, <1>6

-----------------------------------------------------------------------------
(* What is written.                                                        *)

Written == regs' \in File /\ Bus!MemoryType'

LEMMA FinishType ==
  ASSUME Bus!MemoryType, NEW file \in File, Finish(file)
  PROVE  Written
BY DEF Finish, Written, Bus!MemoryType

LEMMA AbandonType ==
  ASSUME Bus!MemoryType, NEW file \in File, NEW status, Abandon(file, status)
  PROVE  Written
BY DEF Abandon, Written, Bus!MemoryType

LEMMA MemoryStays ==
  ASSUME Bus!MemoryType, NEW address \in Word, NEW w \in Width, NEW v \in Nat,
         bytes' = Mem!Stored(address, w, v)
  PROVE  Bus!MemoryType'
<1>1. address \in Bus!Addr /\ w \in Nat \ {0} /\ bytes' = Bus!Stored(address, w, v)
  BY SameStored DEF Word, Bus!Addr, Width
<1> QED BY <1>1, LayoutSound, BusFits, Bus!MemoryKept DEF BusAssumed

LEMMA StoreType ==
  ASSUME Bus!MemoryType, NEW address \in Word, NEW w \in Width, NEW v \in Nat,
         NEW done \in File, NEW failed \in File, NEW at,
         Store(address, w, v, done, failed, at)
  PROVE  Written
<1>1. CASE Mem!Errors(address, w, TRUE) = {}
  <2>1. regs' = done /\ bytes' = Mem!Stored(address, w, v)
    BY <1>1 DEF Store
  <2> QED BY <2>1, MemoryStays DEF Written
<1>2. CASE Mem!Errors(address, w, TRUE) # {}
  BY <1>2, AbandonType DEF Store
<1> QED BY <1>1, <1>2

LEMMA WriteRegType ==
  ASSUME NEW file \in File, NEW o, IsOperand(o), NEW v \in Nat, Cur.w \in Width
  PROVE  WriteReg(file, o, v) \in File
<1>1. CASE o.kind = "high"
  <2>1. file[o.reg] \in Nat
    BY <1>1, InWord DEF IsOperand, File
  <2> DEFINE x == Low(file[o.reg], 1)
             y == Low(v, 1)
             s == Span(1)
  <2>2. x \in Nat /\ y \in Nat /\ s \in Nat
    BY <2>1, LowRange, SpanNat DEF Width
  <2>3. x + s * y \in Nat
    <3> HIDE DEF x, y, s
    <3> QED BY <2>2
  <2>4. 2 \in Width
    BY DEF Width
  <2> QED BY <1>1, <2>3, <2>4, WriteGprType DEF WriteReg
<1>2. CASE o.kind # "high"
  BY <1>2, WriteGprType DEF WriteReg
<1> QED BY <1>1, <1>2

LEMMA WriteType ==
  ASSUME Bus!MemoryType, NEW o, IsOperand(o), NEW v \in Nat, NEW file \in File,
         After \in Word, Cur.w \in Width, WriteOperand(o, v, file)
  PROVE  Written
<1>1. CASE o.kind \in {"reg", "high"}
  <2>1. Finish(WriteReg(file, o, v))
    BY <1>1 DEF WriteOperand
  <2> QED BY <2>1, WriteRegType, FinishType
<1>2. CASE o.kind = "mem"
  <2>1. Store(EffectiveAddress(o, file), Cur.w, v, file, file, rip)
    BY <1>2 DEF WriteOperand
  <2> QED BY <2>1, AddressType, StoreType
<1>3. CASE o.kind \in {"fsgs", "bank"}
  <2>1. Abandon(file, Unsupported)
    BY <1>3 DEF WriteOperand
  <2> QED BY <2>1, AbandonType
<1>4. CASE o.kind \notin {"reg", "high", "mem", "fsgs", "bank"}
  <2>1. Finish(file)
    BY <1>4 DEF WriteOperand
  <2> QED BY <2>1, FinishType
<1> QED BY <1>1, <1>2, <1>3, <1>4

\* The state the types describe, and what a step leaves of it.
Values ==
    /\ regs \in File /\ Bus!MemoryType
    /\ rip \in Word /\ insn_rip \in Word /\ left \in Word
    /\ zf \in BOOLEAN /\ df \in BOOLEAN

\* An instruction may begin.
Ready == Values /\ IsInsn(Cur)

LEMMA ReadyFacts ==
  ASSUME Ready
  PROVE  /\ Readies /\ After \in Word /\ regs \in File /\ Bus!MemoryType
         /\ Cur.w \in Width /\ Cur.from \in Width
         /\ IsOperand(Cur.a) /\ IsOperand(Cur.b)
         /\ zf \in BOOLEAN /\ df \in BOOLEAN
         /\ \A r \in Reg : regs[r] \in Nat /\ regs[r] \in Word
<1>1. Cur.w \in Width /\ Cur.from \in Width /\ IsOperand(Cur.a) /\ IsOperand(Cur.b)
      /\ Cur.len \in Nat
  BY DEF Ready, IsInsn, Width
<1>2. After \in Word
  BY <1>1, AddWord, InWord DEF After, Ready, Values
<1> QED BY <1>1, <1>2, InWord DEF Ready, Values, Readies, File

LEMMA OperandRange ==
  ASSUME Ready, NEW o, IsOperand(o), ReadOperand(o).ok
  PROVE  LET v == ReadOperand(o).value
         IN  v \in Nat /\ v \in Word /\ (o.kind # "imm" => v < Span(Cur.w))
BY ReadyFacts, ReadRange, InWord DEF ReadOperand

LEMMA SourceRange == Ready /\ Source.ok => Source.value \in Nat /\ Source.value \in Word
BY ReadyFacts, ReadRange, InWord DEF Source

LEMMA BothRange ==
  ASSUME Ready, ReadBoth.ok
  PROVE  /\ ReadBoth.a \in Nat /\ ReadBoth.a \in Word
         /\ ReadBoth.b \in Nat /\ ReadBoth.b \in Word
<1>1. ReadOperand(Cur.a).ok /\ Source.ok
  BY DEF ReadBoth
<1>2. ReadBoth.a = ReadOperand(Cur.a).value /\ ReadBoth.b = Source.value
  BY <1>1 DEF ReadBoth
<1> QED BY <1>1, <1>2, ReadyFacts, OperandRange, SourceRange

-----------------------------------------------------------------------------
(* The instructions, one by one.                                           *)

Outcome ==
    /\ Written
    /\ rip' \in Word
    /\ zf' \in BOOLEAN /\ df' \in BOOLEAN
    /\ left' = left

LEMMA MovType == Ready /\ Mov => Outcome
<1> SUFFICES ASSUME Ready, Mov PROVE Outcome
  OBVIOUS
<1>1. rip' = After /\ UNCHANGED <<zf, df, left>>
  BY DEF Mov, Plain
<1> DEFINE v == Source
           value == IF Cur.op = "movsx" THEN SignExtended(v.value, Cur.from) ELSE v.value
<1>2. IF v.ok THEN WriteOperand(Cur.a, value, regs) ELSE Abandon(regs, v.status)
  BY DEF Mov
<1>3. v.ok => value \in Nat
  <2>1. v.ok => v.value \in Nat
    BY SourceRange
  <2>2. Span(Cur.from) \in Nat /\ Span(Cur.from) <= AddrSpace
    BY ReadyFacts, WordSpan
  <2>3. v.ok => Low(v.value, Cur.from) \in Nat
    BY <2>1, LowRange, ReadyFacts
  <2> QED BY <2>1, <2>2, <2>3, WordIsTwo DEF SignExtended
<1> HIDE DEF v, value
<1>4. Written
  BY <1>2, <1>3, ReadyFacts, WriteType, AbandonType
<1> QED BY <1>1, <1>4, ReadyFacts DEF Outcome

LEMMA LeaType == Ready /\ Lea => Outcome
<1> SUFFICES ASSUME Ready, Lea PROVE Outcome
  OBVIOUS
<1>1. EffectiveAddress(Cur.b, regs) \in Nat
  BY ReadyFacts, AddressType, InWord
<1>2. Written
  BY <1>1, ReadyFacts, WriteType DEF Lea
<1> QED BY <1>2, ReadyFacts DEF Lea, Plain, Outcome

LEMMA SetCcType == Ready /\ SetCc => Outcome
BY ReadyFacts, WriteType DEF SetCc, Plain, Outcome

LEMMA AluType == Ready /\ Alu => Outcome
<1> SUFFICES ASSUME Ready, Alu PROVE Outcome
  OBVIOUS
<1> DEFINE v    == ReadBoth
           diff == Low(Sub(v.a, v.b), Cur.w)
<1>1. rip' = After /\ UNCHANGED <<df, left>>
  BY DEF Alu, Combines
<1>2. IF ~v.ok THEN Abandon(regs, v.status) /\ UNCHANGED zf
      ELSE /\ zf' = (diff = 0)
           /\ IF Cur.op = "cmp" THEN Finish(regs) ELSE WriteOperand(Cur.a, diff, regs)
  BY DEF Alu
<1>3. v.ok => diff \in Nat
  <2>1. v.ok => Sub(v.a, v.b) \in Nat
    BY BothRange, SubWord, InWord
  <2> QED BY <2>1, ReadyFacts, LowRange
<1> HIDE DEF v, diff
<1>4. Written /\ zf' \in BOOLEAN
  BY <1>2, <1>3, ReadyFacts, WriteType, AbandonType, FinishType
<1> QED BY <1>1, <1>4, ReadyFacts DEF Outcome

LEMMA UnaryType == Ready /\ Unary => Outcome
<1> SUFFICES ASSUME Ready, Unary PROVE Outcome
  OBVIOUS
<1> DEFINE v     == ReadOperand(Cur.a)
           wide  == CASE Cur.op = "inc" -> Add(v.value, 1)
                      [] Cur.op = "dec" -> Sub(v.value, 1)
                      [] Cur.op = "neg" -> Sub(0, v.value)
                      [] Cur.op = "not" -> AddrSpace - 1 - v.value
           value == Low(wide, Cur.w)
<1>1. rip' = After /\ UNCHANGED <<df, left>> /\ Cur.op \in {"inc", "dec", "neg", "not"}
  BY DEF Unary, Combines, Executes
<1>2. IF ~v.ok THEN Abandon(regs, v.status) /\ UNCHANGED zf
      ELSE /\ zf' = IF Cur.op = "not" THEN zf ELSE value = 0
           /\ WriteOperand(Cur.a, value, regs)
  BY DEF Unary
<1>3. v.ok => value \in Nat
  <2>1. v.ok => v.value \in Nat /\ v.value \in Word
    BY ReadyFacts, OperandRange
  <2>2. 1 \in Word /\ 0 \in Word /\ 0 \in Nat /\ 1 \in Nat
    BY WordIsTwo, InWord
  <2>3. ASSUME v.ok PROVE wide \in Nat
    <3> HIDE DEF v
    <3>1. Add(v.value, 1) \in Nat /\ Sub(v.value, 1) \in Nat /\ Sub(0, v.value) \in Nat
      BY <2>1, <2>2, <2>3, AddWord, SubWord, InWord
    <3>2. AddrSpace - 1 - v.value \in Nat
      BY <2>1, <2>3, WordIsTwo, InWord
    <3> QED BY <1>1, <3>1, <3>2
  <2> HIDE DEF wide
  <2> QED BY <2>3, ReadyFacts, LowRange
<1> HIDE DEF v, value
<1>4. Written /\ zf' \in BOOLEAN
  BY <1>2, <1>3, ReadyFacts, WriteType, AbandonType
<1> QED BY <1>1, <1>4, ReadyFacts DEF Outcome

LEMMA ShiftType == Ready /\ Shift => Outcome
<1> SUFFICES ASSUME Ready, Shift PROVE Outcome
  OBVIOUS
<1> DEFINE v     == ReadBoth
           n     == v.b % (ByteBits * (IF Cur.w = 8 THEN 8 ELSE 4))
           value == IF Cur.op = "shl" THEN Low(v.a * 2 ^ n, Cur.w) ELSE v.a \div 2 ^ n
<1>1. rip' = After /\ UNCHANGED <<df, left>>
  BY DEF Shift, Combines
<1>2. IF ~v.ok THEN Abandon(regs, v.status) /\ UNCHANGED zf
      ELSE IF n = 0 THEN Finish(regs) /\ UNCHANGED zf
      ELSE WriteOperand(Cur.a, value, regs) /\ zf' = (value = 0)
  BY DEF Shift
<1>3. v.ok => value \in Nat
  <2>1. v.ok => v.a \in Nat /\ v.b \in Nat
    BY BothRange
  <2>2. ASSUME v.ok PROVE n \in Nat
    <3>1. ByteBits * (IF Cur.w = 8 THEN 8 ELSE 4) \in Nat \ {0}
      BY WordAssumption
    <3> DEFINE d == ByteBits * (IF Cur.w = 8 THEN 8 ELSE 4)
    <3>2. d \in Nat \ {0}
      BY <3>1
    <3> HIDE DEF d
    <3>3. v.b % d \in 0 .. d - 1
      BY <2>1, <2>2, <3>2, Division
    <3>4. v.b % d \in Nat
      BY <3>2, <3>3
    <3> QED BY <3>4 DEF d
  <2> HIDE DEF n
  <2>3. v.ok => 2 ^ n \in Nat \ {0}
    BY <2>2, PowerPositive
  <2> DEFINE p == 2 ^ n
  <2> HIDE DEF p, v
  <2>4. v.ok => v.a * p \in Nat
    BY <2>1, <2>3 DEF p
  <2>5. v.ok => Low(v.a * p, Cur.w) \in Nat /\ v.a \div p \in Nat
    BY <2>1, <2>3, <2>4, ReadyFacts, LowRange, Division DEF p
  <2> QED BY <2>5 DEF p
<1> HIDE DEF v, n, value
<1>4. Written /\ zf' \in BOOLEAN
  BY <1>2, <1>3, ReadyFacts, WriteType, AbandonType, FinishType
<1> QED BY <1>1, <1>4, ReadyFacts DEF Outcome

LEMMA ScanType == Ready /\ Cur.op = "bsf" /\ ScanBits => Outcome
<1> SUFFICES ASSUME Ready, Cur.op = "bsf", ScanBits PROVE Outcome
  OBVIOUS
<1> DEFINE v == ReadOperand(Cur.b)
           IsLowest(n) == Bit(v.value, n) = 1 /\ \A m \in 0 .. n - 1 : Bit(v.value, m) = 0
           lowest == CHOOSE n \in 0 .. ByteBits * Cur.w : IsLowest(n)
<1>1. rip' = After /\ UNCHANGED <<df, left>>
  BY DEF ScanBits, Combines
<1>2. IF ~v.ok THEN Abandon(regs, v.status) /\ UNCHANGED zf
      ELSE /\ zf' = (v.value = 0)
           /\ IF zf' THEN Finish(regs) ELSE WriteOperand(Cur.a, lowest, regs)
  BY DEF ScanBits
<1>3. ASSUME v.ok, v.value # 0 PROVE lowest \in Nat
  <2>1. v.value \in Nat /\ v.value < Span(Cur.w)
    BY <1>3, ReadyFacts, OperandRange DEF Ready, IsInsn
  <2>2. ByteBits * Cur.w \in Nat /\ Cur.w * ByteBits = ByteBits * Cur.w
    BY WordAssumption, ReadyFacts DEF Width
  <2> DEFINE m == ByteBits * Cur.w
             x == v.value
  <2>3. x \in Nat \ {0} /\ m \in Nat /\ x < 2 ^ m
    BY <1>3, <2>1, <2>2 DEF Span, Mem!Span
  <2> HIDE DEF m, x
  <2>4. \E n \in 0 .. m - 1 : Bit(x, n) = 1 /\ \A k \in 0 .. n - 1 : Bit(x, k) = 0
    BY <2>3, LowestBit DEF Bit
  <2>5. \E n \in 0 .. m : IsLowest(n)
    BY <2>3, <2>4 DEF x
  <2> HIDE DEF IsLowest
  <2>6. lowest \in 0 .. m
    BY <2>5 DEF m
  <2> QED BY <2>3, <2>6
<1> HIDE DEF v, lowest, IsLowest
<1>4. Written /\ zf' \in BOOLEAN
  BY <1>2, <1>3, ReadyFacts, WriteType, AbandonType, FinishType
<1> QED BY <1>1, <1>4, ReadyFacts DEF Outcome

LEMMA GprRange ==
  ASSUME Ready, NEW r \in Reg, NEW w \in Width
  PROVE  ReadGpr(r, w) \in Nat /\ ReadGpr(r, w) < Span(w) /\ ReadGpr(r, w) \in Word
BY ReadyFacts, LowRange DEF ReadGpr

LEMMA DivideType == Ready /\ Divide => Outcome
<1> SUFFICES ASSUME Ready, Divide PROVE Outcome
  OBVIOUS
<1> DEFINE v     == ReadOperand(Cur.a)
           limit == Span(Cur.w)
           low   == ReadGpr("rax", Cur.w)
           high  == IF Cur.w = 1 THEN ReadGpr("rax", 2) \div Span(1)
                    ELSE ReadGpr("rdx", Cur.w)
           pair  == high * limit + low
           into(l, h) == IF Cur.w = 1 THEN WriteGpr(regs, "rax", 2, h * Span(1) + l)
                         ELSE WriteGpr(WriteGpr(regs, "rax", Cur.w, l), "rdx", Cur.w, h)
           fault == Status("kFault", rip, rip, "kDivide")
<1>1. rip' = After /\ UNCHANGED <<zf, df, left>> /\ Cur.op \in {"mul", "div"}
  BY DEF Divide, Plain, Executes
<1>2. (CASE ~v.ok -> Abandon(regs, v.status)
         [] v.ok /\ Cur.op = "mul" ->
                Finish(into((low * v.value) % limit, (low * v.value) \div limit))
         [] v.ok /\ Cur.op = "div" /\ high >= v.value -> Abandon(regs, fault)
         [] OTHER -> Finish(into(pair \div v.value, pair % v.value)))
  BY DEF Divide
<1>3. limit \in Nat \ {0} /\ low \in Nat /\ high \in Nat
  <2>1. /\ limit \in Nat \ {0} /\ ReadGpr("rax", Cur.w) \in Nat
        /\ ReadGpr("rdx", Cur.w) \in Nat /\ ReadGpr("rax", 2) \in Nat
    BY ReadyFacts, GprRange, WordSpan DEF Reg, Width
  <2>2. Span(1) \in Nat \ {0}
    BY SpanNat
  <2> QED BY <2>1, <2>2, Division
<1>4. v.ok => v.value \in Nat
  BY ReadyFacts, OperandRange
<1>5. ASSUME NEW l \in Nat, NEW h \in Nat PROVE into(l, h) \in File
  <2>1. h * Span(1) + l \in Nat
    <3> DEFINE s == Span(1)
    <3>1. s \in Nat
      BY SpanNat
    <3> HIDE DEF s
    <3>2. h * s + l \in Nat
      BY <3>1
    <3> QED BY <3>2 DEF s
  <2>2. 2 \in Width
    BY DEF Width
  <2>3. WriteGpr(WriteGpr(regs, "rax", Cur.w, l), "rdx", Cur.w, h) \in File
    BY ReadyFacts, WriteGprType
  <2> QED BY <2>1, <2>2, <2>3, ReadyFacts, WriteGprType
<1> HIDE DEF v, limit, low, high, into, fault
<1>6. ASSUME NEW l \in Nat, NEW h \in Nat, Finish(into(l, h)) PROVE Written
  BY <1>5, <1>6, ReadyFacts, FinishType
<1>7. ASSUME ~v.ok PROVE Written
  BY <1>2, <1>7, ReadyFacts, AbandonType
<1>8. ASSUME v.ok /\ Cur.op = "mul" PROVE Written
  <2> DEFINE p == low * v.value
  <2>1. p \in Nat
    BY <1>3, <1>4, <1>8
  <2>2. Finish(into(p % limit, p \div limit))
    BY <1>2, <1>8
  <2> HIDE DEF p
  <2>3. p \div limit \in Nat /\ p % limit \in Nat
    BY <1>3, <2>1, DivModNat
  <2> QED BY <1>6, <2>2, <2>3
<1>9. ASSUME v.ok /\ Cur.op = "div" /\ high >= v.value PROVE Written
  BY <1>2, <1>9, ReadyFacts, AbandonType
<1>10. ASSUME v.ok /\ Cur.op = "div" /\ ~(high >= v.value) PROVE Written
  <2>1. v.value \in Nat \ {0} /\ pair \in Nat
    BY <1>3, <1>4, <1>10
  <2>2. Finish(into(pair \div v.value, pair % v.value))
    BY <1>2, <1>10
  <2> HIDE DEF pair
  <2>3. pair \div v.value \in Nat /\ pair % v.value \in Nat
    BY <2>1, DivModNat
  <2> QED BY <1>6, <2>2, <2>3
<1>11. Written
  BY <1>1, <1>7, <1>8, <1>9, <1>10
<1> QED BY <1>1, <1>11, ReadyFacts DEF Outcome

LEMMA WriteBothType ==
  ASSUME Ready, NEW v \in Nat, NEW u \in Nat, WriteBoth(v, u)
  PROVE  Written
<1>1. CASE Cur.a.kind = "mem"
  BY <1>1, ReadyFacts, AddressType, WriteRegType, StoreType DEF WriteBoth
<1>2. CASE Cur.a.kind # "mem"
  BY <1>2, ReadyFacts, WriteRegType, FinishType DEF WriteBoth
<1> QED BY <1>1, <1>2

LEMMA XchgType == Ready /\ Xchg => Outcome
BY BothRange, ReadyFacts, WriteBothType, AbandonType DEF Xchg, Combines, Outcome

LEMMA XaddType == Ready /\ Xadd => Outcome
<1> SUFFICES ASSUME Ready, Xadd PROVE Outcome
  OBVIOUS
<1> DEFINE v   == ReadBoth
           sum == Low(Add(v.a, v.b), Cur.w)
<1>1. rip' = After /\ UNCHANGED <<df, left>>
  BY DEF Xadd, Combines
<1>2. IF v.ok THEN WriteBoth(sum, v.a) /\ zf' = (sum = 0)
      ELSE Abandon(regs, v.status) /\ UNCHANGED zf
  BY DEF Xadd
<1>3. v.ok => sum \in Nat /\ v.a \in Nat
  BY BothRange, AddWord, InWord, ReadyFacts, LowRange
<1> HIDE DEF v, sum
<1>4. Written /\ zf' \in BOOLEAN
  BY <1>2, <1>3, ReadyFacts, WriteBothType, AbandonType
<1> QED BY <1>1, <1>4, ReadyFacts DEF Outcome

LEMMA CmpxchgType == Ready /\ Cmpxchg => Outcome
<1> SUFFICES ASSUME Ready, Cmpxchg PROVE Outcome
  OBVIOUS
<1> DEFINE v     == ReadBoth
           equal == ReadGpr("rax", Cur.w) = v.a
           loses == WriteGpr(regs, "rax", Cur.w, v.a)
<1>1. rip' = After /\ UNCHANGED <<df, left>>
  BY DEF Cmpxchg, Combines
<1>2. IF ~v.ok THEN Abandon(regs, v.status) /\ UNCHANGED zf
      ELSE /\ zf' = equal
           /\ IF equal THEN WriteOperand(Cur.a, v.b, regs) ELSE Finish(loses)
  BY DEF Cmpxchg
<1>3. v.ok => v.b \in Nat /\ loses \in File
  BY BothRange, ReadyFacts, WriteGprType
<1> HIDE DEF v, loses
<1>4. Written /\ zf' \in BOOLEAN
  BY <1>2, <1>3, ReadyFacts, WriteType, FinishType, AbandonType
<1> QED BY <1>1, <1>4, ReadyFacts DEF Outcome

LEMMA CmovType == Ready /\ Cmov => Outcome
BY SourceRange, ReadyFacts, WriteType, FinishType, AbandonType DEF Cmov, Plain, Outcome

\* Setting, clearing or inverting a bit takes nothing but that bit away.
LEMMA WithBitType ==
  ASSUME NEW v \in Nat, NEW i \in Nat, Cur.op \in {"bt", "bts", "btr", "btc"}
  PROVE  WithBit(v, i) \in Nat
<1> DEFINE p == 2 ^ i
           q == v \div p
           b == q % 2
           c == CASE Cur.op = "bt"  -> b
                  [] Cur.op = "bts" -> 1
                  [] Cur.op = "btr" -> 0
                  [] Cur.op = "btc" -> 1 - b
<1>1. p \in Nat \ {0}
  BY PowerPositive
<1>2. q \in Nat /\ v % p \in Nat /\ v = q * p + (v % p)
  <2> HIDE DEF p
  <2> QED BY <1>1, Division, DivModNat
<1>3. WithBit(v, i) = v - b * p + c * p
  BY DEF WithBit, Bit
<1> HIDE DEF p, q
<1>4. b \in {0, 1} /\ b <= q
  BY <1>2
<1>5. c \in {0, 1}
  BY <1>4
<1> HIDE DEF b, c
<1>6. b * p <= q * p /\ b * p \in Nat /\ c * p \in Nat
  BY <1>1, <1>2, <1>4, <1>5
<1>7. v - b * p \in Nat
  BY <1>1, <1>2, <1>6
<1> QED BY <1>3, <1>6, <1>7

LEMMA BitTestType == Ready /\ BitTest => Outcome
<1> SUFFICES ASSUME Ready, BitTest PROVE Outcome
  OBVIOUS
<1> DEFINE index   == ReadOperand(Cur.b)
           inReg   == Cur.a.kind \in {"reg", "bank"}
           far     == SignExtended(index.value, Cur.w) \div ByteBits
           address == Add(EffectiveAddress(Cur.a, regs), far)
           v       == IF inReg THEN ReadOperand(Cur.a) ELSE Load(address, 1, rip)
           width   == IF inReg THEN ByteBits * Cur.w ELSE ByteBits
           bit     == index.value % width
<1>1. rip' = After /\ UNCHANGED <<zf, df, left>> /\ Cur.op \in {"bt", "bts", "btr", "btc"}
  BY DEF BitTest, Plain, Executes
<1>2. (CASE ~index.ok -> Abandon(regs, index.status)
         [] index.ok /\ ~v.ok -> Abandon(regs, v.status)
         [] index.ok /\ v.ok /\ Cur.op = "bt" -> Finish(regs)
         [] index.ok /\ v.ok /\ Cur.op # "bt" /\ inReg ->
                WriteOperand(Cur.a, WithBit(v.value, bit), regs)
         [] OTHER -> Store(address, 1, WithBit(v.value, bit), regs, regs, rip))
  BY DEF BitTest
<1>3. ASSUME index.ok
      PROVE  /\ address \in Word /\ bit \in Nat
             /\ v.ok => WithBit(v.value, bit) \in Nat
  <2> DEFINE x == index.value
  <2>1. x \in Nat
    BY <1>3, ReadyFacts, OperandRange
  <2>2. width \in Nat \ {0}
    BY WordAssumption, ReadyFacts DEF Width
  <2> HIDE DEF index, width
  <2>3. bit \in Nat
    BY <2>1, <2>2, DivModNat
  <2>4. SignExtended(x, Cur.w) \in Nat
    <3>1. Span(Cur.w) \in Nat /\ Span(Cur.w) <= AddrSpace
      BY ReadyFacts, WordSpan
    <3> HIDE DEF x
    <3>2. Low(x, Cur.w) \in Nat
      BY <2>1, LowRange, ReadyFacts
    <3> QED BY <3>1, <3>2, WordIsTwo DEF SignExtended
  <2>5. far \in Nat
    BY <2>4, WordAssumption, DivModNat
  <2> HIDE DEF far, bit
  <2>6. address \in Word
    BY <2>5, ReadyFacts, AddressType, AddWord, InWord
  <2> HIDE DEF address
  <2>7. v.ok => v.value \in Nat
    <3>1. ReadOperand(Cur.a).ok => ReadOperand(Cur.a).value \in Nat
      BY ReadyFacts, OperandRange
    <3>2. Load(address, 1, rip).ok => Load(address, 1, rip).value \in Nat
      BY <2>6, ReadyFacts, LoadRange DEF Width
    <3> QED BY <3>1, <3>2
  <2> QED BY <1>1, <2>3, <2>6, <2>7, WithBitType
<1> HIDE DEF index, inReg, address, v, bit
<1>4. Written
  <2>1. CASE ~index.ok \/ (index.ok /\ ~v.ok)
    BY <1>2, <2>1, ReadyFacts, AbandonType
  <2>2. CASE index.ok /\ v.ok /\ Cur.op = "bt"
    BY <1>2, <2>2, ReadyFacts, FinishType
  <2>3. CASE index.ok /\ v.ok /\ Cur.op # "bt" /\ inReg
    BY <1>2, <1>3, <2>3, ReadyFacts, WriteType
  <2>4. CASE index.ok /\ v.ok /\ Cur.op # "bt" /\ ~inReg
    <3>1. Store(address, 1, WithBit(v.value, bit), regs, regs, rip)
      BY <1>2, <2>4
    <3>2. 1 \in Width
      BY DEF Width
    <3> QED BY <1>3, <2>4, <3>1, <3>2, ReadyFacts, StoreType
  <2> QED BY <2>1, <2>2, <2>3, <2>4
<1> QED BY <1>1, <1>4, ReadyFacts DEF Outcome

LEMMA WithGpr == ASSUME NEW file \in File, NEW r, NEW v \in Word
                 PROVE  [file EXCEPT ![r] = v] \in File
BY DEF File

LEMMA WidthWord == \A w \in Width : w \in Word /\ w \in Nat \ {0}
<1>1. AddrSpace = 2 ^ (8 * ByteBits) /\ 8 * ByteBits \in Nat /\ 8 * ByteBits >= 8
  BY WordAssumption
<1>2. \A n \in Nat : 2 ^ n > n
  BY PowerExceeds
<1>3. AddrSpace > 8
  BY <1>1, <1>2, WordIsTwo
<1> QED BY <1>3, WordIsTwo, InWord DEF Width

LEMMA PushType ==
  ASSUME Ready, NEW w \in Width, NEW v \in Nat, Push(w, v)
  PROVE  Written
<1> DEFINE sp == Sub(regs["rsp"], w)
<1>1. w \in Word
  BY WidthWord
<1>2. regs["rsp"] \in Nat
  BY ReadyFacts DEF Reg
<1>3. sp \in Word
  BY <1>1, <1>2, SubWord
<1>4. Store(sp, w, v, [regs EXCEPT !["rsp"] = sp], regs, rip)
  BY DEF Push
<1> HIDE DEF sp
<1>5. [regs EXCEPT !["rsp"] = sp] \in File
  BY <1>3, ReadyFacts, WithGpr
<1> QED BY <1>3, <1>4, <1>5, ReadyFacts, StoreType

LEMMA PushInsnType == Ready /\ PushInsn => Outcome
BY ReadyFacts, OperandRange, PushType, AbandonType DEF PushInsn, Plain, Outcome

LEMMA PopType == Ready /\ Pop => Outcome
<1> SUFFICES ASSUME Ready, Pop PROVE Outcome
  OBVIOUS
<1> DEFINE v    == Load(regs["rsp"], Cur.w, rip)
           file == [regs EXCEPT !["rsp"] = Add(@, Cur.w)]
<1>1. IF v.ok THEN WriteOperand(Cur.a, v.value, file) ELSE Abandon(regs, v.status)
  BY DEF Pop
<1>2. regs["rsp"] \in Nat /\ regs["rsp"] \in Word
  BY ReadyFacts DEF Reg
<1>3. v.ok => v.value \in Nat
  BY <1>2, ReadyFacts, LoadRange
<1>4. Add(regs["rsp"], Cur.w) \in Word
  BY <1>2, ReadyFacts, WidthWord, AddWord
<1>5. file \in File
  BY <1>4, ReadyFacts, WithGpr
<1> HIDE DEF v, file
<1>6. Written
  BY <1>1, <1>3, <1>5, ReadyFacts, WriteType, AbandonType
<1> QED BY <1>6, ReadyFacts DEF Pop, Plain, Outcome

LEMMA TargetType == Ready => \A v \in Word : Target(v) \in Word
BY ReadyFacts, AddWord, InWord DEF Target

LEMMA JmpType == Ready /\ Jmp => Outcome
BY ReadyFacts, OperandRange, TargetType, FinishType, AbandonType DEF Jmp, Plain, Outcome

LEMMA CallType == Ready /\ Call => Outcome
<1> SUFFICES ASSUME Ready, Call PROVE Outcome
  OBVIOUS
<1> DEFINE v == ReadOperand(Cur.a)
<1>1. UNCHANGED <<zf, df, left>>
  BY DEF Call, Plain
<1>2. CASE v.ok
  <2>1. v.value \in Word /\ After \in Nat
    BY <1>2, ReadyFacts, OperandRange, InWord
  <2>2. Push(8, After) /\ rip' \in {Target(v.value), After}
    BY <1>2 DEF Call
  <2>3. 8 \in Width
    BY DEF Width
  <2> HIDE DEF v
  <2>4. Written
    BY <2>1, <2>2, <2>3, PushType
  <2> QED BY <1>1, <2>1, <2>2, <2>4, TargetType, ReadyFacts DEF Outcome
<1>3. CASE ~v.ok
  BY <1>1, <1>3, ReadyFacts, AbandonType DEF Call, Outcome
<1> QED BY <1>2, <1>3

LEMMA BranchType == Ready /\ Branch => Outcome
<1> SUFFICES ASSUME Ready, Branch PROVE Outcome
  OBVIOUS
<1> DEFINE rcx == IF Cur.op \in {"loop", "loope", "loopne"} THEN Sub(regs["rcx"], 1)
                  ELSE regs["rcx"]
<1>1. UNCHANGED <<zf, df, left>> /\ rip' \in {Add(After, Cur.a.disp), After}
      /\ Finish([regs EXCEPT !["rcx"] = rcx])
  BY DEF Branch, Plain
<1>2. 1 \in Word
  BY WordIsTwo, InWord
<1>3. rcx \in Word
  BY <1>2, ReadyFacts, SubWord DEF Reg
<1> HIDE DEF rcx
<1>4. Written
  BY <1>1, <1>3, ReadyFacts, WithGpr, FinishType
<1>5. Add(After, Cur.a.disp) \in Word
  BY ReadyFacts, AddWord, InWord DEF IsOperand
<1> QED BY <1>1, <1>4, <1>5, ReadyFacts DEF Outcome

LEMMA RetType == Ready /\ Ret => Outcome
<1> SUFFICES ASSUME Ready, Ret PROVE Outcome
  OBVIOUS
<1> DEFINE v    == Load(regs["rsp"], 8, rip)
           arg  == IF Cur.a.kind = "imm" THEN Cur.a.disp ELSE 0
           file == [regs EXCEPT !["rsp"] = Add(@, 8 + arg)]
<1>1. /\ UNCHANGED <<zf, df, left>>
      /\ IF v.ok THEN rip' = v.value /\ Finish(file)
         ELSE Abandon(regs, v.status) /\ rip' = After
  BY DEF Ret, Plain
<1>2. regs["rsp"] \in Nat /\ regs["rsp"] \in Word /\ 8 \in Width
  BY ReadyFacts DEF Reg, Width
<1>3. v.ok => v.value \in Word
  BY <1>2, ReadyFacts, LoadRange
<1>4. arg \in Nat
  BY ReadyFacts, InWord DEF IsOperand
<1>5. Add(regs["rsp"], 8 + arg) \in Word
  <2> HIDE DEF arg
  <2> QED BY <1>2, <1>4, AddWord
<1>6. file \in File
  BY <1>5, ReadyFacts, WithGpr
<1> HIDE DEF v, file
<1>7. Written /\ rip' \in Word
  BY <1>1, <1>3, <1>6, ReadyFacts, FinishType, AbandonType
<1> QED BY <1>1, <1>7, ReadyFacts DEF Outcome

LEMMA LeaveType == Ready /\ Leave => Outcome
<1> SUFFICES ASSUME Ready, Leave PROVE Outcome
  OBVIOUS
<1> DEFINE v    == Load(regs["rbp"], 8, rip)
           file == [regs EXCEPT !["rsp"] = regs["rbp"]]
           popped == [file EXCEPT !["rsp"] = Add(@, 8)]
           done == [popped EXCEPT !["rbp"] = v.value]
<1>1. /\ UNCHANGED <<zf, df, left>> /\ rip' = After
      /\ IF v.ok THEN Finish(done) ELSE Abandon(file, v.status)
  BY DEF Leave, Plain
<1>2. regs["rbp"] \in Word /\ 8 \in Width
  BY ReadyFacts DEF Reg, Width
<1>3. v.ok => v.value \in Word
  BY <1>2, ReadyFacts, LoadRange
<1>4. file \in File
  BY <1>2, ReadyFacts, WithGpr
<1> HIDE DEF v, file
<1>5. Add(file["rsp"], 8) \in Word
  BY <1>4, AddWord, InWord DEF File, Reg
<1>6. popped \in File
  BY <1>4, <1>5, WithGpr
<1> HIDE DEF popped
<1>7. v.ok => done \in File
  BY <1>3, <1>6, WithGpr
<1> HIDE DEF done
<1>8. Written
  BY <1>1, <1>4, <1>7, ReadyFacts, FinishType, AbandonType
<1> QED BY <1>1, <1>8, ReadyFacts DEF Outcome

LEMMA NopType == Ready /\ (Nop \/ Direction) => Outcome
BY ReadyFacts, FinishType DEF Nop, Direction, Plain, Outcome

LEMMA HltType == Ready /\ (Hlt \/ Outside) => Outcome
<1>1. Ready /\ Hlt => Outcome
  BY ReadyFacts DEF Hlt, Plain, Outcome, Written, Bus!MemoryType
<1>2. Ready /\ Outside => Outcome
  BY ReadyFacts, AbandonType DEF Outside, Plain, Outcome
<1> QED BY <1>1, <1>2

LEMMA SyscallType ==
  Ready /\ (SyscallWrite \/ SyscallExit \/ SyscallOther) => Outcome
<1>1. ASSUME Ready, SyscallWrite PROVE Outcome
  <2>1. rip \in Word /\ UNCHANGED <<rip, zf, df, left>>
    BY <1>1 DEF SyscallWrite, Ready, Values
  <2> DEFINE file == [regs EXCEPT !["rax"] = regs["rdx"]]
  <2>2. \/ Finish(file)
        \/ \E status : Abandon(regs, status)
    BY <1>1 DEF SyscallWrite
  <2>3. file \in File
    BY <1>1, ReadyFacts, WithGpr DEF Reg
  <2> HIDE DEF file
  <2>4. Written
    BY <1>1, <2>2, <2>3, ReadyFacts, FinishType, AbandonType
  <2> QED BY <1>1, <2>1, <2>4, ReadyFacts DEF Outcome
<1>2. ASSUME Ready, SyscallExit PROVE Outcome
  BY <1>2, ReadyFacts
     DEF SyscallExit, Plain, Outcome, Written, Bus!MemoryType, Ready, Values
<1>3. ASSUME Ready, SyscallOther PROVE Outcome
  BY <1>3, ReadyFacts, AbandonType DEF SyscallOther, Plain, Outcome, Ready, Values
<1> QED BY <1>1, <1>2, <1>3

\* An instruction that retires once at most.
Ordinary ==
    \/ Mov \/ Lea \/ SetCc \/ Cmov
    \/ Alu \/ Unary \/ Shift \/ ScanBits \/ Divide
    \/ Xchg \/ Xadd \/ Cmpxchg \/ BitTest
    \/ PushInsn \/ Pop \/ Jmp \/ Call \/ Branch \/ Ret \/ Leave
    \/ Nop \/ Direction \/ Hlt \/ Outside
    \/ SyscallWrite \/ SyscallExit \/ SyscallOther

LEMMA OrdinaryType == Ready /\ Ordinary => Outcome
<1>1. ScanBits => Cur.op = "bsf"
  BY DEF ScanBits, Combines, Executes
<1> QED BY <1>1, MovType, LeaType, SetCcType, CmovType, AluType, UnaryType, ShiftType,
   ScanType, DivideType, XchgType, XaddType, CmpxchgType, BitTestType, PushInsnType,
   PopType, JmpType, CallType, BranchType, RetType, LeaveType, NopType, HltType,
   SyscallType DEF Ordinary

-----------------------------------------------------------------------------
(* The string instructions, iteration by iteration.                        *)

Typed ==
    /\ Values
    /\ code \in Programs
    /\ insn.op \in Families => IsInsn(insn)

\* The family's pointers move and rcx counts; lods also loads rax.
Advanced ==
    \E file \in File :
        /\ \A r \in Reg : file[r] = regs[r] \/ (r = "rax" /\ insn.op = "lods")
        /\ regs' = Advance(file, PointersOf[insn.op])

\* One iteration: it faults, which changes no register and ends the loop, or
\* it is done in full and retires.
StringStep ==
    /\ ctl = "string" /\ left > 0 /\ insn.op \in Families
    /\ UNCHANGED <<rip, df, icount, insn_rip, sched, code, call, insn, snap, promise>>
    /\ zf' \in BOOLEAN /\ Bus!MemoryType'
    /\ \/ ctl' = back /\ regs' = regs /\ left' = 0
       \/ ctl' = "retire" /\ left' \in {left - 1, 0} /\ Advanced

LEMMA InsnWidth ==
  ASSUME Typed, insn.op \in Families
  PROVE  insn.w \in Width /\ regs \in File /\ Bus!MemoryType /\ zf \in BOOLEAN
         /\ \A r \in Reg : regs[r] \in Word
BY DEF Typed, Values, IsInsn, Width, File

LEMMA ProceedLeft ==
  ASSUME Standing, NEW stops, Proceed(stops)
  PROVE  /\ ctl' = back => left' = 0
         /\ left' \in {left - 1, 0}
BY DEF Proceed, Standing

LEMMA MovsStep == Typed /\ Standing /\ Movs => StringStep
<1> SUFFICES ASSUME Typed, Standing, Movs PROVE StringStep
  OBVIOUS
<1> DEFINE v    == Load(regs["rsi"], insn.w, insn_rip)
           done == Advance(regs, {"rsi", "rdi"})
<1>1. /\ ctl = "string" /\ left > 0 /\ insn.op = "movs" /\ insn.op \in Families
      /\ Proceed(FALSE) /\ zf' = zf
      /\ IF v.ok THEN Store(regs["rdi"], insn.w, v.value, done, regs, insn_rip)
         ELSE Abandon(regs, v.status)
  BY DEF Movs, Iterates, Families
<1>2. v.ok => v.value \in Nat
  BY <1>1, InsnWidth, LoadRange DEF Reg
<1>3. Bus!MemoryType'
  <2>1. CASE v.ok
    <3>1. CASE Mem!Errors(regs["rdi"], insn.w, TRUE) = {}
      <4>1. bytes' = Mem!Stored(regs["rdi"], insn.w, v.value)
        BY <1>1, <2>1, <3>1 DEF Store
      <4> QED BY <1>1, <1>2, <2>1, <4>1, InsnWidth, MemoryStays DEF Reg
    <3>2. CASE Mem!Errors(regs["rdi"], insn.w, TRUE) # {}
      BY <1>1, <2>1, <3>2, InsnWidth DEF Store, Abandon, Bus!MemoryType
    <3> QED BY <3>1, <3>2
  <2>2. CASE ~v.ok
    BY <1>1, <2>2, InsnWidth DEF Abandon, Bus!MemoryType
  <2> QED BY <2>1, <2>2
<1>4. PointersOf[insn.op] = {"rsi", "rdi"}
  BY <1>1 DEF PointersOf
<1>5. (ctl' = back /\ regs' = regs) \/ (ctl' = "retire" /\ regs' = done)
  BY <1>1 DEF Store, Abandon
<1>6. regs' = done => Advanced
  BY <1>1, <1>4, InsnWidth DEF Advanced
<1> HIDE DEF v, done
<1> QED BY <1>1, <1>3, <1>5, <1>6, ProceedLeft, InsnWidth DEF StringStep, Proceed

LEMMA StosStep == Typed /\ Standing /\ Stos => StringStep
<1> SUFFICES ASSUME Typed, Standing, Stos PROVE StringStep
  OBVIOUS
<1> DEFINE v    == ReadGpr("rax", insn.w)
           done == Advance(regs, {"rdi"})
<1>1. /\ ctl = "string" /\ left > 0 /\ insn.op = "stos" /\ insn.op \in Families
      /\ Proceed(FALSE) /\ zf' = zf
      /\ Store(regs["rdi"], insn.w, v, done, regs, insn_rip)
  BY DEF Stos, Iterates, Families
<1>2. v \in Nat
  BY <1>1, InsnWidth, LowRange, InWord DEF Reg, ReadGpr
<1>3. Bus!MemoryType'
  <2>1. CASE Mem!Errors(regs["rdi"], insn.w, TRUE) = {}
    <3>1. bytes' = Mem!Stored(regs["rdi"], insn.w, v)
      BY <1>1, <2>1 DEF Store
    <3> QED BY <1>1, <1>2, <3>1, InsnWidth, MemoryStays DEF Reg
  <2>2. CASE Mem!Errors(regs["rdi"], insn.w, TRUE) # {}
    BY <1>1, <2>2, InsnWidth DEF Store, Abandon, Bus!MemoryType
  <2> QED BY <2>1, <2>2
<1>4. PointersOf[insn.op] = {"rdi"}
  BY <1>1 DEF PointersOf
<1>5. (ctl' = back /\ regs' = regs) \/ (ctl' = "retire" /\ regs' = done)
  BY <1>1 DEF Store, Abandon
<1>6. regs' = done => Advanced
  BY <1>1, <1>4, InsnWidth DEF Advanced
<1> HIDE DEF v, done
<1> QED BY <1>1, <1>3, <1>5, <1>6, ProceedLeft, InsnWidth DEF StringStep, Proceed

LEMMA LodsStep == Typed /\ Standing /\ Lods => StringStep
<1> SUFFICES ASSUME Typed, Standing, Lods PROVE StringStep
  OBVIOUS
<1> DEFINE v    == Load(regs["rsi"], insn.w, insn_rip)
           file == WriteGpr(regs, "rax", insn.w, v.value)
           done == Advance(file, {"rsi"})
<1>1. /\ ctl = "string" /\ left > 0 /\ insn.op = "lods" /\ insn.op \in Families
      /\ Proceed(FALSE) /\ zf' = zf
      /\ IF v.ok THEN Finish(done) ELSE Abandon(regs, v.status)
  BY DEF Lods, Iterates, Families
<1>2. v.ok => file \in File
  BY <1>1, InsnWidth, LoadRange, WriteGprType DEF Reg
<1>3. Bus!MemoryType'
  BY <1>1, InsnWidth DEF Finish, Abandon, Bus!MemoryType
<1>4. PointersOf[insn.op] = {"rsi"}
  BY <1>1 DEF PointersOf
<1>5. (ctl' = back /\ regs' = regs) \/ (v.ok /\ ctl' = "retire" /\ regs' = done)
  BY <1>1 DEF Finish, Abandon
<1>6. \A r \in Reg : file[r] = regs[r] \/ r = "rax"
  BY <1>1, InsnWidth DEF WriteGpr, File
<1> HIDE DEF file, v
<1>7. v.ok /\ regs' = done => Advanced
  BY <1>1, <1>2, <1>4, <1>6 DEF Advanced
<1> HIDE DEF done
<1> QED BY <1>1, <1>3, <1>5, <1>7, ProceedLeft, InsnWidth DEF StringStep, Proceed

LEMMA CompareStep ==
  ASSUME Typed, Standing, NEW family \in Families, family # "lods",
         NEW pointers, pointers = PointersOf[family], NEW x, NEW y,
         Compare(family, pointers, x, y)
  PROVE  StringStep
<1> DEFINE done  == Advance(regs, pointers)
           stops == (insn.rep = "rep" /\ ~zf') \/ (insn.rep = "repne" /\ zf')
<1>1. /\ ctl = "string" /\ left > 0 /\ insn.op = family /\ insn.op \in Families
      /\ Proceed(stops) /\ zf' \in BOOLEAN
      /\ \/ ctl' = back /\ regs' = regs
         \/ ctl' = "retire" /\ regs' = done
      /\ bytes' = bytes
  BY InsnWidth DEF Compare, Iterates, Finish, Abandon
<1>2. Bus!MemoryType'
  BY <1>1, InsnWidth DEF Bus!MemoryType
<1>3. regs' = done => Advanced
  BY <1>1, InsnWidth DEF Advanced
<1> HIDE DEF done, stops
<1> QED BY <1>1, <1>2, <1>3, ProceedLeft DEF StringStep, Proceed

LEMMA ComparesStep == Typed /\ Standing /\ (Scas \/ Cmps) => StringStep
<1>1. PointersOf["scas"] = {"rdi"} /\ PointersOf["cmps"] = {"rsi", "rdi"}
  BY DEF PointersOf
<1>2. "scas" \in Families /\ "cmps" \in Families
  BY DEF Families
<1> QED BY <1>1, <1>2, CompareStep DEF Scas, Cmps

-----------------------------------------------------------------------------
(* The types hold in every step.                                           *)

OrdinaryBegins ==
    /\ ctl = "step" /\ rip \in DOMAIN code /\ Cur.op \notin Families
    /\ insn' = Cur /\ insn_rip' = rip
    /\ UNCHANGED <<icount, sched, code, call, promise>>

LEMMA OrdinaryBegun == Ordinary => OrdinaryBegins
<1>1. Mov \/ Lea \/ SetCc \/ Cmov => OrdinaryBegins
  BY DEF Mov, Lea, SetCc, Cmov, Plain, Executes, OrdinaryBegins, Families
<1>2. Alu \/ Unary \/ Shift \/ ScanBits => OrdinaryBegins
  BY DEF Alu, Unary, Shift, ScanBits, Combines, Executes, OrdinaryBegins, Families
<1>3. Divide => OrdinaryBegins
  <2>1. Divide => Plain({"mul", "div"})
    BY DEF Divide
  <2> QED BY <2>1 DEF Plain, Executes, OrdinaryBegins, Families
<1>4. Xchg \/ Xadd \/ Cmpxchg => OrdinaryBegins
  BY DEF Xchg, Xadd, Cmpxchg, Combines, Executes, OrdinaryBegins, Families
<1>5. BitTest => OrdinaryBegins
  <2>1. BitTest => Plain({"bt", "bts", "btr", "btc"})
    BY DEF BitTest
  <2> QED BY <2>1 DEF Plain, Executes, OrdinaryBegins, Families
<1>6. PushInsn \/ Pop \/ Jmp \/ Call \/ Branch \/ Ret \/ Leave => OrdinaryBegins
  BY DEF PushInsn, Pop, Jmp, Call, Branch, Ret, Leave, Plain, Executes, OrdinaryBegins,
         Families
<1>7. Nop \/ Direction \/ Hlt \/ Outside => OrdinaryBegins
  BY DEF Nop, Direction, Hlt, Outside, Plain, Executes, OrdinaryBegins, Families
<1>8. SyscallWrite \/ SyscallExit \/ SyscallOther => OrdinaryBegins
  BY DEF SyscallWrite, SyscallExit, SyscallOther, Plain, Executes, OrdinaryBegins, Families
<1> QED BY <1>1, <1>2, <1>3, <1>4, <1>5, <1>6, <1>7, <1>8 DEF Ordinary

LEMMA TypedSteps ==
  ASSUME Typed, Standing, [Next]_vars
  PROVE  \/ OrdinaryBegins /\ Outcome
         \/ StringBegin \/ StringEnd \/ StringStep
         \/ Unexecuted
         \/ Tick \/ Fire \/ CallbackReturn \/ Retired
         \/ RunStep \/ RunReturn
         \/ Host \/ Callback
         \/ UNCHANGED vars
<1>1. Ordinary => OrdinaryBegins /\ Outcome
  BY OrdinaryBegun, OrdinaryType, CurInsn DEF OrdinaryBegins, Typed, Ready
<1>2. Instruction => \/ Ordinary \/ StringBegin \/ StringEnd
                     \/ Movs \/ Stos \/ Lods \/ Scas \/ Cmps
  BY DEF Instruction, Ordinary
<1> QED BY <1>1, <1>2, MovsStep, StosStep, LodsStep, ComparesStep
        DEF Next, Machine, Unexecuted

\* What the types speak of is as it was.
LEMMA TypedFrame ==
  ASSUME Typed, UNCHANGED <<regs, rip, insn_rip, left, zf, df, bytes, code, insn>>
  PROVE  Typed'
BY DEF Typed, Values, IsInsn, IsOperand, Bus!MemoryType

LEMMA AdvanceType ==
  ASSUME NEW file \in File, NEW pointers, insn.w \in Width
  PROVE  Advance(file, pointers) \in File
<1>1. Stride \in Nat
  BY WidthWord, WordIsTwo, InWord DEF Stride
<1>2. 1 \in Word
  BY WordIsTwo, InWord
<1>3. \A r \in Reg : /\ file[r] \in Word /\ Add(file[r], Stride) \in Word
                     /\ Sub(file[r], 1) \in Word
  BY <1>1, <1>2, AddWord, SubWord, InWord DEF File
<1> QED BY <1>3 DEF Advance, File

LEMMA WriteTyped ==
  ASSUME Typed, NEW b \in HostWrites, BusWrite(b[1], b[2], b[3])
  PROVE  Typed'
<1>1. b[1] \in Word /\ b[2] \in Width /\ b[3] \in Nat
  BY HostAssumption DEF Width
<1>2. Bus!MemoryType'
  BY <1>1, MemoryStays DEF BusWrite, Typed, Values
<1> QED BY <1>2 DEF BusWrite, Typed, Values, IsInsn, IsOperand

LEMMA TypedInit == Init => Typed
<1> SUFFICES ASSUME Init PROVE Typed
  OBVIOUS
<1>1. 0 \in Word
  BY WordIsTwo, InWord
<1>2. 0 \in Bus!Byte
  BY SpanNat, SameSpan DEF Bus!Byte
<1>3. Bus!MemoryType
  BY <1>2 DEF Init, Bus!MemoryType
<1>4. regs \in File
  BY <1>1 DEF Init, File
<1>5. insn.op \notin Families
  BY DEF Init, NoInsn, Families
<1> QED BY <1>1, <1>3, <1>4, <1>5 DEF Init, Typed, Values

LEMMA TypedNext == Typed /\ Standing /\ [Next]_vars => Typed'
<1> SUFFICES ASSUME Typed, Standing, [Next]_vars PROVE Typed'
  OBVIOUS
<1>1. CASE OrdinaryBegins /\ Outcome
  BY <1>1 DEF OrdinaryBegins, Outcome, Written, Typed, Values
<1>2. CASE StringBegin
  <2>1. IsInsn(Cur)
    BY <1>2, CurInsn DEF StringBegin, Executes, Typed
  <2>2. After \in Word /\ 1 \in Word /\ regs["rcx"] \in Word
    BY <2>1, ReadyFacts, WordIsTwo, InWord DEF Ready, Typed, Reg
  <2>3. insn' = Cur => IsInsn(insn)'
    BY <2>1 DEF IsInsn, IsOperand
  <2>4. left' \in Word /\ rip' \in Word /\ insn_rip' \in Word
    BY <1>2, <2>2 DEF StringBegin, Executes, Typed, Values
  <2> QED BY <1>2, <2>3, <2>4 DEF StringBegin, Executes, Typed, Values, Bus!MemoryType
<1>3. CASE StringEnd
  BY <1>3, TypedFrame DEF StringEnd, cpu
<1>4. CASE StringStep
  <2>1. regs' \in File
    BY <1>4, AdvanceType, InsnWidth DEF StringStep, Advanced
  <2>2. left' \in Word
    BY <1>4, WordIsTwo, InWord DEF StringStep, Typed, Values
  <2> QED BY <1>4, <2>1, <2>2 DEF StringStep, Typed, Values, IsInsn, IsOperand
<1>5. CASE Unexecuted
  BY <1>5, TypedFrame DEF Unexecuted, Replay, FetchFault, DecodeError, NotExecuted, cpu
<1>6. CASE Tick \/ Fire \/ CallbackReturn \/ Retired
  BY <1>6, TypedFrame DEF Tick, Fire, CallbackReturn, Retired, cpu
<1>7. CASE RunStep \/ RunReturn
  BY <1>7, TypedFrame DEF RunStep, RunReturn, cpu
<1>8. ASSUME NEW entry \in Entry, NEW stack \in Stack, Reset(entry, stack) PROVE Typed'
  <2>1. entry \in Word /\ stack \in Word /\ 0 \in Word
    BY HostAssumption, WordIsTwo, InWord
  <2>2. regs' \in File
    BY <1>8, <2>1 DEF Reset, File
  <2>3. insn'.op \notin Families
    BY <1>8 DEF Reset, NoInsn, Families
  <2> QED BY <1>8, <2>1, <2>2, <2>3 DEF Reset, Typed, Values, Bus!MemoryType
<1>9. ASSUME NEW g \in HostGprs, SetGpr(g[1], g[2]) PROVE Typed'
  <2>1. g[2] \in Word
    BY HostAssumption
  <2>2. regs' \in File
    BY <1>9, <2>1, WithGpr DEF SetGpr, Typed, Values
  <2>3. insn'.op \notin Families
    BY <1>9 DEF SetGpr, NoInsn, Families
  <2> QED BY <1>9, <2>2, <2>3 DEF SetGpr, Typed, Values, Bus!MemoryType
<1>10. ASSUME NEW value \in HostRips, SetRip(value) PROVE Typed'
  BY <1>10, HostAssumption DEF SetRip, Typed, Values, Bus!MemoryType, IsInsn, IsOperand
<1>11. CASE Host
  BY <1>8, <1>9, <1>10, <1>11, WriteTyped, TypedFrame
     DEF Host, CallStep, CallRun, HostSchedule, HostWrite, cpu
<1>12. CASE Callback
  BY <1>12, WriteTyped, TypedFrame DEF Callback, CallbackSchedule, CallbackWrite, cpu
<1>13. CASE UNCHANGED vars
  BY <1>13, TypedFrame DEF vars, cpu
<1> QED BY <1>1, <1>2, <1>3, <1>4, <1>5, <1>6, <1>7, <1>11, <1>12, <1>13, TypedSteps

LEMMA TypedHolds == Spec => []Typed
<1>1. Course => Standing
  BY DEF Course
<1> QED BY <1>1, CourseHolds, TypedInit, TypedNext, PTL DEF Spec

\* Whatever the program, its registers, instruction pointers and memory stay
\* words and bytes, the counters numbers, and the scheduler is in a pass
\* exactly while the CPU dispatches.
THEOREM CpuTypeCorrect == Spec => []TypeOK
<1>1. Typed /\ Standing => TypeOK
  <2>1. Bus!Byte = Mem!Byte
    BY DEF Bus!Byte, Mem!Byte, Bus!Span, Mem!Span
  <2> QED BY <2>1 DEF Typed, Values, Standing, TypeOK, File, Bus!MemoryType
<1>2. Course => Standing
  BY DEF Course
<1> QED BY <1>1, <1>2, CourseHolds, TypedHolds, PTL

-----------------------------------------------------------------------------
(***************************************************************************)
(* A string instruction is its iterations.  StringProgress alone is not    *)
(* inductive: the loop counts in a local (remaining), and what it has in   *)
(* common with rcx, or how often it may still go round, is known only      *)
(* while the instruction runs.                                             *)
(***************************************************************************)
InString == ctl \in {"string", "retire", "dispatch"}

Counted ==
    insn.op \in Families =>
        /\ snap.regs \in File
        /\ Iterated \in Nat
        /\ StringProgress
        /\ InString => IF insn.rep = "none" THEN left + Iterated <= 1
                       ELSE left \in {0, regs["rcx"]}

\* A remainder may be taken early or late.
LEMMA ModAdd ==
  ASSUME NEW a \in Nat, NEW b \in Nat
  PROVE  ((a % AddrSpace) + b) % AddrSpace = (a + b) % AddrSpace
<1> DEFINE d == AddrSpace
           q == a \div d
           r == a % d
<1>1. d \in Nat \ {0}
  BY WordIsTwo
<1>2. q \in Nat /\ r \in Nat /\ a = q * d + r
  <2> HIDE DEF d
  <2> QED BY <1>1, Division, DivModNat
<1> HIDE DEF d, q, r
<1>3. a + b = (r + b) + q * d /\ r + b \in Nat
  BY <1>1, <1>2
<1>4. ((r + b) + q * d) % d = (r + b) % d
  BY <1>1, <1>2, <1>3, ModPlusMultiple
<1> QED BY <1>3, <1>4 DEF d, r

LEMMA MovedOn ==
  ASSUME NEW x \in Word, NEW y \in Word, NEW k \in Nat, NEW s \in Nat,
         Sub(x, y) = (k * s) % AddrSpace
  PROVE  Sub(Add(x, s), y) = ((k + 1) * s) % AddrSpace
<1> DEFINE a == x + s
           b == AddrSpace - y
           c == k * s
           e == x + b
<1>1. a \in Nat /\ b \in Nat /\ e \in Nat /\ c \in Nat /\ AddrSpace \in Nat
  BY WordIsTwo, InWord
<1>2. ((a % AddrSpace) + b) % AddrSpace = (a + b) % AddrSpace
  BY <1>1, ModAdd
<1>3. ((e % AddrSpace) + s) % AddrSpace = (e + s) % AddrSpace
  BY <1>1, ModAdd
<1>4. ((c % AddrSpace) + s) % AddrSpace = (c + s) % AddrSpace
  BY <1>1, ModAdd
<1>5. a + b = e + s
  BY <1>1, InWord
<1>6. Sub(x, y) = e % AddrSpace
  <2>1. x + AddrSpace - y = e
    BY <1>1, InWord
  <2> HIDE DEF e
  <2> QED BY <2>1 DEF Sub
<1>7. Sub(Add(x, s), y) = ((a % AddrSpace) + b) % AddrSpace
  <2> DEFINE m == a % AddrSpace
  <2>1. m \in Nat
    <3> HIDE DEF a
    <3> QED BY <1>1, WordIsTwo, DivModNat
  <2>2. Add(x, s) = m
    BY DEF Add
  <2> HIDE DEF m, a
  <2>3. m + AddrSpace - y = m + b
    BY <1>1, <2>1, InWord
  <2> HIDE DEF b
  <2> QED BY <2>2, <2>3 DEF Sub, m
<1>8. (k + 1) * s = c + s
  OBVIOUS
<1> HIDE DEF a, b, c, e
<1>9. (c % AddrSpace) = (e % AddrSpace)
  BY <1>6 DEF c
<1> QED BY <1>2, <1>3, <1>4, <1>5, <1>7, <1>8, <1>9

LEMMA CountedFrame ==
  ASSUME Counted, UNCHANGED <<regs, df, insn, snap, left>>, Iterated' = Iterated,
         InString' => InString
  PROVE  Counted'
BY DEF Counted, StringProgress, Moved, Stride, InString

LEMMA BeginCounted == Typed /\ Standing /\ StringBegin => Counted'
<1> SUFFICES ASSUME Typed, Standing, StringBegin PROVE Counted'
  OBVIOUS
<1>1. /\ regs' = regs /\ snap' = [regs |-> regs, icount |-> icount] /\ insn' = Cur
      /\ icount' = icount /\ ctl' = "string"
      /\ left' = IF Cur.rep = "none" THEN 1 ELSE regs["rcx"]
      /\ IsInsn(Cur)
  BY CurInsn DEF StringBegin, Executes, Typed
<1>2. Iterated' = 0 /\ snap'.regs = regs /\ regs \in File
  BY <1>1 DEF Iterated, Standing, Typed, Values
<1>3. \A r \in Reg : regs[r] \in Word
  BY <1>2 DEF File
<1>4. Stride' \in Nat
  <2>1. insn'.w \in Width
    BY <1>1 DEF IsInsn, Width
  <2> QED BY <2>1, WidthWord, WordIsTwo, InWord DEF Stride
<1>5. \A r \in Reg : Moved(r)'
  <2> SUFFICES ASSUME NEW r \in Reg PROVE Moved(r)'
    OBVIOUS
  <2>1. Sub(regs[r], regs[r]) = 0
    <3>1. regs[r] + AddrSpace - regs[r] = AddrSpace
      BY <1>3, WordIsTwo, InWord
    <3> QED BY <3>1, WordIsTwo DEF Sub
  <2>2. (0 * Stride') % AddrSpace = 0
    <3>1. \A s \in Nat : 0 * s = 0
      OBVIOUS
    <3>2. 0 * Stride' = 0
      BY <1>4, <3>1
    <3>3. 0 % AddrSpace = 0
      BY WordIsTwo
    <3> QED BY <3>2, <3>3
  <2> QED BY <1>1, <1>2, <2>1, <2>2 DEF Moved
<1>6. regs["rcx"] \in Nat
  BY <1>3, InWord DEF Reg
<1>7. StringProgress'
  <2>1. \A f \in Families : PointersOf[f] \subseteq Reg
    BY DEF PointersOf, Families, Reg
  <2>2. insn'.op \in Families
    BY <1>1 DEF StringBegin, Executes
  <2> QED BY <1>1, <1>2, <1>5, <1>6, <2>1, <2>2 DEF StringProgress
<1> QED BY <1>1, <1>2, <1>7 DEF Counted, InString

\* One more iteration.
LEMMA StepCounted == Typed /\ Standing /\ Counted /\ StringStep => Counted'
<1> SUFFICES ASSUME Typed, Standing, Counted, StringStep PROVE Counted'
  OBVIOUS
<1>1. /\ ctl = "string" /\ left > 0 /\ insn.op \in Families /\ InString
      /\ UNCHANGED <<df, icount, insn, snap>>
  BY DEF StringStep, InString
<1>2. /\ snap.regs \in File /\ Iterated \in Nat /\ StringProgress
      /\ IF insn.rep = "none" THEN left + Iterated <= 1 ELSE left \in {0, regs["rcx"]}
  BY <1>1 DEF Counted
<1>3. CASE ctl' = back /\ regs' = regs /\ left' = 0
  <2>1. Iterated' = Iterated /\ ~InString'
    BY <1>1, <1>3 DEF Iterated, Standing, InString
  <2> QED BY <1>1, <1>2, <1>3, <2>1 DEF Counted, StringProgress, Moved, Stride
<1>4. CASE ctl' = "retire" /\ left' \in {left - 1, 0} /\ Advanced
  <2> DEFINE pointers == PointersOf[insn.op]
             others   == Reg \ (pointers \cup (IF insn.op = "lods" THEN {"rax"} ELSE {})
                                        \cup {"rcx"})
  <2>1. PICK file \in File :
           /\ \A r \in Reg : file[r] = regs[r] \/ (r = "rax" /\ insn.op = "lods")
           /\ regs' = Advance(file, pointers)
    BY <1>4 DEF Advanced
  <2>2. pointers \subseteq Reg /\ "rax" \notin pointers /\ "rcx" \notin pointers
    BY <1>1 DEF PointersOf, Families, Reg
  <2> HIDE DEF pointers
  <2>3. Iterated' = Iterated + 1
    BY <1>1, <1>4 DEF Iterated, Standing
  <2>4. /\ insn.w \in Width /\ regs \in File /\ \A r \in Reg : regs[r] \in Word
        /\ \A r \in Reg : snap.regs[r] \in Word
    BY <1>1, <1>2, InsnWidth DEF File
  <2>5. Stride \in Nat /\ Stride' = Stride
    BY <1>1, <2>4, WidthWord, WordIsTwo, InWord DEF Stride
  <2>6. \A p \in pointers : regs'[p] = Add(regs[p], Stride)
    BY <2>1, <2>2 DEF Advance
  <2>7. \A p \in pointers : Moved(p)'
    <3> SUFFICES ASSUME NEW p \in pointers PROVE Moved(p)'
      OBVIOUS
    <3>1. Sub(regs[p], snap.regs[p]) = (Iterated * Stride) % AddrSpace
      BY <1>1, <1>2 DEF StringProgress, Moved, pointers
    <3>2. Sub(Add(regs[p], Stride), snap.regs[p]) = ((Iterated + 1) * Stride) % AddrSpace
      BY <1>2, <2>2, <2>4, <2>5, <3>1, MovedOn
    <3> QED BY <1>1, <2>3, <2>5, <2>6, <3>2 DEF Moved
  <2>8. /\ regs'["rcx"] = IF insn.rep = "none" THEN regs["rcx"] ELSE regs["rcx"] - 1
        /\ regs'["rcx"] \in Nat /\ regs["rcx"] \in Nat
    <3>1. file["rcx"] = regs["rcx"] /\ "rcx" \in Reg
      BY <2>1 DEF Reg
    <3>2. regs["rcx"] \in Word /\ regs["rcx"] \in Nat
      BY <2>4, InWord DEF Reg
    <3>3. insn.rep # "none" => regs["rcx"] > 0
      BY <1>1, <1>2
    <3>4. insn.rep # "none" => Sub(regs["rcx"], 1) = regs["rcx"] - 1
      <4> DEFINE x == regs["rcx"]
      <4>1. x \in Nat /\ x < AddrSpace
        BY <3>2, InWord
      <4> HIDE DEF x
      <4>2. x > 0 => (x + AddrSpace - 1) % AddrSpace = x - 1
        <5>1. SUFFICES ASSUME x > 0 PROVE (x + AddrSpace - 1) % AddrSpace = x - 1
          OBVIOUS
        <5>2. x + AddrSpace - 1 = 1 * AddrSpace + (x - 1) /\ x - 1 \in Nat
              /\ x - 1 < AddrSpace /\ AddrSpace \in Nat
          BY <4>1, <5>1, WordIsTwo
        <5> QED BY <5>2, DivisionUnique
      <4> QED BY <3>3, <4>2 DEF x, Sub
    <3>5. regs'["rcx"] = IF insn.rep = "none" THEN regs["rcx"] ELSE Sub(regs["rcx"], 1)
      BY <2>1, <2>2, <3>1 DEF Advance
    <3> QED BY <3>2, <3>3, <3>4, <3>5
  <2>9. regs["rcx"] = IF insn.rep = "none" THEN snap.regs["rcx"]
                      ELSE snap.regs["rcx"] - Iterated
    BY <1>1, <1>2 DEF StringProgress
  <2>10. regs'["rcx"] = IF insn.rep = "none" THEN snap.regs["rcx"]
                        ELSE snap.regs["rcx"] - (Iterated + 1)
    <3>1. snap.regs["rcx"] \in Nat
      BY <2>4, InWord DEF Reg
    <3> QED BY <1>2, <2>8, <2>9, <3>1
  <2>11. \A r \in others : regs'[r] = snap.regs[r]
    <3>1. \A r \in others : regs[r] = snap.regs[r]
      BY <1>1, <1>2 DEF StringProgress, pointers
    <3>2. \A r \in others : regs'[r] = regs[r]
      BY <2>1 DEF Advance
    <3> QED BY <3>1, <3>2
  <2>12. left \in Nat /\ left' \in Nat
    BY <1>1, <1>4, InWord DEF Typed, Values
  <2>13. insn.rep = "none" => left' + (Iterated + 1) <= 1 /\ Iterated + 1 <= 1
    <3> SUFFICES ASSUME insn.rep = "none"
                 PROVE  left' + (Iterated + 1) <= 1 /\ Iterated + 1 <= 1
      OBVIOUS
    <3>1. left + Iterated <= 1
      BY <1>2
    <3>2. left = 1 /\ Iterated = 0
      BY <1>1, <1>2, <2>12, <3>1
    <3>3. left' = 0
      BY <1>4, <3>2
    <3> QED BY <3>2, <3>3
  <2>14. insn.rep # "none" => left' \in {0, regs'["rcx"]}
    BY <1>1, <1>2, <1>4, <2>8
  <2>15. StringProgress'
    BY <1>1, <2>3, <2>7, <2>10, <2>11, <2>13 DEF StringProgress, pointers
  <2> QED BY <1>1, <1>2, <2>3, <2>13, <2>14, <2>15 DEF Counted
<1> QED BY <1>3, <1>4 DEF StringStep

LEMMA CountedNext == Typed /\ Standing /\ Elapsed /\ Counted /\ [Next]_vars => Counted'
<1> SUFFICES ASSUME Typed, Standing, Elapsed, Counted, [Next]_vars PROVE Counted'
  OBVIOUS
<1> USE DEF Iterated, InString
<1>1. CASE OrdinaryBegins /\ Outcome
  BY <1>1 DEF OrdinaryBegins, Counted
<1>2. CASE StringBegin
  BY <1>2, BeginCounted
<1>3. CASE StringEnd
  BY <1>3, CountedFrame DEF StringEnd, cpu, Standing
<1>4. CASE StringStep
  BY <1>4, StepCounted
<1>5. CASE Unexecuted
  BY <1>5, CountedFrame
     DEF Unexecuted, Replay, FetchFault, DecodeError, NotExecuted, cpu, Standing
<1>6. CASE Tick
  <2>1. Iterated' = Iterated
    BY <1>6 DEF Tick, Standing, Elapsed
  <2> QED BY <1>6, <2>1, CountedFrame DEF Tick
<1>7. CASE Fire \/ CallbackReturn \/ Retired
  BY <1>7, CountedFrame DEF Fire, CallbackReturn, Retired, cpu, Standing
<1>8. CASE RunStep \/ RunReturn
  BY <1>8, CountedFrame DEF RunStep, RunReturn, cpu
<1>9. ASSUME NEW entry, NEW stack, Reset(entry, stack) PROVE Counted'
  BY <1>9 DEF Reset, NoInsn, Families, Counted
<1>10. ASSUME NEW r, NEW value, SetGpr(r, value) PROVE Counted'
  BY <1>10 DEF SetGpr, NoInsn, Families, Counted
<1>11. ASSUME NEW address, NEW w, NEW v, BusWrite(address, w, v) PROVE Counted'
  BY <1>11, CountedFrame DEF BusWrite
<1>12. CASE Host
  BY <1>9, <1>10, <1>11, <1>12, CountedFrame
     DEF Host, CallStep, CallRun, HostSchedule, HostWrite, SetRip, cpu
<1>13. CASE Callback
  BY <1>11, <1>13, CountedFrame DEF Callback, CallbackSchedule, CallbackWrite, cpu
<1>14. CASE UNCHANGED vars
  BY <1>14, CountedFrame DEF vars, cpu
<1> QED BY <1>1, <1>2, <1>3, <1>4, <1>5, <1>6, <1>7, <1>8, <1>12, <1>13, <1>14, TypedSteps

\* Wherever a string instruction is looked at (from a callback between two
\* iterations, when it is done, after a fault in the middle), rcx has counted
\* and the pointers have moved once per iteration that retired.
THEOREM StringsProgress == Spec => []StringProgress
<1>1. Init => Counted
  BY DEF Init, NoInsn, Families, Counted
<1>2. Counted => StringProgress
  BY DEF Counted, StringProgress
<1>3. Course => Standing /\ Elapsed
  BY DEF Course
<1> QED BY <1>1, <1>2, <1>3, CountedNext, CourseHolds, TypedHolds, PTL DEF Spec
=============================================================================
