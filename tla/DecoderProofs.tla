---------------------------- MODULE DecoderProofs ----------------------------
(***************************************************************************)
(* Proofs about the decoder, for every sequence of bytes and every window. *)
(*                                                                         *)
(* Each stage of Decode starts at a position and passes a later one on, so *)
(* the two facts about it follow from those of the next stage:             *)
(*   Within    what it says of n bytes from position p on lies in p .. n;  *)
(*   Settles   with one byte more it says the same again, or, if it asked  *)
(*             for more, nothing that the new byte is not part of.         *)
(* They hold whatever the tables hold.                                     *)
(*                                                                         *)
(* What an accepted instruction looks like does depend on the tables:      *)
(*   Entry     what is asked of an entry, given the class of its opcode in *)
(*             the opcode map of the architecture; shown row by row;       *)
(*   Sound     what is then known of an instruction whose operands are     *)
(*             assembled, whichever group has rewritten its entry;         *)
(*   Exact     an answer of Decode is such an instruction, of the length   *)
(*             that the opcode map gives it.                               *)
(***************************************************************************)
EXTENDS Decoder, NatFacts, SequenceTheorems, TLAPS

Byte == 0 .. 255
Errors == {"kBadPrefix", "kBadModrm", "kUnsupportedOpcode"}

Within(r, p, n) ==
    \/ r.kind = "kTruncated" /\ r.offset \in p .. n
    \/ r.kind = "kDecoded" /\ \E used \in p .. n : r.length = used % LengthVals
    \/ r.kind \in Errors /\ r.offset \in 0 .. n - 1

Settles(r, after, n) ==
    IF r.kind = "kTruncated" THEN after.kind = "kTruncated" \/ Within(after, n + 1, n + 1)
    ELSE after = r

\* The byte that arrives is the last, and the others are where they were.
LEMMA Appended ==
  ASSUME NEW s \in Seq(Byte), NEW b \in Byte
  PROVE  /\ Append(s, b) \in Seq(Byte)
         /\ Len(Append(s, b)) = Len(s) + 1
         /\ \A i \in 1 .. Len(s) : Append(s, b)[i] = s[i]
         /\ Append(s, b)[Len(s) + 1] = b
OBVIOUS

LEMMA Sizes ==
  ASSUME NEW c, c.opsize \in Nat, NEW m, NEW base
  PROVE  ImmSize(c) \in Nat /\ DispSize(m, base) \in Nat
<1>0. DispSize(m, base) \in Nat
  BY DEF DispSize
<1> SUFFICES ImmSize(c) \in Nat
  BY <1>0
<1>1. CASE c.ent.imm = "kSz4"
  <2>1. CASE MovImmediate(c)
    BY <1>1, <2>1 DEF ImmSize
  <2>2. CASE ~MovImmediate(c)
    BY <1>1, <2>2 DEF ImmSize
  <2> QED BY <2>1, <2>2
<1>2. CASE c.ent.imm # "kSz4"
  BY <1>2 DEF ImmSize
<1> QED BY <1>1, <1>2

LEMMA Wider ==
  ASSUME NEW n \in Nat, NEW p \in Nat, NEW q \in p .. n, NEW r, Within(r, q, n)
  PROVE  Within(r, p, n)
<1>1. q .. n \subseteq p .. n
  OBVIOUS
<1> QED BY <1>1 DEF Within

-----------------------------------------------------------------------------
(* The stages, from the last to the first.                                 *)

LEMMA ImmediateWithin ==
  ASSUME NEW s \in Seq(Byte), NEW pos \in 0 .. Len(s), NEW c, c.opsize \in Nat
  PROVE  Within(Immediate(s, pos, c), pos, Len(s))
<1>1. ImmSize(c) \in Nat
  BY Sizes
<1>2. CASE pos + ImmSize(c) > Len(s)
  BY <1>2 DEF Immediate, Truncated, Within
<1>3. CASE pos + ImmSize(c) <= Len(s)
  <2>1. Immediate(s, pos, c) = Done(c, pos + ImmSize(c))
    BY <1>1, <1>3 DEF Immediate
  <2>2. pos + ImmSize(c) \in pos .. Len(s)
    BY <1>1, <1>3
  <2> QED BY <2>1, <2>2 DEF Done, Within
<1> QED BY <1>1, <1>2, <1>3

LEMMA ImmediateSettles ==
  ASSUME NEW s \in Seq(Byte), NEW b \in Byte, NEW pos \in 0 .. Len(s),
         NEW c, c.opsize \in Nat
  PROVE  Settles(Immediate(s, pos, c), Immediate(Append(s, b), pos, c), Len(s))
<1> DEFINE n == ImmSize(c)
           t == Append(s, b)
<1>1. n \in Nat /\ Len(t) = Len(s) + 1
  BY Sizes, Appended
<1> HIDE DEF n, t
<1>2. CASE pos + n <= Len(s)
  <2>1. Immediate(s, pos, c) = Done(c, pos + n) /\ Immediate(t, pos, c) = Done(c, pos + n)
    BY <1>1, <1>2 DEF Immediate, n
  <2> QED BY <2>1 DEF Done, Settles, t
<1>3. CASE pos + n = Len(s) + 1
  <2>1. /\ Immediate(s, pos, c) = Truncated(pos, "imm")
        /\ Immediate(t, pos, c) = Done(c, Len(s) + 1)
    BY <1>1, <1>3 DEF Immediate, n
  <2>2. Within(Done(c, Len(s) + 1), Len(s) + 1, Len(s) + 1)
    BY DEF Done, Within
  <2> QED BY <2>1, <2>2 DEF Settles, Truncated, t
<1>4. CASE pos + n > Len(s) + 1
  <2>1. /\ Immediate(s, pos, c) = Truncated(pos, "imm")
        /\ Immediate(t, pos, c) = Truncated(pos, "imm")
    BY <1>1, <1>4 DEF Immediate, n
  <2> QED BY <2>1 DEF Settles, Truncated, t
<1> QED BY <1>1, <1>2, <1>3, <1>4

LEMMA AssembledWithin ==
  ASSUME NEW s \in Seq(Byte), NEW pos \in 1 .. Len(s), NEW off \in 0 .. pos - 1,
         NEW c, c.opsize \in Nat
  PROVE  Within(Assembled(s, pos, off, c), pos, Len(s))
<1>1. Within(Error("kBadModrm", pos - 1), pos, Len(s))
  BY DEF Within, Error, Errors
<1>2. Within(Error("kUnsupportedOpcode", off), pos, Len(s))
  BY DEF Within, Error, Errors
<1>3. Within(Immediate(s, pos, c), pos, Len(s))
  BY ImmediateWithin
<1> QED BY <1>1, <1>2, <1>3 DEF Assembled

LEMMA AssembledSettles ==
  ASSUME NEW s \in Seq(Byte), NEW b \in Byte, NEW pos \in 1 .. Len(s), NEW off,
         NEW c, c.opsize \in Nat
  PROVE  Settles(Assembled(s, pos, off, c), Assembled(Append(s, b), pos, off, c), Len(s))
<1>1. \A kind \in Errors : \A o : Settles(Error(kind, o), Error(kind, o), Len(s))
  BY DEF Settles, Error, Errors
<1>2. Settles(Immediate(s, pos, c), Immediate(Append(s, b), pos, c), Len(s))
  BY ImmediateSettles
<1> QED BY <1>1, <1>2 DEF Assembled, Errors

LEMMA DisplacedWithin ==
  ASSUME NEW s \in Seq(Byte), NEW pos \in 1 .. Len(s), NEW off \in 0 .. pos - 1,
         NEW c, c.opsize \in Nat, NEW base
  PROVE  Within(Displaced(s, pos, off, c, base), pos, Len(s))
<1> DEFINE n == DispSize(c.modrm, base)
<1>1. n \in Nat
  BY Sizes
<1> HIDE DEF n
<1>2. CASE pos + n > Len(s)
  BY <1>2 DEF Displaced, n, Truncated, Within
<1>3. CASE pos + n <= Len(s)
  <2>1. Displaced(s, pos, off, c, base) = Assembled(s, pos + n, off, c)
    BY <1>1, <1>3 DEF Displaced, n
  <2>2. pos + n \in 1 .. Len(s) /\ off \in 0 .. (pos + n) - 1
    BY <1>1, <1>3
  <2>3. Within(Assembled(s, pos + n, off, c), pos + n, Len(s))
    BY <2>2, AssembledWithin
  <2> QED BY <1>1, <2>1, <2>2, <2>3, Wider
<1> QED BY <1>1, <1>2, <1>3

LEMMA DisplacedSettles ==
  ASSUME NEW s \in Seq(Byte), NEW b \in Byte, NEW pos \in 1 .. Len(s), NEW off \in 0 .. pos - 1,
         NEW c, c.opsize \in Nat, NEW base
  PROVE  Settles(Displaced(s, pos, off, c, base),
                 Displaced(Append(s, b), pos, off, c, base), Len(s))
<1> DEFINE n == DispSize(c.modrm, base)
           t == Append(s, b)
<1>1. n \in Nat /\ t \in Seq(Byte) /\ Len(t) = Len(s) + 1
  BY Sizes, Appended
<1> HIDE DEF n, t
<1>2. CASE pos + n <= Len(s)
  <2>1. /\ Displaced(s, pos, off, c, base) = Assembled(s, pos + n, off, c)
        /\ Displaced(t, pos, off, c, base) = Assembled(t, pos + n, off, c)
    BY <1>1, <1>2 DEF Displaced, n
  <2>2. pos + n \in 1 .. Len(s)
    BY <1>1, <1>2
  <2> QED BY <2>1, <2>2, AssembledSettles DEF t
<1>3. CASE pos + n = Len(s) + 1
  <2>1. /\ Displaced(s, pos, off, c, base) = Truncated(pos, "disp")
        /\ Displaced(t, pos, off, c, base) = Assembled(t, Len(t), off, c)
    BY <1>1, <1>3 DEF Displaced, n
  <2>2. Within(Assembled(t, Len(t), off, c), Len(t), Len(t))
    <3>1. Len(t) \in 1 .. Len(t) /\ off \in 0 .. Len(t) - 1
      BY <1>1
    <3> QED BY <1>1, <3>1, AssembledWithin
  <2> QED BY <1>1, <2>1, <2>2 DEF Settles, Truncated, t
<1>4. CASE pos + n > Len(s) + 1
  <2>1. /\ Displaced(s, pos, off, c, base) = Truncated(pos, "disp")
        /\ Displaced(t, pos, off, c, base) = Truncated(pos, "disp")
    BY <1>1, <1>4 DEF Displaced, n
  <2> QED BY <2>1 DEF Settles, Truncated, t
<1> QED BY <1>1, <1>2, <1>3, <1>4

LEMMA AssembleWithin ==
  ASSUME NEW s \in Seq(Byte), NEW pos \in 1 .. Len(s), NEW off \in 0 .. pos - 1,
         NEW c, c.opsize \in Nat
  PROVE  Within(Assemble(s, pos, off, c), pos, Len(s))
<1>1. Within(Error("kUnsupportedOpcode", off), pos, Len(s))
  BY DEF Within, Error, Errors
<1>2. Within(Assembled(s, pos, off, c), pos, Len(s))
  BY AssembledWithin
<1>3. Within(Displaced(s, pos, off, c, Rm(c.modrm)), pos, Len(s))
  BY DisplacedWithin
<1>4. Within(Truncated(pos, "sib"), pos, Len(s))
  BY DEF Within, Truncated
<1>5. ASSUME pos + 1 <= Len(s)
      PROVE  Within(Displaced(s, pos + 1, off, c, s[pos + 1] % 8), pos, Len(s))
  <2>1. pos + 1 \in 1 .. Len(s) /\ off \in 0 .. (pos + 1) - 1
    BY <1>5
  <2>2. Within(Displaced(s, pos + 1, off, c, s[pos + 1] % 8), pos + 1, Len(s))
    BY <2>1, DisplacedWithin
  <2> QED BY <2>1, <2>2, Wider
<1> QED BY <1>1, <1>2, <1>3, <1>4, <1>5 DEF Assemble

LEMMA AssembleSettles ==
  ASSUME NEW s \in Seq(Byte), NEW b \in Byte, NEW pos \in 1 .. Len(s), NEW off \in 0 .. pos - 1,
         NEW c, c.opsize \in Nat
  PROVE  Settles(Assemble(s, pos, off, c), Assemble(Append(s, b), pos, off, c), Len(s))
<1> DEFINE t == Append(s, b)
<1>0. t \in Seq(Byte) /\ Len(t) = Len(s) + 1 /\ \A i \in 1 .. Len(s) : t[i] = s[i]
  BY Appended
<1>1. CASE ToSreg(c) /\ Reg(c.modrm) > 5
  <2>1. /\ Assemble(s, pos, off, c) = Error("kUnsupportedOpcode", off)
        /\ Assemble(t, pos, off, c) = Error("kUnsupportedOpcode", off)
    BY <1>1 DEF Assemble
  <2> QED BY <2>1 DEF Settles, Error
<1>2. CASE ~(ToSreg(c) /\ Reg(c.modrm) > 5) /\ ~InMemory(c)
  <2>1. /\ Assemble(s, pos, off, c) = Assembled(s, pos, off, c)
        /\ Assemble(t, pos, off, c) = Assembled(t, pos, off, c)
    BY <1>2 DEF Assemble
  <2> QED BY <2>1, AssembledSettles
<1> DEFINE Addressed == ~(ToSreg(c) /\ Reg(c.modrm) > 5) /\ InMemory(c)
<1>3. CASE Addressed /\ Rm(c.modrm) # 4
  <2>1. /\ Assemble(s, pos, off, c) = Displaced(s, pos, off, c, Rm(c.modrm))
        /\ Assemble(t, pos, off, c) = Displaced(t, pos, off, c, Rm(c.modrm))
    BY <1>3 DEF Assemble
  <2> QED BY <2>1, DisplacedSettles
<1>4. CASE Addressed /\ Rm(c.modrm) = 4 /\ pos + 1 <= Len(s)
  <2> DEFINE base == s[pos + 1] % 8
  <2>1. t[pos + 1] = s[pos + 1] /\ pos + 1 <= Len(t)
    BY <1>0, <1>4
  <2>2. /\ Assemble(s, pos, off, c) = Displaced(s, pos + 1, off, c, base)
        /\ Assemble(t, pos, off, c) = Displaced(t, pos + 1, off, c, base)
    BY <1>4, <2>1 DEF Assemble
  <2>3. pos + 1 \in 1 .. Len(s) /\ off \in 0 .. (pos + 1) - 1
    BY <1>4
  <2> QED BY <2>2, <2>3, DisplacedSettles
<1>5. CASE Addressed /\ Rm(c.modrm) = 4 /\ pos = Len(s)
  <2>1. /\ Assemble(s, pos, off, c) = Truncated(pos, "sib")
        /\ Assemble(t, pos, off, c) = Displaced(t, Len(t), off, c, t[pos + 1] % 8)
    BY <1>0, <1>5 DEF Assemble
  <2>2. Len(t) \in 1 .. Len(t) /\ off \in 0 .. Len(t) - 1
    BY <1>0
  <2>3. Within(Displaced(t, Len(t), off, c, t[pos + 1] % 8), Len(t), Len(t))
    BY <1>0, <2>2, DisplacedWithin
  <2> QED BY <1>0, <2>1, <2>3 DEF Settles, Truncated
<1> QED BY <1>1, <1>2, <1>3, <1>4, <1>5

\* The group leaves an operand size behind.
LEMMA ModrmOpsize ==
  ASSUME NEW c, c.opsize \in Nat, NEW m
  PROVE  WithModrm(c, m).opsize \in Nat
BY DEF WithModrm, GroupOpsize

LEMMA ModrmWithin ==
  ASSUME NEW s \in Seq(Byte), NEW pos \in 1 .. Len(s), NEW off \in 0 .. pos - 1,
         NEW c, c.opsize \in Nat
  PROVE  Within(Modrm(s, pos, off, c), pos, Len(s))
<1>1. CASE ~WantsModrm(c)
  BY <1>1, AssembleWithin DEF Modrm
<1>2. CASE WantsModrm(c) /\ pos + 1 > Len(s)
  BY <1>2 DEF Modrm, Within, Truncated
<1>3. CASE WantsModrm(c) /\ pos + 1 <= Len(s)
  <2> DEFINE m == s[pos + 1]
  <2>1. Within(Error("kUnsupportedOpcode", off), pos, Len(s))
    BY DEF Within, Error, Errors
  <2>2. Within(Error("kBadModrm", pos), pos, Len(s))
    BY <1>3 DEF Within, Error, Errors
  <2>3. Within(Assemble(s, pos + 1, off, WithModrm(c, m)), pos, Len(s))
    <3>1. pos + 1 \in 1 .. Len(s) /\ off \in 0 .. (pos + 1) - 1
      BY <1>3
    <3>2. Within(Assemble(s, pos + 1, off, WithModrm(c, m)), pos + 1, Len(s))
      BY <3>1, ModrmOpsize, AssembleWithin
    <3> QED BY <3>1, <3>2, Wider
  <2> QED BY <1>3, <2>1, <2>2, <2>3 DEF Modrm
<1> QED BY <1>1, <1>2, <1>3

LEMMA ModrmSettles ==
  ASSUME NEW s \in Seq(Byte), NEW b \in Byte, NEW pos \in 1 .. Len(s), NEW off \in 0 .. pos - 1,
         NEW c, c.opsize \in Nat
  PROVE  Settles(Modrm(s, pos, off, c), Modrm(Append(s, b), pos, off, c), Len(s))
<1> DEFINE t == Append(s, b)
<1>0. t \in Seq(Byte) /\ Len(t) = Len(s) + 1 /\ \A i \in 1 .. Len(s) : t[i] = s[i]
  BY Appended
<1>1. CASE ~WantsModrm(c)
  BY <1>1, AssembleSettles DEF Modrm
<1>2. CASE WantsModrm(c) /\ pos + 1 <= Len(s)
  <2> DEFINE m == s[pos + 1]
  <2>1. t[pos + 1] = m /\ pos + 1 <= Len(t)
    BY <1>0, <1>2
  <2>2. CASE Rejected(c, m)
    <3>1. /\ Modrm(s, pos, off, c) = Error("kUnsupportedOpcode", off)
          /\ Modrm(t, pos, off, c) = Error("kUnsupportedOpcode", off)
      BY <1>2, <2>1, <2>2 DEF Modrm
    <3> QED BY <3>1 DEF Settles, Error
  <2>3. CASE ~Rejected(c, m) /\ c.ent.mn = "lea" /\ Mod(m) = 3
    <3>1. /\ Modrm(s, pos, off, c) = Error("kBadModrm", pos)
          /\ Modrm(t, pos, off, c) = Error("kBadModrm", pos)
      BY <1>2, <2>1, <2>3 DEF Modrm
    <3> QED BY <3>1 DEF Settles, Error
  <2>4. CASE ~Rejected(c, m) /\ ~(c.ent.mn = "lea" /\ Mod(m) = 3)
    <3> DEFINE d == WithModrm(c, m)
    <3>1. /\ Modrm(s, pos, off, c) = Assemble(s, pos + 1, off, d)
          /\ Modrm(t, pos, off, c) = Assemble(t, pos + 1, off, d)
      BY <1>2, <2>1, <2>4 DEF Modrm
    <3>2. pos + 1 \in 1 .. Len(s) /\ off \in 0 .. (pos + 1) - 1
      BY <1>2
    <3> QED BY <3>1, <3>2, ModrmOpsize, AssembleSettles
  <2> QED BY <2>2, <2>3, <2>4
<1>3. CASE WantsModrm(c) /\ pos = Len(s)
  <2>1. Modrm(s, pos, off, c) = Truncated(pos, "modrm")
    BY <1>3 DEF Modrm
  <2>2. Within(Modrm(t, pos, off, c), Len(t), Len(t))
    <3> DEFINE m == t[pos + 1]
    <3>1. /\ Within(Error("kUnsupportedOpcode", off), Len(t), Len(t))
          /\ Within(Error("kBadModrm", pos), Len(t), Len(t))
      BY <1>0, <1>3 DEF Within, Error, Errors
    <3>2. Len(t) \in 1 .. Len(t) /\ off \in 0 .. Len(t) - 1 /\ pos + 1 = Len(t)
      BY <1>0, <1>3
    <3>3. Within(Assemble(t, pos + 1, off, WithModrm(c, m)), Len(t), Len(t))
      BY <1>0, <3>2, ModrmOpsize, AssembleWithin
    <3> QED BY <1>3, <3>1, <3>2, <3>3 DEF Modrm
  <2> QED BY <1>0, <2>1, <2>2 DEF Settles, Truncated
<1> QED BY <1>1, <1>2, <1>3

LEMMA ChosenWithin ==
  ASSUME NEW s \in Seq(Byte), NEW pos \in 1 .. Len(s), NEW off \in 0 .. pos - 1,
         NEW c, c.opsize \in Nat
  PROVE  Within(Chosen(s, pos, off, c), pos, Len(s))
<1>1. Within(Error("kUnsupportedOpcode", off), pos, Len(s))
  BY DEF Within, Error, Errors
<1>2. Within(Modrm(s, pos, off, c), pos, Len(s))
  BY ModrmWithin
<1> QED BY <1>1, <1>2 DEF Chosen

LEMMA ChosenSettles ==
  ASSUME NEW s \in Seq(Byte), NEW b \in Byte, NEW pos \in 1 .. Len(s), NEW off \in 0 .. pos - 1,
         NEW c, c.opsize \in Nat
  PROVE  Settles(Chosen(s, pos, off, c), Chosen(Append(s, b), pos, off, c), Len(s))
<1>1. Settles(Error("kUnsupportedOpcode", off), Error("kUnsupportedOpcode", off), Len(s))
  BY DEF Settles, Error
<1>2. Settles(Modrm(s, pos, off, c), Modrm(Append(s, b), pos, off, c), Len(s))
  BY ModrmSettles
<1> QED BY <1>1, <1>2 DEF Chosen

\* Every selection has an operand size.
LEMMA SelectedOpsize ==
  ASSUME NEW esc, NEW op, NEW op3, NEW p
  PROVE  /\ OneByte(op, p).opsize \in Nat
         /\ TwoByte(op, p).opsize \in Nat
         /\ ThreeByte(esc, op3, p).opsize \in Nat
<1>1. \A sz, q : Opsize(sz, q) \in Nat
  BY DEF Opsize
<1>2. \A e, o, q, ent : Selected(e, o, q, ent).opsize \in Nat
  BY <1>1 DEF Selected
<1>3. OneByte(op, p).opsize \in Nat
  <2> DEFINE q == IF op \in \hA4 .. \hAF THEN p ELSE [p EXCEPT !.rep = 0]
             ent == IF op = \h90 /\ p.rep = \hF3 THEN Plain("pause") ELSE PrimaryTable[op]
  <2>1. OneByte(op, p) = Selected(FALSE, op, q, ent)
    BY Zenon DEF OneByte
  <2> HIDE DEF q, ent
  <2> QED BY <1>2, <2>1
<1>4. TwoByte(op, p).opsize \in Nat
  <2> DEFINE A == Selected(TRUE, op, [p EXCEPT !.rep = 0], P3Table[op])
             B == Selected(TRUE, op, [p EXCEPT !.opsz66 = FALSE], P66Table[op])
             C == Selected(TRUE, op, [p EXCEPT !.rep = 0], NoneTable[op])
  <2>1. A.opsize \in Nat /\ B.opsize \in Nat /\ C.opsize \in Nat
    BY <1>2
  <2>2. TwoByte(op, p) \in {A, B, C}
    BY Zenon DEF TwoByte
  <2> HIDE DEF A, B, C
  <2> QED BY <2>1, <2>2
<1>5. ThreeByte(esc, op3, p).opsize \in Nat
  BY <1>2 DEF ThreeByte
<1> QED BY <1>3, <1>4, <1>5

LEMMA OpcodeWithin ==
  ASSUME NEW s \in Seq(Byte), NEW n \in 0 .. Len(s) - 1, NEW p
  PROVE  Within(Opcode(s, n, p), n + 1, Len(s))
<1> DEFINE op == s[n + 1]
           esc == s[n + 2]
<1>1. CASE op # \h0F
  <2>1. n + 1 \in 1 .. Len(s) /\ n \in 0 .. (n + 1) - 1
    OBVIOUS
  <2>2. Within(Chosen(s, n + 1, n, OneByte(op, p)), n + 1, Len(s))
    BY <2>1, SelectedOpsize, ChosenWithin
  <2> QED BY <1>1, <2>2 DEF Opcode
<1>2. CASE op = \h0F /\ n + 2 > Len(s)
  BY <1>2 DEF Opcode, Within, Truncated
<1>3. CASE op = \h0F /\ n + 2 <= Len(s) /\ esc \notin {\h38, \h3A}
  <2>1. n + 2 \in 1 .. Len(s) /\ n \in 0 .. (n + 2) - 1 /\ n + 2 \in n + 1 .. Len(s)
    BY <1>3
  <2>2. Within(Chosen(s, n + 2, n, TwoByte(esc, p)), n + 2, Len(s))
    BY <2>1, SelectedOpsize, ChosenWithin
  <2> QED BY <1>3, <2>1, <2>2, Wider DEF Opcode
<1>4. CASE op = \h0F /\ n + 2 <= Len(s) /\ esc \in {\h38, \h3A} /\ n + 3 > Len(s)
  BY <1>4 DEF Opcode, Within, Truncated
<1>5. CASE op = \h0F /\ n + 3 <= Len(s) /\ esc \in {\h38, \h3A}
  <2>1. n + 3 \in 1 .. Len(s) /\ n \in 0 .. (n + 3) - 1 /\ n + 3 \in n + 1 .. Len(s)
    BY <1>5
  <2>2. Within(Chosen(s, n + 3, n, ThreeByte(esc, s[n + 3], p)), n + 3, Len(s))
    BY <2>1, SelectedOpsize, ChosenWithin
  <2>3. Opcode(s, n, p) = Chosen(s, n + 3, n, ThreeByte(esc, s[n + 3], p))
    BY <1>5 DEF Opcode
  <2> QED BY <2>1, <2>2, <2>3, Wider
<1> QED BY <1>1, <1>2, <1>3, <1>4, <1>5

LEMMA OpcodeSettles ==
  ASSUME NEW s \in Seq(Byte), NEW b \in Byte, NEW n \in 0 .. Len(s) - 1, NEW p
  PROVE  Settles(Opcode(s, n, p), Opcode(Append(s, b), n, p), Len(s))
<1> DEFINE t == Append(s, b)
           op == s[n + 1]
           esc == s[n + 2]
<1>0. t \in Seq(Byte) /\ Len(t) = Len(s) + 1 /\ \A i \in 1 .. Len(s) : t[i] = s[i]
  BY Appended
<1>1. t[n + 1] = op
  BY <1>0
<1>2. CASE op # \h0F
  <2>1. /\ Opcode(s, n, p) = Chosen(s, n + 1, n, OneByte(op, p))
        /\ Opcode(t, n, p) = Chosen(t, n + 1, n, OneByte(op, p))
    BY <1>1, <1>2 DEF Opcode
  <2>2. n + 1 \in 1 .. Len(s) /\ n \in 0 .. (n + 1) - 1
    OBVIOUS
  <2> QED BY <2>1, <2>2, SelectedOpsize, ChosenSettles
<1>3. CASE op = \h0F /\ n + 2 > Len(s)
  <2>1. Opcode(s, n, p) = Truncated(n + 1, "opcode2") /\ n + 2 = Len(t)
    BY <1>0, <1>3 DEF Opcode
  <2>2. CASE t[n + 2] \notin {\h38, \h3A}
    <3>1. Opcode(t, n, p) = Chosen(t, Len(t), n, TwoByte(t[n + 2], p))
      BY <1>1, <1>3, <2>1, <2>2 DEF Opcode
    <3>2. Len(t) \in 1 .. Len(t) /\ n \in 0 .. Len(t) - 1
      BY <1>0
    <3>3. Within(Opcode(t, n, p), Len(t), Len(t))
      BY <1>0, <3>1, <3>2, SelectedOpsize, ChosenWithin
    <3> QED BY <1>0, <2>1, <3>3 DEF Settles, Truncated
  <2>3. CASE t[n + 2] \in {\h38, \h3A}
    <3>1. Opcode(t, n, p) = Truncated(n + 2, "opcode3")
      BY <1>1, <1>3, <2>1, <2>3 DEF Opcode
    <3> QED BY <2>1, <3>1 DEF Settles, Truncated
  <2> QED BY <2>2, <2>3
<1>4. CASE op = \h0F /\ n + 2 <= Len(s) /\ esc \notin {\h38, \h3A}
  <2>1. t[n + 2] = esc /\ n + 2 <= Len(t)
    BY <1>0, <1>4
  <2>2. /\ Opcode(s, n, p) = Chosen(s, n + 2, n, TwoByte(esc, p))
        /\ Opcode(t, n, p) = Chosen(t, n + 2, n, TwoByte(esc, p))
    BY <1>1, <1>4, <2>1 DEF Opcode
  <2>3. n + 2 \in 1 .. Len(s) /\ n \in 0 .. (n + 2) - 1
    BY <1>4
  <2> QED BY <2>2, <2>3, SelectedOpsize, ChosenSettles
<1>5. CASE op = \h0F /\ n + 2 = Len(s) /\ esc \in {\h38, \h3A}
  <2>1. t[n + 2] = esc /\ n + 2 <= Len(t) /\ n + 3 = Len(t)
    BY <1>0, <1>5
  <2>2. Opcode(t, n, p) = Chosen(t, Len(t), n, ThreeByte(esc, t[n + 3], p))
    BY <1>1, <1>5, <2>1 DEF Opcode
  <2>3. Len(t) \in 1 .. Len(t) /\ n \in 0 .. Len(t) - 1
    BY <1>0
  <2>4. ThreeByte(esc, t[n + 3], p).opsize \in Nat
    BY SelectedOpsize
  <2>5. Within(Opcode(t, n, p), Len(t), Len(t))
    BY <1>0, <2>2, <2>3, <2>4, ChosenWithin
  <2>6. Opcode(s, n, p) = Truncated(n + 2, "opcode3")
    BY <1>1, <1>5, <2>1 DEF Opcode
  <2> QED BY <1>0, <2>5, <2>6 DEF Settles, Truncated
<1>6. CASE op = \h0F /\ n + 3 <= Len(s) /\ esc \in {\h38, \h3A}
  <2>1. t[n + 2] = esc /\ t[n + 3] = s[n + 3] /\ n + 3 <= Len(t)
    BY <1>0, <1>6
  <2>2. /\ Opcode(s, n, p) = Chosen(s, n + 3, n, ThreeByte(esc, s[n + 3], p))
        /\ Opcode(t, n, p) = Chosen(t, n + 3, n, ThreeByte(esc, s[n + 3], p))
    BY <1>1, <1>6, <2>1 DEF Opcode
  <2>3. n + 3 \in 1 .. Len(s) /\ n \in 0 .. (n + 3) - 1
    BY <1>6
  <2> QED BY <2>2, <2>3, SelectedOpsize, ChosenSettles
<1> QED BY <1>2, <1>3, <1>4, <1>5, <1>6

-----------------------------------------------------------------------------
(* The prefixes.                                                           *)

Ends(s, n) ==
    /\ \A i \in 1 .. n : s[i] \in PrefixBytes
    /\ n < Len(s) => s[n + 1] \notin PrefixBytes

\* The loop of parse_prefixes() stops, at one place only.
LEMMA PrefixEndExists ==
  ASSUME NEW s \in Seq(Byte)
  PROVE  PrefixEnd(s) \in 0 .. Len(s) /\ Ends(s, PrefixEnd(s))
<1> DEFINE T == {i \in 1 .. Len(s) : s[i] \notin PrefixBytes}
<1>1. \E n \in 0 .. Len(s) : Ends(s, n)
  <2>1. CASE T = {}
    <3>1. \A i \in 1 .. Len(s) : s[i] \in PrefixBytes
      BY <2>1
    <3> QED BY <3>1 DEF Ends
  <2>2. CASE T # {}
    <3>1. T \in SUBSET Nat
      OBVIOUS
    <3>2. PICK x \in T : \A y \in T : x <= y
      BY <2>2, <3>1, LeastNatural
    <3>3. \A i \in 1 .. x - 1 : s[i] \in PrefixBytes
      BY <3>2
    <3>4. x - 1 \in 0 .. Len(s) /\ (x - 1) + 1 = x /\ s[x] \notin PrefixBytes
      OBVIOUS
    <3> QED BY <3>3, <3>4 DEF Ends
  <2> QED BY <2>1, <2>2
<1> QED BY <1>1 DEF PrefixEnd, Ends

LEMMA PrefixEndUnique ==
  ASSUME NEW s \in Seq(Byte), NEW n \in 0 .. Len(s), Ends(s, n)
  PROVE  PrefixEnd(s) = n
<1> DEFINE m == PrefixEnd(s)
<1>1. m \in 0 .. Len(s) /\ Ends(s, m)
  BY PrefixEndExists
<1> HIDE DEF m
<1>2. ~(m < n)
  <2> SUFFICES ASSUME m < n PROVE FALSE
    OBVIOUS
  <2>1. m + 1 \in 1 .. n /\ m < Len(s)
    BY <1>1
  <2> QED BY <1>1, <2>1 DEF Ends
<1>3. ~(n < m)
  <2> SUFFICES ASSUME n < m PROVE FALSE
    OBVIOUS
  <2>1. n + 1 \in 1 .. m /\ n < Len(s)
    BY <1>1
  <2> QED BY <1>1, <2>1 DEF Ends
<1> QED BY <1>1, <1>2, <1>3 DEF m

\* Bytes behind the prefixes do not move their end; a byte right behind them
\* may be one of them.
LEMMA PrefixEndSettles ==
  ASSUME NEW s \in Seq(Byte), NEW b \in Byte
  PROVE  /\ PrefixEnd(s) < Len(s) => PrefixEnd(Append(s, b)) = PrefixEnd(s)
         /\ PrefixEnd(s) = Len(s) => PrefixEnd(Append(s, b)) \in Len(s) .. Len(s) + 1
<1> DEFINE t == Append(s, b)
           n == PrefixEnd(s)
<1>0. t \in Seq(Byte) /\ Len(t) = Len(s) + 1 /\ \A i \in 1 .. Len(s) : t[i] = s[i]
  BY Appended
<1>1. n \in 0 .. Len(s) /\ Ends(s, n)
  BY PrefixEndExists
<1> HIDE DEF t, n
<1>2. \A i \in 1 .. n : t[i] \in PrefixBytes
  BY <1>0, <1>1 DEF Ends
<1>3. CASE n < Len(s)
  <2>1. n + 1 \in 1 .. Len(s) /\ n \in 0 .. Len(t)
    BY <1>0, <1>1, <1>3
  <2>2. Ends(t, n)
    BY <1>0, <1>1, <1>2, <1>3, <2>1 DEF Ends
  <2>3. PrefixEnd(t) = n
    BY <1>0, <2>1, <2>2, PrefixEndUnique
  <2> QED BY <1>3, <2>3 DEF t, n
<1>4. CASE n = Len(s)
  <2>1. CASE b \in PrefixBytes
    <3>1. t[n + 1] = b
      BY <1>4, Appended DEF t
    <3>2. n + 1 \in 0 .. Len(t) /\ ~(n + 1 < Len(t))
      BY <1>0, <1>1, <1>4
    <3>3. Ends(t, n + 1)
      BY <1>1, <1>2, <2>1, <3>1, <3>2 DEF Ends
    <3>4. PrefixEnd(t) = n + 1
      BY <1>0, <3>2, <3>3, PrefixEndUnique
    <3> QED BY <1>1, <1>4, <3>4 DEF t, n
  <2>2. CASE b \notin PrefixBytes
    <3>1. t[n + 1] = b
      BY <1>4, Appended DEF t
    <3>2. n \in 0 .. Len(t)
      BY <1>0, <1>1
    <3>3. Ends(t, n)
      BY <1>2, <2>2, <3>1 DEF Ends
    <3>4. PrefixEnd(t) = n
      BY <1>0, <3>2, <3>3, PrefixEndUnique
    <3> QED BY <1>1, <1>4, <3>4 DEF t, n
  <2> QED BY <2>1, <2>2
<1> QED BY <1>1, <1>3, <1>4 DEF n

LEMMA PrefixesKept ==
  ASSUME NEW s \in Seq(Byte), NEW b \in Byte, NEW n \in 0 .. Len(s)
  PROVE  SubSeq(Append(s, b), 1, n) = SubSeq(s, 1, n)
<1> DEFINE t == Append(s, b)
<1>0. t \in Seq(Byte) /\ Len(t) = Len(s) + 1 /\ \A i \in 1 .. Len(s) : t[i] = s[i]
  BY Appended
<1> HIDE DEF t
<1>1. /\ SubSeq(s, 1, n) \in Seq(Byte) /\ Len(SubSeq(s, 1, n)) = n
      /\ \A i \in 1 .. n : SubSeq(s, 1, n)[i] = s[i]
  OBVIOUS
<1>2. /\ SubSeq(t, 1, n) \in Seq(Byte) /\ Len(SubSeq(t, 1, n)) = n
      /\ \A i \in 1 .. n : SubSeq(t, 1, n)[i] = t[i]
  BY <1>0
<1>3. \A i \in 1 .. n : SubSeq(t, 1, n)[i] = SubSeq(s, 1, n)[i]
  BY <1>0, <1>1, <1>2
<1> HIDE DEF t
<1> QED BY <1>1, <1>2, <1>3, SeqEqual DEF t

-----------------------------------------------------------------------------
(* decode_one() as a whole.                                                *)

LEMMA DecodeWithin ==
  ASSUME NEW s \in Seq(Byte)
  PROVE  /\ Within(Decode(s), 0, Len(s))
         /\ PrefixEnd(s) < Len(s) => Within(Decode(s), PrefixEnd(s) + 1, Len(s))
<1> DEFINE n == PrefixEnd(s)
           p == Prefixes(SubSeq(s, 1, n))
<1>0. n \in 0 .. Len(s)
  BY PrefixEndExists
<1> HIDE DEF n, p
<1>1. CASE n = Len(s)
  <2>1. Decode(s) = Truncated(n, "opcode")
    BY <1>1 DEF Decode, n
  <2> QED BY <1>0, <1>1, <2>1 DEF Within, Truncated, n
<1>2. CASE n < Len(s)
  <2>0. n \in 0 .. Len(s) - 1 /\ n + 1 \in 0 .. Len(s)
    BY <1>0, <1>2
  <2>1. Decode(s) = IF s[n + 1] = \h67 THEN Error("kBadPrefix", n) ELSE Opcode(s, n, p)
    BY <1>2, <2>0 DEF Decode, n, p
  <2>2. Within(Error("kBadPrefix", n), n + 1, Len(s))
    BY <2>0 DEF Within, Error, Errors
  <2>3. Within(Opcode(s, n, p), n + 1, Len(s))
    BY <2>0, OpcodeWithin
  <2>4. Within(Decode(s), n + 1, Len(s))
    BY <2>1, <2>2, <2>3
  <2>5. Within(Decode(s), 0, Len(s))
    BY <2>0, <2>4, Wider
  <2> QED BY <2>4, <2>5 DEF n
<1> QED BY <1>0, <1>1, <1>2

LEMMA DecodeSettles ==
  ASSUME NEW s \in Seq(Byte), NEW b \in Byte
  PROVE  Settles(Decode(s), Decode(Append(s, b)), Len(s))
<1> DEFINE t == Append(s, b)
           n == PrefixEnd(s)
           p == Prefixes(SubSeq(s, 1, n))
<1>0. t \in Seq(Byte) /\ Len(t) = Len(s) + 1 /\ \A i \in 1 .. Len(s) : t[i] = s[i]
  BY Appended
<1>1. n \in 0 .. Len(s)
  BY PrefixEndExists
<1>2. /\ n < Len(s) => PrefixEnd(t) = n
      /\ n = Len(s) => PrefixEnd(t) \in Len(s) .. Len(t)
  BY <1>0, PrefixEndSettles
<1>3. SubSeq(t, 1, n) = SubSeq(s, 1, n)
  BY <1>1, PrefixesKept
<1>4. n \in 0 .. Len(s) - 1 => Settles(Opcode(s, n, p), Opcode(t, n, p), Len(s))
  BY OpcodeSettles
<1>5. Within(Decode(t), 0, Len(t))
      /\ (PrefixEnd(t) < Len(t) => Within(Decode(t), PrefixEnd(t) + 1, Len(t)))
  BY <1>0, DecodeWithin
<1>6. p = Prefixes(SubSeq(t, 1, n))
  BY <1>3
<1> HIDE DEF t, n, p
<1>7. CASE n < Len(s)
  <2>0. n \in 0 .. Len(s) - 1 /\ n # Len(s) /\ n # Len(t) /\ n + 1 \in 1 .. Len(s)
    BY <1>0, <1>1, <1>7
  <2>1. Decode(s) = IF s[n + 1] = \h67 THEN Error("kBadPrefix", n) ELSE Opcode(s, n, p)
    BY <2>0 DEF Decode, n, p
  <2>2. PrefixEnd(t) = n
    BY <1>2, <1>7
  <2>3. Decode(t) = IF t[n + 1] = \h67 THEN Error("kBadPrefix", n) ELSE Opcode(t, n, p)
    BY <1>6, <2>0, <2>2 DEF Decode
  <2>4. t[n + 1] = s[n + 1]
    BY <1>0, <2>0
  <2>5. Settles(Error("kBadPrefix", n), Error("kBadPrefix", n), Len(s))
    BY DEF Settles, Error
  <2> QED BY <1>4, <2>0, <2>1, <2>3, <2>4, <2>5 DEF t
<1>8. CASE n = Len(s)
  <2>1. Decode(s) = Truncated(n, "opcode")
    BY <1>8 DEF Decode, n
  <2>2. CASE PrefixEnd(t) = Len(t)
    <3>1. Decode(t) = Truncated(PrefixEnd(t), "opcode")
      BY <2>2 DEF Decode
    <3> QED BY <2>1, <3>1 DEF Settles, Truncated, t
  <2>3. CASE PrefixEnd(t) = Len(s)
    <3>1. PrefixEnd(t) < Len(t) /\ PrefixEnd(t) + 1 = Len(s) + 1 /\ Len(t) = Len(s) + 1
      BY <1>0, <2>3
    <3>2. Within(Decode(t), Len(s) + 1, Len(s) + 1)
      BY <1>5, <3>1
    <3> QED BY <2>1, <3>2 DEF Settles, Truncated, t
  <2> QED BY <1>0, <1>2, <1>8, <2>2, <2>3
<1> QED BY <1>1, <1>7, <1>8

-----------------------------------------------------------------------------
(* What is asked of the entry of an opcode.                                *)

\* The class of an opcode in the architecture's map, by its immediate.
ImmClass(esc, op) ==
    IF esc THEN IF op \in MapEscByte THEN "byte" ELSE IF op \in \h80 .. \h8F THEN "rel" ELSE "none"
    ELSE IF op \in MapByte THEN "byte" ELSE IF op \in MapFull THEN "full"
    ELSE IF op \in \hB8 .. \hBF THEN "wide" ELSE IF op \in \hA0 .. \hA3 THEN "moffs"
    ELSE IF op = \hC2 THEN "ret" ELSE IF op \in {\hE8, \hE9} THEN "rel"
    ELSE IF op = \hF6 THEN "test8" ELSE IF op = \hF7 THEN "test" ELSE "none"
\* Whether the map gives it a ModRM byte.
HasModrm(esc, op) == IF esc THEN op \notin MapNoModrm ELSE op \in MapModrm

Class(esc, ops, class, modrm) ==
    \A op \in ops : ImmClass(esc, op) = class /\ HasModrm(esc, op) = modrm

\* The slots that can be in memory.
MemorySlots == RmSlots \cup {"kMem"}

\* What execute() takes for granted of an entry.
Fit(e) ==
    /\ e.sz # "kV"
    /\ \A i, j \in DOMAIN e.slots :
          e.slots[i] \in MemorySlots /\ e.slots[j] \in MemorySlots => i = j
    /\ \A i \in DOMAIN e.slots : e.slots[i] \notin XmmRmSlots
    /\ e.mn \in {"xchg", "xadd", "cmpxchg"} =>
          /\ DOMAIN e.slots = {1, 2} /\ e.islot = 0
          /\ e.slots[1] \in {"kRm", "kOpr"} /\ e.slots[2] \in {"kReg", "kAcc"}
    /\ e.mn = "lea" => 2 \in DOMAIN e.slots /\ e.slots[2] = "kMem"
    /\ e.mn \in {"jcc", "loop", "jmp", "call"} =>
          DOMAIN e.slots = {} /\ e.islot = 1 /\ e.imm \in {"k8S", "k32S"}
    /\ e.mn \notin {"jcc", "loop", "jmp", "call", "push", "ret"} =>
          /\ e.islot = 1 => 1 \in DOMAIN e.slots /\ e.slots[1] = "kMem"
          /\ 1 \in DOMAIN e.slots => e.slots[1] # "kOne"
    /\ e.mn \in {"shift", "shld"} =>
          e.islot = 2 \/ (2 \in DOMAIN e.slots /\ e.slots[2] \in {"kOne", "kCl", "kReg"})

\* Instructions whose immediate is the value of an operand.
Valued == {"alu", "grp1", "test", "mov", "imul", "push"}

\* An entry is a record with at most three slots.
Formed(e) ==
    /\ e = [mn |-> e.mn, slots |-> e.slots, sz |-> e.sz, imm |-> e.imm,
            islot |-> e.islot, grp |-> e.grp]
    /\ DOMAIN e.slots \in {{}, {1}, {1, 2}, {1, 2, 3}}
    /\ e.mn # "invalid"

\* What the group's case of decode_one() finds in the entries that it rewrites.
Kept(e, class) ==
    /\ e.grp \in {"kGrp3", "kGrp5"} => e.slots = <<"kRm">> /\ e.islot = 0 /\ e.mn \notin NotExecuted
    /\ e.grp = "kGrp6" => e.slots = <<"kMem">> /\ e.islot = 0 /\ e.mn \notin NotExecuted
    /\ e.grp \in {"kGrp9", "kGrpPs", "kGrpAe"} => e.mn \in NotExecuted
    /\ e.mn = "endbr64" => e.grp = "none" /\ e.islot = 0
    /\ e.grp = "kGrp5" => class = "none"
    /\ e.grp = "kGrp3" <=> class \in {"test8", "test"}
    /\ class = "test8" => e.sz = "kB"
    /\ class = "test" => e.sz = "kD"

\* The trailing immediate is the one of the map.
Immediates(e, class) ==
    /\ class \in {"none", "test8", "test"} => e.imm = "k0"
    /\ class = "byte" => e.imm \in {"k8", "k8S"}
    /\ class = "full" => e.imm = "kSz4" /\ e.sz \in {"kD", "kP"}
    /\ class = "wide" => e.imm = "kSz4" /\ e.sz = "kD"
    /\ class = "moffs" => e.imm = "k64" /\ e.islot \in DOMAIN e.slots /\ e.slots[e.islot] = "kMem"
    /\ class = "ret" => e.imm = "k16"
    /\ class = "rel" => e.imm = "k32S"

\* A ModRM byte is read when the map has one, and then its displacement too.
Reads(e, class, modrm) ==
    /\ modrm <=> \/ e.grp # "none"
                 \/ \E i \in DOMAIN e.slots : e.slots[i] \in RmSlots \cup RegSlots
    /\ modrm => \/ \E i \in DOMAIN e.slots : e.slots[i] \in MemorySlots
                \/ e.grp \in {"kGrp9", "kGrpPs"}
    /\ e.slots # <<>> /\ e.slots[1] = "kMem" => class = "moffs" \/ e.grp # "none"

\* An immediate that is a value fills its operand.
Fills(e, class) ==
    e.mn \in Valued =>
          /\ \A i \in DOMAIN e.slots : e.slots[i] # "kOne"
          /\ e.islot = 0 \/ class \in {"full", "wide", "moffs"} \/ e.imm \in {"k8S", "k32S"}
             \/ (e.imm = "k8" /\ e.sz = "kB")

Entry(e, class, modrm) ==
    /\ Formed(e)
    /\ e.mn \notin NotExecuted => Fit(e)
    /\ Kept(e, class) /\ Immediates(e, class) /\ Reads(e, class, modrm) /\ Fills(e, class)

E(mn, slots, sz, imm, islot, grp) ==
    [mn |-> mn, slots |-> slots, sz |-> sz, imm |-> imm, islot |-> islot, grp |-> grp]

\* Of entries, as finalize_mnemonic() leaves them whatever the prefixes, of rows
\* and of tables.
Good(esc, op, e) == Entry(e, ImmClass(esc, op), HasModrm(esc, op))
GoodEntry(esc, ops, e) == \A op \in ops : \A p : Good(esc, op, Finalized(esc, p, e))
GoodRow(esc, r) == GoodEntry(esc, r[1], r[2])
GoodRows(esc, rows) == \A r \in rows : GoodRow(esc, r)

Second(op) == op + 1
\* The rows of a pair, with what WithImm and InGroup make of them.
Two(op, mn, slots, byte, full, islot, grp) ==
    {<<{op}, E(mn, slots, "kB", byte, islot, grp)>>,
     <<{Second(op)}, E(mn, slots, "kD", full, islot, grp)>>}

\* The constructors of entries, as records.
LEMMA EntIs ==
  ASSUME NEW mn, NEW slots, NEW sz
  PROVE  Ent(mn, slots, sz) = E(mn, slots, sz, "k0", 0, "none")
BY DEF Ent, E

LEMMA PlainIs ==
  ASSUME NEW mn
  PROVE  Plain(mn) = E(mn, <<>>, "kD", "k0", 0, "none")
BY DEF Plain, Ent, E

LEMMA ImmIs ==
  ASSUME NEW mn, NEW slots, NEW sz, NEW imm, NEW islot, NEW grp, NEW k, NEW i
  PROVE  Imm(E(mn, slots, sz, imm, islot, grp), k, i) = E(mn, slots, sz, k, i, grp)
<1>1. [E(mn, slots, sz, imm, islot, grp) EXCEPT !.imm = k] = E(mn, slots, sz, k, islot, grp)
  BY DEF E
<1>2. [E(mn, slots, sz, k, islot, grp) EXCEPT !.islot = i] = E(mn, slots, sz, k, i, grp)
  BY DEF E
<1>3. Imm(E(mn, slots, sz, imm, islot, grp), k, i)
      = [[E(mn, slots, sz, imm, islot, grp) EXCEPT !.imm = k] EXCEPT !.islot = i]
  BY DEF Imm
<1> QED BY <1>1, <1>2, <1>3

LEMMA GroupedIs ==
  ASSUME NEW mn, NEW slots, NEW sz, NEW imm, NEW islot, NEW grp, NEW g
  PROVE  Grouped(E(mn, slots, sz, imm, islot, grp), g) = E(mn, slots, sz, imm, islot, g)
BY DEF Grouped, E

LEMMA ImmEnt ==
  ASSUME NEW mn, NEW slots, NEW sz, NEW k, NEW i
  PROVE  Imm(Ent(mn, slots, sz), k, i) = E(mn, slots, sz, k, i, "none")
BY EntIs, ImmIs

LEMMA GroupedEnt ==
  ASSUME NEW mn, NEW slots, NEW sz, NEW g
  PROVE  Grouped(Ent(mn, slots, sz), g) = E(mn, slots, sz, "k0", 0, g)
BY EntIs, GroupedIs

LEMMA GroupedImm ==
  ASSUME NEW mn, NEW slots, NEW sz, NEW k, NEW i, NEW g
  PROVE  Grouped(Imm(Ent(mn, slots, sz), k, i), g) = E(mn, slots, sz, k, i, g)
BY ImmEnt, GroupedIs

\* The constructors of pairs of rows, as sets.
LEMMA Paired ==
  ASSUME NEW op, NEW mn, NEW slots
  PROVE  /\ Pair(op, mn, slots) = Two(op, mn, slots, "k0", "k0", 0, "none")
         /\ \A byte, full, i :
               WithImm(Pair(op, mn, slots), byte, full, i)
                 = Two(op, mn, slots, byte, full, i, "none")
         /\ \A g : InGroup(Pair(op, mn, slots), g) = Two(op, mn, slots, "k0", "k0", 0, g)
         /\ \A byte, full, i, g :
               InGroup(WithImm(Pair(op, mn, slots), byte, full, i), g)
                 = Two(op, mn, slots, byte, full, i, g)
<1>1. Pair(op, mn, slots) = Two(op, mn, slots, "k0", "k0", 0, "none")
  BY EntIs DEF Pair, Two, Second
<1>2. ASSUME NEW byte, NEW full, NEW i
      PROVE  WithImm(Pair(op, mn, slots), byte, full, i) = Two(op, mn, slots, byte, full, i, "none")
  <2> DEFINE b == E(mn, slots, "kB", "k0", 0, "none")
             d == E(mn, slots, "kD", "k0", 0, "none")
             image(r) == <<r[1], Imm(r[2], IF r[2].sz = "kB" THEN byte ELSE full, i)>>
  <2>1. Pair(op, mn, slots) = {<<{op}, b>>, <<{Second(op)}, d>>}
    BY <1>1 DEF Two
  <2>2. b.sz = "kB" /\ d.sz = "kD"
    BY DEF E
  <2>3. Imm(b, byte, i) = E(mn, slots, "kB", byte, i, "none")
    BY ImmIs
  <2>4. Imm(d, full, i) = E(mn, slots, "kD", full, i, "none")
    BY ImmIs
  <2> HIDE DEF b, d
  <2>5. image(<<{op}, b>>) = <<{op}, E(mn, slots, "kB", byte, i, "none")>>
    BY <2>2, <2>3
  <2>6. image(<<{Second(op)}, d>>) = <<{Second(op)}, E(mn, slots, "kD", full, i, "none")>>
    BY <2>2, <2>4
  <2>7. WithImm(Pair(op, mn, slots), byte, full, i) = {image(r) : r \in Pair(op, mn, slots)}
    BY DEF WithImm
  <2> HIDE DEF image
  <2> QED BY <2>1, <2>5, <2>6, <2>7 DEF Two
<1>3. ASSUME NEW byte, NEW full, NEW i, NEW g
      PROVE  InGroup(Two(op, mn, slots, byte, full, i, "none"), g)
               = Two(op, mn, slots, byte, full, i, g)
  <2> DEFINE b == E(mn, slots, "kB", byte, i, "none")
             d == E(mn, slots, "kD", full, i, "none")
             image(r) == <<r[1], Grouped(r[2], g)>>
  <2>1. /\ Grouped(b, g) = E(mn, slots, "kB", byte, i, g)
        /\ Grouped(d, g) = E(mn, slots, "kD", full, i, g)
    BY GroupedIs
  <2>2. Two(op, mn, slots, byte, full, i, "none") = {<<{op}, b>>, <<{Second(op)}, d>>}
    BY DEF Two
  <2> HIDE DEF b, d
  <2>3. image(<<{op}, b>>) = <<{op}, E(mn, slots, "kB", byte, i, g)>>
    BY <2>1
  <2>4. image(<<{Second(op)}, d>>) = <<{Second(op)}, E(mn, slots, "kD", full, i, g)>>
    BY <2>1
  <2>5. InGroup(Two(op, mn, slots, byte, full, i, "none"), g)
        = {image(r) : r \in Two(op, mn, slots, byte, full, i, "none")}
    BY DEF InGroup
  <2> HIDE DEF image
  <2> QED BY <2>2, <2>3, <2>4, <2>5 DEF Two
<1> QED BY <1>1, <1>2, <1>3

LEMMA PairIs ==
  ASSUME NEW op, NEW mn, NEW slots
  PROVE  Pair(op, mn, slots) = Two(op, mn, slots, "k0", "k0", 0, "none")
BY Paired

LEMMA PairImm ==
  ASSUME NEW op, NEW mn, NEW slots, NEW byte, NEW full, NEW i
  PROVE  WithImm(Pair(op, mn, slots), byte, full, i) = Two(op, mn, slots, byte, full, i, "none")
BY Paired

LEMMA PairGroup ==
  ASSUME NEW op, NEW mn, NEW slots, NEW g
  PROVE  InGroup(Pair(op, mn, slots), g) = Two(op, mn, slots, "k0", "k0", 0, g)
BY Paired

LEMMA PairImmGroup ==
  ASSUME NEW op, NEW mn, NEW slots, NEW byte, NEW full, NEW i, NEW g
  PROVE  InGroup(WithImm(Pair(op, mn, slots), byte, full, i), g)
           = Two(op, mn, slots, byte, full, i, g)
BY Paired

\* A row is good when its entry is and its opcodes are of one class.
LEMMA Row ==
  ASSUME NEW esc, NEW ops, NEW mn, NEW slots, NEW sz, NEW imm, NEW islot, NEW grp,
         NEW class, NEW modrm, Class(esc, ops, class, modrm),
         Entry(E(mn, slots, sz, imm, islot, grp), class, modrm), mn # "movd"
  PROVE  GoodEntry(esc, ops, E(mn, slots, sz, imm, islot, grp))
<1> DEFINE e == E(mn, slots, sz, imm, islot, grp)
<1>1. e.mn # "movd"
  BY DEF E
<1> HIDE DEF e
<1>2. \A p : Finalized(esc, p, e) = e
  BY <1>1 DEF Finalized
<1>3. Entry(e, class, modrm)
  BY DEF e
<1>4. GoodEntry(esc, ops, e)
  BY <1>2, <1>3 DEF Class, GoodEntry, Good
<1> QED BY <1>4 DEF e

LEMMA TwoRows ==
  ASSUME NEW esc, NEW op, NEW mn, NEW slots, NEW byte, NEW full, NEW islot, NEW grp,
         NEW c, NEW d, NEW modrm,
         Class(esc, {op}, c, modrm), Class(esc, {Second(op)}, d, modrm), mn # "movd",
         Entry(E(mn, slots, "kB", byte, islot, grp), c, modrm),
         Entry(E(mn, slots, "kD", full, islot, grp), d, modrm)
  PROVE  GoodRows(esc, Two(op, mn, slots, byte, full, islot, grp))
<1>1. GoodEntry(esc, {op}, E(mn, slots, "kB", byte, islot, grp))
  BY Row
<1>2. GoodEntry(esc, {Second(op)}, E(mn, slots, "kD", full, islot, grp))
  BY Row
<1> QED BY <1>1, <1>2 DEF GoodRows, GoodRow, Two

\* The rows that finalize_mnemonic() turns into movq.
LEMMA MovdRow ==
  ASSUME NEW ops, NEW slots, NEW sz, NEW imm, NEW islot, NEW grp, NEW class, NEW modrm,
         NEW to, to = IF slots[1] = "kXReg" THEN <<"kXReg", "kRm64f">> ELSE <<"kRm64f", "kXReg">>,
         Class(TRUE, ops, class, modrm),
         Entry(E("movd", slots, sz, imm, islot, grp), class, modrm),
         Entry(E("movq", to, "kQ", imm, islot, grp), class, modrm)
  PROVE  GoodEntry(TRUE, ops, E("movd", slots, sz, imm, islot, grp))
<1> DEFINE e == E("movd", slots, sz, imm, islot, grp)
<1>1. ASSUME NEW p, p.w PROVE Finalized(TRUE, p, e) = E("movq", to, "kQ", imm, islot, grp)
  <2>1. e.mn = "movd" /\ e.slots = slots
    BY DEF E
  <2>2. [e EXCEPT !.mn = "movq"] = E("movq", slots, sz, imm, islot, grp)
    BY DEF E
  <2>3. [E("movq", slots, sz, imm, islot, grp) EXCEPT !.sz = "kQ"]
        = E("movq", slots, "kQ", imm, islot, grp)
    BY DEF E
  <2>4. [E("movq", slots, "kQ", imm, islot, grp) EXCEPT !.slots = to]
        = E("movq", to, "kQ", imm, islot, grp)
    BY DEF E
  <2> HIDE DEF e
  <2>5. Finalized(TRUE, p, e) = [e EXCEPT !.mn = "movq", !.sz = "kQ", !.slots = to]
    BY <1>1, <2>1 DEF Finalized
  <2> QED BY <2>2, <2>3, <2>4, <2>5
<1>2. ASSUME NEW p, ~p.w PROVE Finalized(TRUE, p, e) = e
  BY <1>2 DEF Finalized
<1> HIDE DEF e
<1>3. Entry(e, class, modrm)
  BY DEF e
<1>4. \A p : Entry(Finalized(TRUE, p, e), class, modrm)
  BY <1>1, <1>2, <1>3
<1>5. GoodEntry(TRUE, ops, e)
  BY <1>4 DEF Class, GoodEntry, Good
<1> QED BY <1>5 DEF e

-----------------------------------------------------------------------------
(* The tables, row by row.                                                 *)

\* The eight families of build_primary().
LEMMA AluRows == GoodRows(FALSE, AluFamilies)
<1> USE DEF ImmClass, HasModrm, MapModrm, MapNoModrm, Tops, MapByte, MapFull, MapEscByte,
            Formed, Fit, Kept, Immediates, Reads, Fills, NotExecuted, Valued, MemorySlots,
            RmSlots, RegSlots, XmmRmSlots, GprRmSlots, RmReg, RegRm
<1> SUFFICES ASSUME NEW f \in 0 .. 7 PROVE GoodRows(FALSE, AluFamily(8 * f))
  BY DEF AluFamilies, GoodRows
<1>1. GoodRows(FALSE, Pair(8 * f, "alu", RmReg))
  <2>1. Class(FALSE, {8 * f}, "none", TRUE) /\ Class(FALSE, {Second(8 * f)}, "none", TRUE)
    BY DEF Class, Second
  <2>2. /\ Entry(E("alu", RmReg, "kB", "k0", 0, "none"), "none", TRUE)
        /\ Entry(E("alu", RmReg, "kD", "k0", 0, "none"), "none", TRUE)
    BY DEF Entry, E, RmReg
  <2> QED BY ZenonT(40), <2>1, <2>2, TwoRows, PairIs
<1>2. GoodRows(FALSE, Pair(8 * f + 2, "alu", RegRm))
  <2>1. Class(FALSE, {8 * f + 2}, "none", TRUE) /\ Class(FALSE, {Second(8 * f + 2)}, "none", TRUE)
    BY DEF Class, Second
  <2>2. /\ Entry(E("alu", RegRm, "kB", "k0", 0, "none"), "none", TRUE)
        /\ Entry(E("alu", RegRm, "kD", "k0", 0, "none"), "none", TRUE)
    BY DEF Entry, E, RegRm
  <2> QED BY ZenonT(40), <2>1, <2>2, TwoRows, PairIs
<1>3. GoodRows(FALSE, WithImm(Pair(8 * f + 4, "alu", <<"kAcc">>), "k8", "kSz4", 2))
  <2>1. Class(FALSE, {8 * f + 4}, "byte", FALSE) /\ Class(FALSE, {Second(8 * f + 4)}, "full", FALSE)
    BY DEF Class, Second
  <2>2. /\ Entry(E("alu", <<"kAcc">>, "kB", "k8", 2, "none"), "byte", FALSE)
        /\ Entry(E("alu", <<"kAcc">>, "kD", "kSz4", 2, "none"), "full", FALSE)
    BY DEF Entry, E
  <2>3. WithImm(Pair(8 * f + 4, "alu", <<"kAcc">>), "k8", "kSz4", 2)
        = Two(8 * f + 4, "alu", <<"kAcc">>, "k8", "kSz4", 2, "none")
    BY PairImm
  <2> QED BY ZenonT(40), <2>1, <2>2, <2>3, TwoRows
<1> QED BY <1>1, <1>2, <1>3 DEF GoodRows, AluFamily

\* build_primary().
LEMMA PrimaryRows == GoodRows(FALSE, kPrimary)
<1> USE DEF ImmClass, HasModrm, MapModrm, MapNoModrm, Tops, MapByte, MapFull, MapEscByte,
            Formed, Fit, Kept, Immediates, Reads, Fills, NotExecuted, Valued, MemorySlots,
            RmSlots, RegSlots, XmmRmSlots, GprRmSlots, RmReg, RegRm
<1> DEFINE pair1 == Pair(\h84, "test", RmReg)
           pair2 == Pair(\h86, "xchg", RmReg)
           pair3 == Pair(\h88, "mov", RmReg)
           pair4 == Pair(\h8A, "mov", RegRm)
           pair5 == WithImm(Pair(\hA0, "mov", <<"kAcc", "kMem">>), "k64", "k64", 2)
           pair6 == WithImm(Pair(\hA2, "mov", <<"kMem", "kAcc">>), "k64", "k64", 1)
           pair7 == WithImm(Pair(\hA8, "test", <<"kAcc">>), "k8", "kSz4", 2)
           pair8 == WithImm(Pair(\hC6, "mov", <<"kRm">>), "k8", "kSz4", 2)
           pair9 == WithImm(Pair(\hE4, "in", <<"kAcc">>), "k8", "k8", 2)
           pair10 == WithImm(Pair(\hE6, "out", <<"kNone", "kAcc">>), "k8", "k8", 1)
           pair11 == Pair(\hEC, "in", <<"kAcc", "kDx">>)
           pair12 == Pair(\hEE, "out", <<"kDx", "kAcc">>)
           pair13 == InGroup(WithImm(Pair(\h80, "grp1", <<"kRm">>), "k8", "kSz4", 2), "kGrp1")
           pair14 == InGroup(WithImm(Pair(\hC0, "shift", <<"kRm">>), "k8", "k8", 2), "kGrp2")
           pair15 == InGroup(Pair(\hD0, "shift", <<"kRm", "kOne">>), "kGrp2")
           pair16 == InGroup(Pair(\hD2, "shift", <<"kRm", "kCl">>), "kGrp2")
           pair17 == InGroup(Pair(\hF6, "grp3", <<"kRm">>), "kGrp3")
<1>1. GoodRows(FALSE, pair1)
  <2>1. Class(FALSE, {\h84}, "none", TRUE) /\ Class(FALSE, {Second(\h84)}, "none", TRUE)
    BY DEF Class, Second
  <2>2. /\ Entry(E("test", <<"kRm", "kReg">>, "kB", "k0", 0, "none"), "none", TRUE)
        /\ Entry(E("test", <<"kRm", "kReg">>, "kD", "k0", 0, "none"), "none", TRUE)
    BY DEF Entry, E
  <2> QED BY ZenonT(40), <2>1, <2>2, TwoRows, PairIs
<1>2. GoodRows(FALSE, pair2)
  <2>1. Class(FALSE, {\h86}, "none", TRUE) /\ Class(FALSE, {Second(\h86)}, "none", TRUE)
    BY DEF Class, Second
  <2>2. /\ Entry(E("xchg", <<"kRm", "kReg">>, "kB", "k0", 0, "none"), "none", TRUE)
        /\ Entry(E("xchg", <<"kRm", "kReg">>, "kD", "k0", 0, "none"), "none", TRUE)
    BY DEF Entry, E
  <2> QED BY ZenonT(40), <2>1, <2>2, TwoRows, PairIs
<1>3. GoodRows(FALSE, pair3)
  <2>1. Class(FALSE, {\h88}, "none", TRUE) /\ Class(FALSE, {Second(\h88)}, "none", TRUE)
    BY DEF Class, Second
  <2>2. /\ Entry(E("mov", <<"kRm", "kReg">>, "kB", "k0", 0, "none"), "none", TRUE)
        /\ Entry(E("mov", <<"kRm", "kReg">>, "kD", "k0", 0, "none"), "none", TRUE)
    BY DEF Entry, E
  <2> QED BY ZenonT(40), <2>1, <2>2, TwoRows, PairIs
<1>4. GoodRows(FALSE, pair4)
  <2>1. Class(FALSE, {\h8A}, "none", TRUE) /\ Class(FALSE, {Second(\h8A)}, "none", TRUE)
    BY DEF Class, Second
  <2>2. /\ Entry(E("mov", <<"kReg", "kRm">>, "kB", "k0", 0, "none"), "none", TRUE)
        /\ Entry(E("mov", <<"kReg", "kRm">>, "kD", "k0", 0, "none"), "none", TRUE)
    BY DEF Entry, E
  <2> QED BY ZenonT(40), <2>1, <2>2, TwoRows, PairIs
<1>5. GoodRows(FALSE, pair5)
  <2>1. Class(FALSE, {\hA0}, "moffs", FALSE) /\ Class(FALSE, {Second(\hA0)}, "moffs", FALSE)
    BY DEF Class, Second
  <2>2. /\ Entry(E("mov", <<"kAcc", "kMem">>, "kB", "k64", 2, "none"), "moffs", FALSE)
        /\ Entry(E("mov", <<"kAcc", "kMem">>, "kD", "k64", 2, "none"), "moffs", FALSE)
    BY DEF Entry, E
  <2>3. WithImm(Pair(\hA0, "mov", <<"kAcc", "kMem">>), "k64", "k64", 2) = Two(\hA0, "mov",
          <<"kAcc", "kMem">>, "k64", "k64", 2, "none")
    BY PairImm
  <2>4. GoodRows(FALSE, Two(\hA0, "mov", <<"kAcc", "kMem">>, "k64", "k64", 2, "none"))
    BY ZenonT(40), <2>1, <2>2, TwoRows
  <2> QED BY Zenon, <2>3, <2>4
<1>6. GoodRows(FALSE, pair6)
  <2>1. Class(FALSE, {\hA2}, "moffs", FALSE) /\ Class(FALSE, {Second(\hA2)}, "moffs", FALSE)
    BY DEF Class, Second
  <2>2. /\ Entry(E("mov", <<"kMem", "kAcc">>, "kB", "k64", 1, "none"), "moffs", FALSE)
        /\ Entry(E("mov", <<"kMem", "kAcc">>, "kD", "k64", 1, "none"), "moffs", FALSE)
    BY DEF Entry, E
  <2>3. WithImm(Pair(\hA2, "mov", <<"kMem", "kAcc">>), "k64", "k64", 1) = Two(\hA2, "mov",
          <<"kMem", "kAcc">>, "k64", "k64", 1, "none")
    BY PairImm
  <2>4. GoodRows(FALSE, Two(\hA2, "mov", <<"kMem", "kAcc">>, "k64", "k64", 1, "none"))
    BY ZenonT(40), <2>1, <2>2, TwoRows
  <2> QED BY Zenon, <2>3, <2>4
<1>7. GoodRows(FALSE, pair7)
  <2>1. Class(FALSE, {\hA8}, "byte", FALSE) /\ Class(FALSE, {Second(\hA8)}, "full", FALSE)
    BY DEF Class, Second
  <2>2. /\ Entry(E("test", <<"kAcc">>, "kB", "k8", 2, "none"), "byte", FALSE)
        /\ Entry(E("test", <<"kAcc">>, "kD", "kSz4", 2, "none"), "full", FALSE)
    BY DEF Entry, E
  <2>3. WithImm(Pair(\hA8, "test", <<"kAcc">>), "k8", "kSz4", 2) = Two(\hA8, "test", <<"kAcc">>,
          "k8", "kSz4", 2, "none")
    BY PairImm
  <2>4. GoodRows(FALSE, Two(\hA8, "test", <<"kAcc">>, "k8", "kSz4", 2, "none"))
    BY ZenonT(40), <2>1, <2>2, TwoRows
  <2> QED BY Zenon, <2>3, <2>4
<1>8. GoodRows(FALSE, pair8)
  <2>1. Class(FALSE, {\hC6}, "byte", TRUE) /\ Class(FALSE, {Second(\hC6)}, "full", TRUE)
    BY DEF Class, Second
  <2>2. /\ Entry(E("mov", <<"kRm">>, "kB", "k8", 2, "none"), "byte", TRUE)
        /\ Entry(E("mov", <<"kRm">>, "kD", "kSz4", 2, "none"), "full", TRUE)
    BY DEF Entry, E
  <2>3. WithImm(Pair(\hC6, "mov", <<"kRm">>), "k8", "kSz4", 2) = Two(\hC6, "mov", <<"kRm">>,
          "k8", "kSz4", 2, "none")
    BY PairImm
  <2>4. GoodRows(FALSE, Two(\hC6, "mov", <<"kRm">>, "k8", "kSz4", 2, "none"))
    BY ZenonT(40), <2>1, <2>2, TwoRows
  <2> QED BY Zenon, <2>3, <2>4
<1>9. GoodRows(FALSE, pair9)
  <2>1. Class(FALSE, {\hE4}, "byte", FALSE) /\ Class(FALSE, {Second(\hE4)}, "byte", FALSE)
    BY DEF Class, Second
  <2>2. /\ Entry(E("in", <<"kAcc">>, "kB", "k8", 2, "none"), "byte", FALSE)
        /\ Entry(E("in", <<"kAcc">>, "kD", "k8", 2, "none"), "byte", FALSE)
    BY DEF Entry, E
  <2>3. WithImm(Pair(\hE4, "in", <<"kAcc">>), "k8", "k8", 2) = Two(\hE4, "in", <<"kAcc">>, "k8",
          "k8", 2, "none")
    BY PairImm
  <2>4. GoodRows(FALSE, Two(\hE4, "in", <<"kAcc">>, "k8", "k8", 2, "none"))
    BY ZenonT(40), <2>1, <2>2, TwoRows
  <2> QED BY Zenon, <2>3, <2>4
<1>10. GoodRows(FALSE, pair10)
  <2>1. Class(FALSE, {\hE6}, "byte", FALSE) /\ Class(FALSE, {Second(\hE6)}, "byte", FALSE)
    BY DEF Class, Second
  <2>2. /\ Entry(E("out", <<"kNone", "kAcc">>, "kB", "k8", 1, "none"), "byte", FALSE)
        /\ Entry(E("out", <<"kNone", "kAcc">>, "kD", "k8", 1, "none"), "byte", FALSE)
    BY DEF Entry, E
  <2>3. WithImm(Pair(\hE6, "out", <<"kNone", "kAcc">>), "k8", "k8", 1) = Two(\hE6, "out",
          <<"kNone", "kAcc">>, "k8", "k8", 1, "none")
    BY PairImm
  <2>4. GoodRows(FALSE, Two(\hE6, "out", <<"kNone", "kAcc">>, "k8", "k8", 1, "none"))
    BY ZenonT(40), <2>1, <2>2, TwoRows
  <2> QED BY Zenon, <2>3, <2>4
<1>11. GoodRows(FALSE, pair11)
  <2>1. Class(FALSE, {\hEC}, "none", FALSE) /\ Class(FALSE, {Second(\hEC)}, "none", FALSE)
    BY DEF Class, Second
  <2>2. /\ Entry(E("in", <<"kAcc", "kDx">>, "kB", "k0", 0, "none"), "none", FALSE)
        /\ Entry(E("in", <<"kAcc", "kDx">>, "kD", "k0", 0, "none"), "none", FALSE)
    BY DEF Entry, E
  <2> QED BY ZenonT(40), <2>1, <2>2, TwoRows, PairIs
<1>12. GoodRows(FALSE, pair12)
  <2>1. Class(FALSE, {\hEE}, "none", FALSE) /\ Class(FALSE, {Second(\hEE)}, "none", FALSE)
    BY DEF Class, Second
  <2>2. /\ Entry(E("out", <<"kDx", "kAcc">>, "kB", "k0", 0, "none"), "none", FALSE)
        /\ Entry(E("out", <<"kDx", "kAcc">>, "kD", "k0", 0, "none"), "none", FALSE)
    BY DEF Entry, E
  <2> QED BY ZenonT(40), <2>1, <2>2, TwoRows, PairIs
<1>13. GoodRows(FALSE, pair13)
  <2>1. Class(FALSE, {\h80}, "byte", TRUE) /\ Class(FALSE, {Second(\h80)}, "full", TRUE)
    BY DEF Class, Second
  <2>2. /\ Entry(E("grp1", <<"kRm">>, "kB", "k8", 2, "kGrp1"), "byte", TRUE)
        /\ Entry(E("grp1", <<"kRm">>, "kD", "kSz4", 2, "kGrp1"), "full", TRUE)
    BY DEF Entry, E
  <2>3. InGroup(WithImm(Pair(\h80, "grp1", <<"kRm">>), "k8", "kSz4", 2), "kGrp1") = Two(\h80,
          "grp1", <<"kRm">>, "k8", "kSz4", 2, "kGrp1")
    BY PairImmGroup
  <2>4. GoodRows(FALSE, Two(\h80, "grp1", <<"kRm">>, "k8", "kSz4", 2, "kGrp1"))
    BY ZenonT(40), <2>1, <2>2, TwoRows
  <2> QED BY Zenon, <2>3, <2>4
<1>14. GoodRows(FALSE, pair14)
  <2>1. Class(FALSE, {\hC0}, "byte", TRUE) /\ Class(FALSE, {Second(\hC0)}, "byte", TRUE)
    BY DEF Class, Second
  <2>2. /\ Entry(E("shift", <<"kRm">>, "kB", "k8", 2, "kGrp2"), "byte", TRUE)
        /\ Entry(E("shift", <<"kRm">>, "kD", "k8", 2, "kGrp2"), "byte", TRUE)
    BY DEF Entry, E
  <2>3. InGroup(WithImm(Pair(\hC0, "shift", <<"kRm">>), "k8", "k8", 2), "kGrp2") = Two(\hC0,
          "shift", <<"kRm">>, "k8", "k8", 2, "kGrp2")
    BY PairImmGroup
  <2>4. GoodRows(FALSE, Two(\hC0, "shift", <<"kRm">>, "k8", "k8", 2, "kGrp2"))
    BY ZenonT(40), <2>1, <2>2, TwoRows
  <2> QED BY Zenon, <2>3, <2>4
<1>15. GoodRows(FALSE, pair15)
  <2>1. Class(FALSE, {\hD0}, "none", TRUE) /\ Class(FALSE, {Second(\hD0)}, "none", TRUE)
    BY DEF Class, Second
  <2>2. /\ Entry(E("shift", <<"kRm", "kOne">>, "kB", "k0", 0, "kGrp2"), "none", TRUE)
        /\ Entry(E("shift", <<"kRm", "kOne">>, "kD", "k0", 0, "kGrp2"), "none", TRUE)
    BY DEF Entry, E
  <2>3. InGroup(Pair(\hD0, "shift", <<"kRm", "kOne">>), "kGrp2") = Two(\hD0, "shift", <<"kRm",
          "kOne">>, "k0", "k0", 0, "kGrp2")
    BY PairGroup
  <2>4. GoodRows(FALSE, Two(\hD0, "shift", <<"kRm", "kOne">>, "k0", "k0", 0, "kGrp2"))
    BY ZenonT(40), <2>1, <2>2, TwoRows
  <2> QED BY Zenon, <2>3, <2>4
<1>16. GoodRows(FALSE, pair16)
  <2>1. Class(FALSE, {\hD2}, "none", TRUE) /\ Class(FALSE, {Second(\hD2)}, "none", TRUE)
    BY DEF Class, Second
  <2>2. /\ Entry(E("shift", <<"kRm", "kCl">>, "kB", "k0", 0, "kGrp2"), "none", TRUE)
        /\ Entry(E("shift", <<"kRm", "kCl">>, "kD", "k0", 0, "kGrp2"), "none", TRUE)
    BY DEF Entry, E
  <2>3. InGroup(Pair(\hD2, "shift", <<"kRm", "kCl">>), "kGrp2") = Two(\hD2, "shift", <<"kRm",
          "kCl">>, "k0", "k0", 0, "kGrp2")
    BY PairGroup
  <2>4. GoodRows(FALSE, Two(\hD2, "shift", <<"kRm", "kCl">>, "k0", "k0", 0, "kGrp2"))
    BY ZenonT(40), <2>1, <2>2, TwoRows
  <2> QED BY Zenon, <2>3, <2>4
<1>17. GoodRows(FALSE, pair17)
  <2>1. Class(FALSE, {\hF6}, "test8", TRUE) /\ Class(FALSE, {Second(\hF6)}, "test", TRUE)
    BY DEF Class, Second
  <2>2. /\ Entry(E("grp3", <<"kRm">>, "kB", "k0", 0, "kGrp3"), "test8", TRUE)
        /\ Entry(E("grp3", <<"kRm">>, "kD", "k0", 0, "kGrp3"), "test", TRUE)
    BY DEF Entry, E
  <2>3. InGroup(Pair(\hF6, "grp3", <<"kRm">>), "kGrp3") = Two(\hF6, "grp3", <<"kRm">>, "k0",
          "k0", 0, "kGrp3")
    BY PairGroup
  <2>4. GoodRows(FALSE, Two(\hF6, "grp3", <<"kRm">>, "k0", "k0", 0, "kGrp3"))
    BY ZenonT(40), <2>1, <2>2, TwoRows
  <2> QED BY Zenon, <2>3, <2>4
<1> DEFINE row18 == <<{\hFE}, Grouped(Ent("incdec", <<"kRm">>, "kB"), "kGrp4")>>
           row19 == <<{\hFF}, Grouped(Ent("grp5", <<"kRm">>, "kD"), "kGrp5")>>
           row20 == <<{\h83}, Grouped(Imm(Ent("grp1", <<"kRm">>, "kD"), "k8S", 2), "kGrp1")>>
           row21 == <<\h50 .. \h57, Ent("push", <<"kOpr">>, "kP")>>
           row22 == <<\h58 .. \h5F, Ent("pop", <<"kOpr">>, "kP")>>
           row23 == <<{\h63}, Ent("movsx", <<"kReg", "kRm32">>, "kD")>>
           row24 == <<{\h68}, Imm(Ent("push", <<>>, "kP"), "kSz4", 1)>>
           row25 == <<{\h6A}, Imm(Ent("push", <<>>, "kP"), "k8S", 1)>>
           row26 == <<{\h69}, Imm(Ent("imul", RegRm, "kD"), "kSz4", 3)>>
           row27 == <<{\h6B}, Imm(Ent("imul", RegRm, "kD"), "k8S", 3)>>
           row28 == <<\h70 .. \h7F, Imm(Plain("jcc"), "k8S", 1)>>
           row29 == <<{\h8C}, Ent("mov", <<"kRm", "kSreg">>, "kD")>>
           row30 == <<{\h8D}, Ent("lea", <<"kReg", "kMem">>, "kD")>>
           row31 == <<{\h8E}, Ent("mov", <<"kSreg", "kRm">>, "kD")>>
           row32 == <<{\h8F}, Ent("pop", <<"kRm">>, "kP")>>
           row33 == <<\h91 .. \h97, Ent("xchg", <<"kOpr", "kAcc">>, "kD")>>
           row34 == <<{\h90}, Plain("nop")>>
           row35 == <<{\h98, \h99}, Plain("widen")>>
           row36 == <<(\hA4 .. \hA7) \cup (\hAA .. \hAF), Plain("string")>>
           row37 == <<\hB0 .. \hB7, Imm(Ent("mov", <<"kOpr">>, "kB"), "k8", 2)>>
           row38 == <<\hB8 .. \hBF, Imm(Ent("mov", <<"kOpr">>, "kD"), "kSz4", 2)>>
           row39 == <<{\hC2}, Imm(Ent("ret", <<>>, "kQ"), "k16", 1)>>
           row40 == <<{\hC3}, Plain("ret")>>
           row41 == <<{\hC9}, Plain("leave")>>
           row42 == <<{\hCF}, Ent("iretq", <<>>, "kQ")>>
           row43 == <<\hE0 .. \hE3, Imm(Ent("loop", <<>>, "kQ"), "k8S", 1)>>
           row44 == <<{\hE8}, Imm(Ent("call", <<>>, "kQ"), "k32S", 1)>>
           row45 == <<{\hE9}, Imm(Ent("jmp", <<>>, "kQ"), "k32S", 1)>>
           row46 == <<{\hEB}, Imm(Ent("jmp", <<>>, "kQ"), "k8S", 1)>>
           row47 == <<{\hF4}, Plain("hlt")>>
           row48 == <<\hFA .. \hFD, Plain("flag")>>
           singles == {row18, row19, row20, row21, row22, row23, row24, row25, row26, row27,
                       row28, row29, row30, row31, row32, row33, row34, row35, row36, row37,
                       row38, row39, row40, row41, row42, row43, row44, row45, row46, row47,
                       row48}
<1>18. GoodRow(FALSE, row18)
  <2>1. Class(FALSE, {\hFE}, "none", TRUE)
    BY DEF Class
  <2>2. Entry(E("incdec", <<"kRm">>, "kB", "k0", 0, "kGrp4"), "none", TRUE)
    BY DEF Entry, E
  <2>3. Grouped(Ent("incdec", <<"kRm">>, "kB"), "kGrp4") = E("incdec", <<"kRm">>, "kB", "k0", 0,
        "kGrp4")
    BY GroupedEnt
  <2> QED BY Zenon, <2>1, <2>2, <2>3, Row DEF GoodRow
<1>19. GoodRow(FALSE, row19)
  <2>1. Class(FALSE, {\hFF}, "none", TRUE)
    BY DEF Class
  <2>2. Entry(E("grp5", <<"kRm">>, "kD", "k0", 0, "kGrp5"), "none", TRUE)
    BY DEF Entry, E
  <2>3. Grouped(Ent("grp5", <<"kRm">>, "kD"), "kGrp5") = E("grp5", <<"kRm">>, "kD", "k0", 0,
        "kGrp5")
    BY GroupedEnt
  <2> QED BY Zenon, <2>1, <2>2, <2>3, Row DEF GoodRow
<1>20. GoodRow(FALSE, row20)
  <2>1. Class(FALSE, {\h83}, "byte", TRUE)
    BY DEF Class
  <2>2. Entry(E("grp1", <<"kRm">>, "kD", "k8S", 2, "kGrp1"), "byte", TRUE)
    BY DEF Entry, E
  <2>3. Grouped(Imm(Ent("grp1", <<"kRm">>, "kD"), "k8S", 2), "kGrp1") = E("grp1", <<"kRm">>,
        "kD", "k8S", 2, "kGrp1")
    BY GroupedImm
  <2> QED BY Zenon, <2>1, <2>2, <2>3, Row DEF GoodRow
<1>21. GoodRow(FALSE, row21)
  <2>1. Class(FALSE, \h50 .. \h57, "none", FALSE)
    BY DEF Class
  <2>2. Entry(E("push", <<"kOpr">>, "kP", "k0", 0, "none"), "none", FALSE)
    BY DEF Entry, E
  <2> QED BY Zenon, <2>1, <2>2, Row, EntIs DEF GoodRow
<1>22. GoodRow(FALSE, row22)
  <2>1. Class(FALSE, \h58 .. \h5F, "none", FALSE)
    BY DEF Class
  <2>2. Entry(E("pop", <<"kOpr">>, "kP", "k0", 0, "none"), "none", FALSE)
    BY DEF Entry, E
  <2> QED BY Zenon, <2>1, <2>2, Row, EntIs DEF GoodRow
<1>23. GoodRow(FALSE, row23)
  <2>1. Class(FALSE, {\h63}, "none", TRUE)
    BY DEF Class
  <2>2. Entry(E("movsx", <<"kReg", "kRm32">>, "kD", "k0", 0, "none"), "none", TRUE)
    BY DEF Entry, E
  <2> QED BY Zenon, <2>1, <2>2, Row, EntIs DEF GoodRow
<1>24. GoodRow(FALSE, row24)
  <2>1. Class(FALSE, {\h68}, "full", FALSE)
    BY DEF Class
  <2>2. Entry(E("push", <<>>, "kP", "kSz4", 1, "none"), "full", FALSE)
    BY DEF Entry, E
  <2>3. Imm(Ent("push", <<>>, "kP"), "kSz4", 1) = E("push", <<>>, "kP", "kSz4", 1, "none")
    BY ImmEnt
  <2> QED BY Zenon, <2>1, <2>2, <2>3, Row DEF GoodRow
<1>25. GoodRow(FALSE, row25)
  <2>1. Class(FALSE, {\h6A}, "byte", FALSE)
    BY DEF Class
  <2>2. Entry(E("push", <<>>, "kP", "k8S", 1, "none"), "byte", FALSE)
    BY DEF Entry, E
  <2>3. Imm(Ent("push", <<>>, "kP"), "k8S", 1) = E("push", <<>>, "kP", "k8S", 1, "none")
    BY ImmEnt
  <2> QED BY Zenon, <2>1, <2>2, <2>3, Row DEF GoodRow
<1>26. GoodRow(FALSE, row26)
  <2>1. Class(FALSE, {\h69}, "full", TRUE)
    BY DEF Class
  <2>2. Entry(E("imul", <<"kReg", "kRm">>, "kD", "kSz4", 3, "none"), "full", TRUE)
    BY DEF Entry, E
  <2>3. Imm(Ent("imul", RegRm, "kD"), "kSz4", 3) = E("imul", <<"kReg", "kRm">>, "kD", "kSz4", 3,
        "none")
    BY ImmEnt
  <2> QED BY Zenon, <2>1, <2>2, <2>3, Row DEF GoodRow
<1>27. GoodRow(FALSE, row27)
  <2>1. Class(FALSE, {\h6B}, "byte", TRUE)
    BY DEF Class
  <2>2. Entry(E("imul", <<"kReg", "kRm">>, "kD", "k8S", 3, "none"), "byte", TRUE)
    BY DEF Entry, E
  <2>3. Imm(Ent("imul", RegRm, "kD"), "k8S", 3) = E("imul", <<"kReg", "kRm">>, "kD", "k8S", 3,
        "none")
    BY ImmEnt
  <2> QED BY Zenon, <2>1, <2>2, <2>3, Row DEF GoodRow
<1>28. GoodRow(FALSE, row28)
  <2>1. Class(FALSE, \h70 .. \h7F, "byte", FALSE)
    BY DEF Class
  <2>2. Entry(E("jcc", <<>>, "kD", "k8S", 1, "none"), "byte", FALSE)
    BY DEF Entry, E
  <2>3. Imm(Plain("jcc"), "k8S", 1) = E("jcc", <<>>, "kD", "k8S", 1, "none")
    BY ImmEnt DEF Plain
  <2> QED BY Zenon, <2>1, <2>2, <2>3, Row DEF GoodRow
<1>29. GoodRow(FALSE, row29)
  <2>1. Class(FALSE, {\h8C}, "none", TRUE)
    BY DEF Class
  <2>2. Entry(E("mov", <<"kRm", "kSreg">>, "kD", "k0", 0, "none"), "none", TRUE)
    BY DEF Entry, E
  <2> QED BY Zenon, <2>1, <2>2, Row, EntIs DEF GoodRow
<1>30. GoodRow(FALSE, row30)
  <2>1. Class(FALSE, {\h8D}, "none", TRUE)
    BY DEF Class
  <2>2. Entry(E("lea", <<"kReg", "kMem">>, "kD", "k0", 0, "none"), "none", TRUE)
    BY DEF Entry, E
  <2> QED BY Zenon, <2>1, <2>2, Row, EntIs DEF GoodRow
<1>31. GoodRow(FALSE, row31)
  <2>1. Class(FALSE, {\h8E}, "none", TRUE)
    BY DEF Class
  <2>2. Entry(E("mov", <<"kSreg", "kRm">>, "kD", "k0", 0, "none"), "none", TRUE)
    BY DEF Entry, E
  <2> QED BY Zenon, <2>1, <2>2, Row, EntIs DEF GoodRow
<1>32. GoodRow(FALSE, row32)
  <2>1. Class(FALSE, {\h8F}, "none", TRUE)
    BY DEF Class
  <2>2. Entry(E("pop", <<"kRm">>, "kP", "k0", 0, "none"), "none", TRUE)
    BY DEF Entry, E
  <2> QED BY Zenon, <2>1, <2>2, Row, EntIs DEF GoodRow
<1>33. GoodRow(FALSE, row33)
  <2>1. Class(FALSE, \h91 .. \h97, "none", FALSE)
    BY DEF Class
  <2>2. Entry(E("xchg", <<"kOpr", "kAcc">>, "kD", "k0", 0, "none"), "none", FALSE)
    BY DEF Entry, E
  <2> QED BY Zenon, <2>1, <2>2, Row, EntIs DEF GoodRow
<1>34. GoodRow(FALSE, row34)
  <2>1. Class(FALSE, {\h90}, "none", FALSE)
    BY DEF Class
  <2>2. Entry(E("nop", <<>>, "kD", "k0", 0, "none"), "none", FALSE)
    BY DEF Entry, E
  <2> QED BY Zenon, <2>1, <2>2, Row, PlainIs DEF GoodRow
<1>35. GoodRow(FALSE, row35)
  <2>1. Class(FALSE, {\h98, \h99}, "none", FALSE)
    BY DEF Class
  <2>2. Entry(E("widen", <<>>, "kD", "k0", 0, "none"), "none", FALSE)
    BY DEF Entry, E
  <2> QED BY Zenon, <2>1, <2>2, Row, PlainIs DEF GoodRow
<1>36. GoodRow(FALSE, row36)
  <2>1. Class(FALSE, (\hA4 .. \hA7) \cup (\hAA .. \hAF), "none", FALSE)
    BY DEF Class
  <2>2. Entry(E("string", <<>>, "kD", "k0", 0, "none"), "none", FALSE)
    BY DEF Entry, E
  <2> QED BY Zenon, <2>1, <2>2, Row, PlainIs DEF GoodRow
<1>37. GoodRow(FALSE, row37)
  <2>1. Class(FALSE, \hB0 .. \hB7, "byte", FALSE)
    BY DEF Class
  <2>2. Entry(E("mov", <<"kOpr">>, "kB", "k8", 2, "none"), "byte", FALSE)
    BY DEF Entry, E
  <2>3. Imm(Ent("mov", <<"kOpr">>, "kB"), "k8", 2) = E("mov", <<"kOpr">>, "kB", "k8", 2, "none")
    BY ImmEnt
  <2> QED BY Zenon, <2>1, <2>2, <2>3, Row DEF GoodRow
<1>38. GoodRow(FALSE, row38)
  <2>1. Class(FALSE, \hB8 .. \hBF, "wide", FALSE)
    BY DEF Class
  <2>2. Entry(E("mov", <<"kOpr">>, "kD", "kSz4", 2, "none"), "wide", FALSE)
    BY DEF Entry, E
  <2>3. Imm(Ent("mov", <<"kOpr">>, "kD"), "kSz4", 2) = E("mov", <<"kOpr">>, "kD", "kSz4", 2,
        "none")
    BY ImmEnt
  <2> QED BY Zenon, <2>1, <2>2, <2>3, Row DEF GoodRow
<1>39. GoodRow(FALSE, row39)
  <2>1. Class(FALSE, {\hC2}, "ret", FALSE)
    BY DEF Class
  <2>2. Entry(E("ret", <<>>, "kQ", "k16", 1, "none"), "ret", FALSE)
    BY DEF Entry, E
  <2>3. Imm(Ent("ret", <<>>, "kQ"), "k16", 1) = E("ret", <<>>, "kQ", "k16", 1, "none")
    BY ImmEnt
  <2> QED BY Zenon, <2>1, <2>2, <2>3, Row DEF GoodRow
<1>40. GoodRow(FALSE, row40)
  <2>1. Class(FALSE, {\hC3}, "none", FALSE)
    BY DEF Class
  <2>2. Entry(E("ret", <<>>, "kD", "k0", 0, "none"), "none", FALSE)
    BY DEF Entry, E
  <2> QED BY Zenon, <2>1, <2>2, Row, PlainIs DEF GoodRow
<1>41. GoodRow(FALSE, row41)
  <2>1. Class(FALSE, {\hC9}, "none", FALSE)
    BY DEF Class
  <2>2. Entry(E("leave", <<>>, "kD", "k0", 0, "none"), "none", FALSE)
    BY DEF Entry, E
  <2> QED BY Zenon, <2>1, <2>2, Row, PlainIs DEF GoodRow
<1>42. GoodRow(FALSE, row42)
  <2>1. Class(FALSE, {\hCF}, "none", FALSE)
    BY DEF Class
  <2>2. Entry(E("iretq", <<>>, "kQ", "k0", 0, "none"), "none", FALSE)
    BY DEF Entry, E
  <2> QED BY Zenon, <2>1, <2>2, Row, EntIs DEF GoodRow
<1>43. GoodRow(FALSE, row43)
  <2>1. Class(FALSE, \hE0 .. \hE3, "byte", FALSE)
    BY DEF Class
  <2>2. Entry(E("loop", <<>>, "kQ", "k8S", 1, "none"), "byte", FALSE)
    BY DEF Entry, E
  <2>3. Imm(Ent("loop", <<>>, "kQ"), "k8S", 1) = E("loop", <<>>, "kQ", "k8S", 1, "none")
    BY ImmEnt
  <2> QED BY Zenon, <2>1, <2>2, <2>3, Row DEF GoodRow
<1>44. GoodRow(FALSE, row44)
  <2>1. Class(FALSE, {\hE8}, "rel", FALSE)
    BY DEF Class
  <2>2. Entry(E("call", <<>>, "kQ", "k32S", 1, "none"), "rel", FALSE)
    BY DEF Entry, E
  <2>3. Imm(Ent("call", <<>>, "kQ"), "k32S", 1) = E("call", <<>>, "kQ", "k32S", 1, "none")
    BY ImmEnt
  <2> QED BY Zenon, <2>1, <2>2, <2>3, Row DEF GoodRow
<1>45. GoodRow(FALSE, row45)
  <2>1. Class(FALSE, {\hE9}, "rel", FALSE)
    BY DEF Class
  <2>2. Entry(E("jmp", <<>>, "kQ", "k32S", 1, "none"), "rel", FALSE)
    BY DEF Entry, E
  <2>3. Imm(Ent("jmp", <<>>, "kQ"), "k32S", 1) = E("jmp", <<>>, "kQ", "k32S", 1, "none")
    BY ImmEnt
  <2> QED BY Zenon, <2>1, <2>2, <2>3, Row DEF GoodRow
<1>46. GoodRow(FALSE, row46)
  <2>1. Class(FALSE, {\hEB}, "byte", FALSE)
    BY DEF Class
  <2>2. Entry(E("jmp", <<>>, "kQ", "k8S", 1, "none"), "byte", FALSE)
    BY DEF Entry, E
  <2>3. Imm(Ent("jmp", <<>>, "kQ"), "k8S", 1) = E("jmp", <<>>, "kQ", "k8S", 1, "none")
    BY ImmEnt
  <2> QED BY Zenon, <2>1, <2>2, <2>3, Row DEF GoodRow
<1>47. GoodRow(FALSE, row47)
  <2>1. Class(FALSE, {\hF4}, "none", FALSE)
    BY DEF Class
  <2>2. Entry(E("hlt", <<>>, "kD", "k0", 0, "none"), "none", FALSE)
    BY DEF Entry, E
  <2> QED BY Zenon, <2>1, <2>2, Row, PlainIs DEF GoodRow
<1>48. GoodRow(FALSE, row48)
  <2>1. Class(FALSE, \hFA .. \hFD, "none", FALSE)
    BY DEF Class
  <2>2. Entry(E("flag", <<>>, "kD", "k0", 0, "none"), "none", FALSE)
    BY DEF Entry, E
  <2> QED BY Zenon, <2>1, <2>2, Row, PlainIs DEF GoodRow
<1>49. kPrimary =
       AluFamilies \cup pair1 \cup pair2 \cup pair3 \cup pair4 \cup pair5 \cup pair6
       \cup pair7 \cup pair8 \cup pair9 \cup pair10 \cup pair11 \cup pair12 \cup pair13
       \cup pair14 \cup pair15 \cup pair16 \cup pair17 \cup singles
  BY DEF kPrimary
<1> HIDE DEF row18, row19, row20, row21, row22, row23, row24, row25, row26, row27, row28, row29,
             row30, row31, row32, row33, row34, row35, row36, row37, row38, row39, row40, row41,
             row42, row43, row44, row45, row46, row47, row48
<1>50. GoodRows(FALSE, singles)
  BY Zenon, <1>18, <1>19, <1>20, <1>21, <1>22, <1>23, <1>24, <1>25, <1>26, <1>27, <1>28, <1>29, <1>30,
     <1>31, <1>32, <1>33, <1>34, <1>35, <1>36, <1>37, <1>38, <1>39, <1>40, <1>41, <1>42, <1>43,
     <1>44, <1>45, <1>46, <1>47, <1>48 DEF GoodRows
<1> HIDE DEF singles, pair1, pair2, pair3, pair4, pair5, pair6, pair7, pair8, pair9, pair10,
             pair11, pair12, pair13, pair14, pair15, pair16, pair17
<1> QED BY <1>1, <1>2, <1>3, <1>4, <1>5, <1>6, <1>7, <1>8, <1>9, <1>10, <1>11, <1>12, <1>13,
     <1>14, <1>15, <1>16, <1>17, <1>49, <1>50, AluRows DEF GoodRows

\* build_esc0().
LEMMA NoneRows == GoodRows(TRUE, kEscNone)
<1> USE DEF ImmClass, HasModrm, MapModrm, MapNoModrm, Tops, MapByte, MapFull, MapEscByte,
            Formed, Fit, Kept, Immediates, Reads, Fills, NotExecuted, Valued, MemorySlots,
            RmSlots, RegSlots, XmmRmSlots, GprRmSlots, RmReg, RegRm
<1> DEFINE pair1 == Pair(\hB0, "cmpxchg", RmReg)
           pair2 == Pair(\hC0, "xadd", RmReg)
<1>1. GoodRows(TRUE, pair1)
  <2>1. Class(TRUE, {\hB0}, "none", TRUE) /\ Class(TRUE, {Second(\hB0)}, "none", TRUE)
    BY DEF Class, Second
  <2>2. /\ Entry(E("cmpxchg", <<"kRm", "kReg">>, "kB", "k0", 0, "none"), "none", TRUE)
        /\ Entry(E("cmpxchg", <<"kRm", "kReg">>, "kD", "k0", 0, "none"), "none", TRUE)
    BY DEF Entry, E
  <2> QED BY ZenonT(40), <2>1, <2>2, TwoRows, PairIs
<1>2. GoodRows(TRUE, pair2)
  <2>1. Class(TRUE, {\hC0}, "none", TRUE) /\ Class(TRUE, {Second(\hC0)}, "none", TRUE)
    BY DEF Class, Second
  <2>2. /\ Entry(E("xadd", <<"kRm", "kReg">>, "kB", "k0", 0, "none"), "none", TRUE)
        /\ Entry(E("xadd", <<"kRm", "kReg">>, "kD", "k0", 0, "none"), "none", TRUE)
    BY DEF Entry, E
  <2> QED BY ZenonT(40), <2>1, <2>2, TwoRows, PairIs
<1> DEFINE row3 == <<{\h05}, Plain("syscall")>>
           row4 == <<{\h07}, Plain("sysret")>>
           row5 == <<{\h01}, Grouped(Ent("grp6", <<"kMem">>, "kQ"), "kGrp6")>>
           row6 == <<{\h10, \h28}, XRegRm>>
           row7 == <<{\h11, \h29}, XRmReg>>
           row8 == <<\h18 .. \h1F, Ent("nop", <<"kRm">>, "kD")>>
           row9 == <<{\h20}, Ent("mov", <<"kRm", "kCr">>, "kQ")>>
           row10 == <<{\h21}, Ent("mov", <<"kRm", "kDr">>, "kQ")>>
           row11 == <<{\h22}, Ent("mov", <<"kCr", "kRm">>, "kQ")>>
           row12 == <<{\h23}, Ent("mov", <<"kDr", "kRm">>, "kQ")>>
           row13 == <<\h30 .. \h32, Plain("msr")>>
           row14 == <<\h40 .. \h4F, Ent("cmov", RegRm, "kD")>>
           row15 == <<\h80 .. \h8F, Imm(Plain("jcc"), "k32S", 1)>>
           row16 == <<\h90 .. \h9F, Ent("setcc", <<"kRm">>, "kB")>>
           row17 == <<{\hA0, \hA8}, Ent("push", <<>>, "kQ")>>
           row18 == <<{\hA1, \hA9}, Ent("pop", <<>>, "kQ")>>
           row19 == <<{\hA2}, Plain("cpuid")>>
           row20 == <<{\hA3, \hAB, \hB3, \hBB}, Ent("bt", RmReg, "kD")>>
           row21 == <<{\hBA}, Grouped(Imm(Ent("bt", <<"kRm">>, "kD"), "k8", 2), "kGrp8")>>
           row22 == <<{\hA4, \hAC}, Imm(Ent("shld", RmReg, "kD"), "k8", 3)>>
           row23 == <<{\hA5, \hAD}, Ent("shld", <<"kRm", "kReg", "kCl">>, "kD")>>
           row24 == <<{\hAF}, Ent("imul", RegRm, "kD")>>
           row25 == <<{\hB6}, Ent("movzx", <<"kReg", "kRm8">>, "kD")>>
           row26 == <<{\hB7}, Ent("movzx", <<"kReg", "kRm16">>, "kD")>>
           row27 == <<{\hBE}, Ent("movsx", <<"kReg", "kRm8">>, "kD")>>
           row28 == <<{\hBF}, Ent("movsx", <<"kReg", "kRm16">>, "kD")>>
           row29 == <<{\hBC, \hBD}, Ent("scan", RegRm, "kD")>>
           row30 == <<{\hC7}, Grouped(Ent("rdrand", <<"kReg">>, "kD"), "kGrp9")>>
           row31 == <<\hC8 .. \hCF, Ent("bswap", <<"kOpr">>, "kD")>>
           row32 == <<{\hAE}, Grouped(Ent("grpAe", <<"kRm">>, "kV"), "kGrpAe")>>
           singles == {row3, row4, row5, row6, row7, row8, row9, row10, row11, row12, row13,
                       row14, row15, row16, row17, row18, row19, row20, row21, row22, row23,
                       row24, row25, row26, row27, row28, row29, row30, row31, row32}
<1>3. GoodRow(TRUE, row3)
  <2>1. Class(TRUE, {\h05}, "none", FALSE)
    BY DEF Class
  <2>2. Entry(E("syscall", <<>>, "kD", "k0", 0, "none"), "none", FALSE)
    BY DEF Entry, E
  <2> QED BY Zenon, <2>1, <2>2, Row, PlainIs DEF GoodRow
<1>4. GoodRow(TRUE, row4)
  <2>1. Class(TRUE, {\h07}, "none", FALSE)
    BY DEF Class
  <2>2. Entry(E("sysret", <<>>, "kD", "k0", 0, "none"), "none", FALSE)
    BY DEF Entry, E
  <2> QED BY Zenon, <2>1, <2>2, Row, PlainIs DEF GoodRow
<1>5. GoodRow(TRUE, row5)
  <2>1. Class(TRUE, {\h01}, "none", TRUE)
    BY DEF Class
  <2>2. Entry(E("grp6", <<"kMem">>, "kQ", "k0", 0, "kGrp6"), "none", TRUE)
    BY DEF Entry, E
  <2>3. Grouped(Ent("grp6", <<"kMem">>, "kQ"), "kGrp6") = E("grp6", <<"kMem">>, "kQ", "k0", 0,
        "kGrp6")
    BY GroupedEnt
  <2> QED BY Zenon, <2>1, <2>2, <2>3, Row DEF GoodRow
<1>6. GoodRow(TRUE, row6)
  <2>1. Class(TRUE, {\h10, \h28}, "none", TRUE)
    BY DEF Class
  <2>2. Entry(E("sse", <<"kXReg", "kXRm">>, "kV", "k0", 0, "none"), "none", TRUE)
    BY DEF Entry, E
  <2>3. XRegRm = E("sse", <<"kXReg", "kXRm">>, "kV", "k0", 0, "none")
    BY EntIs DEF XRegRm
  <2> QED BY Zenon, <2>1, <2>2, <2>3, Row DEF GoodRow
<1>7. GoodRow(TRUE, row7)
  <2>1. Class(TRUE, {\h11, \h29}, "none", TRUE)
    BY DEF Class
  <2>2. Entry(E("sse", <<"kXRm", "kXReg">>, "kV", "k0", 0, "none"), "none", TRUE)
    BY DEF Entry, E
  <2>3. XRmReg = E("sse", <<"kXRm", "kXReg">>, "kV", "k0", 0, "none")
    BY EntIs DEF XRmReg
  <2> QED BY Zenon, <2>1, <2>2, <2>3, Row DEF GoodRow
<1>8. GoodRow(TRUE, row8)
  <2>1. Class(TRUE, \h18 .. \h1F, "none", TRUE)
    BY DEF Class
  <2>2. Entry(E("nop", <<"kRm">>, "kD", "k0", 0, "none"), "none", TRUE)
    BY DEF Entry, E
  <2> QED BY Zenon, <2>1, <2>2, Row, EntIs DEF GoodRow
<1>9. GoodRow(TRUE, row9)
  <2>1. Class(TRUE, {\h20}, "none", TRUE)
    BY DEF Class
  <2>2. Entry(E("mov", <<"kRm", "kCr">>, "kQ", "k0", 0, "none"), "none", TRUE)
    BY DEF Entry, E
  <2> QED BY Zenon, <2>1, <2>2, Row, EntIs DEF GoodRow
<1>10. GoodRow(TRUE, row10)
  <2>1. Class(TRUE, {\h21}, "none", TRUE)
    BY DEF Class
  <2>2. Entry(E("mov", <<"kRm", "kDr">>, "kQ", "k0", 0, "none"), "none", TRUE)
    BY DEF Entry, E
  <2> QED BY Zenon, <2>1, <2>2, Row, EntIs DEF GoodRow
<1>11. GoodRow(TRUE, row11)
  <2>1. Class(TRUE, {\h22}, "none", TRUE)
    BY DEF Class
  <2>2. Entry(E("mov", <<"kCr", "kRm">>, "kQ", "k0", 0, "none"), "none", TRUE)
    BY DEF Entry, E
  <2> QED BY Zenon, <2>1, <2>2, Row, EntIs DEF GoodRow
<1>12. GoodRow(TRUE, row12)
  <2>1. Class(TRUE, {\h23}, "none", TRUE)
    BY DEF Class
  <2>2. Entry(E("mov", <<"kDr", "kRm">>, "kQ", "k0", 0, "none"), "none", TRUE)
    BY DEF Entry, E
  <2> QED BY Zenon, <2>1, <2>2, Row, EntIs DEF GoodRow
<1>13. GoodRow(TRUE, row13)
  <2>1. Class(TRUE, \h30 .. \h32, "none", FALSE)
    BY DEF Class
  <2>2. Entry(E("msr", <<>>, "kD", "k0", 0, "none"), "none", FALSE)
    BY DEF Entry, E
  <2> QED BY Zenon, <2>1, <2>2, Row, PlainIs DEF GoodRow
<1>14. GoodRow(TRUE, row14)
  <2>1. Class(TRUE, \h40 .. \h4F, "none", TRUE)
    BY DEF Class
  <2>2. Entry(E("cmov", <<"kReg", "kRm">>, "kD", "k0", 0, "none"), "none", TRUE)
    BY DEF Entry, E
  <2> QED BY Zenon, <2>1, <2>2, Row, EntIs DEF GoodRow
<1>15. GoodRow(TRUE, row15)
  <2>1. Class(TRUE, \h80 .. \h8F, "rel", FALSE)
    BY DEF Class
  <2>2. Entry(E("jcc", <<>>, "kD", "k32S", 1, "none"), "rel", FALSE)
    BY DEF Entry, E
  <2>3. Imm(Plain("jcc"), "k32S", 1) = E("jcc", <<>>, "kD", "k32S", 1, "none")
    BY ImmEnt DEF Plain
  <2> QED BY Zenon, <2>1, <2>2, <2>3, Row DEF GoodRow
<1>16. GoodRow(TRUE, row16)
  <2>1. Class(TRUE, \h90 .. \h9F, "none", TRUE)
    BY DEF Class
  <2>2. Entry(E("setcc", <<"kRm">>, "kB", "k0", 0, "none"), "none", TRUE)
    BY DEF Entry, E
  <2> QED BY Zenon, <2>1, <2>2, Row, EntIs DEF GoodRow
<1>17. GoodRow(TRUE, row17)
  <2>1. Class(TRUE, {\hA0, \hA8}, "none", FALSE)
    BY DEF Class
  <2>2. Entry(E("push", <<>>, "kQ", "k0", 0, "none"), "none", FALSE)
    BY DEF Entry, E
  <2> QED BY Zenon, <2>1, <2>2, Row, EntIs DEF GoodRow
<1>18. GoodRow(TRUE, row18)
  <2>1. Class(TRUE, {\hA1, \hA9}, "none", FALSE)
    BY DEF Class
  <2>2. Entry(E("pop", <<>>, "kQ", "k0", 0, "none"), "none", FALSE)
    BY DEF Entry, E
  <2> QED BY Zenon, <2>1, <2>2, Row, EntIs DEF GoodRow
<1>19. GoodRow(TRUE, row19)
  <2>1. Class(TRUE, {\hA2}, "none", FALSE)
    BY DEF Class
  <2>2. Entry(E("cpuid", <<>>, "kD", "k0", 0, "none"), "none", FALSE)
    BY DEF Entry, E
  <2> QED BY Zenon, <2>1, <2>2, Row, PlainIs DEF GoodRow
<1>20. GoodRow(TRUE, row20)
  <2>1. Class(TRUE, {\hA3, \hAB, \hB3, \hBB}, "none", TRUE)
    BY DEF Class
  <2>2. Entry(E("bt", <<"kRm", "kReg">>, "kD", "k0", 0, "none"), "none", TRUE)
    BY DEF Entry, E
  <2> QED BY Zenon, <2>1, <2>2, Row, EntIs DEF GoodRow
<1>21. GoodRow(TRUE, row21)
  <2>1. Class(TRUE, {\hBA}, "byte", TRUE)
    BY DEF Class
  <2>2. Entry(E("bt", <<"kRm">>, "kD", "k8", 2, "kGrp8"), "byte", TRUE)
    BY DEF Entry, E
  <2>3. Grouped(Imm(Ent("bt", <<"kRm">>, "kD"), "k8", 2), "kGrp8") = E("bt", <<"kRm">>, "kD",
        "k8", 2, "kGrp8")
    BY GroupedImm
  <2> QED BY Zenon, <2>1, <2>2, <2>3, Row DEF GoodRow
<1>22. GoodRow(TRUE, row22)
  <2>1. Class(TRUE, {\hA4, \hAC}, "byte", TRUE)
    BY DEF Class
  <2>2. Entry(E("shld", <<"kRm", "kReg">>, "kD", "k8", 3, "none"), "byte", TRUE)
    BY DEF Entry, E
  <2>3. Imm(Ent("shld", RmReg, "kD"), "k8", 3) = E("shld", <<"kRm", "kReg">>, "kD", "k8", 3,
        "none")
    BY ImmEnt
  <2> QED BY Zenon, <2>1, <2>2, <2>3, Row DEF GoodRow
<1>23. GoodRow(TRUE, row23)
  <2>1. Class(TRUE, {\hA5, \hAD}, "none", TRUE)
    BY DEF Class
  <2>2. Entry(E("shld", <<"kRm", "kReg", "kCl">>, "kD", "k0", 0, "none"), "none", TRUE)
    BY DEF Entry, E
  <2> QED BY Zenon, <2>1, <2>2, Row, EntIs DEF GoodRow
<1>24. GoodRow(TRUE, row24)
  <2>1. Class(TRUE, {\hAF}, "none", TRUE)
    BY DEF Class
  <2>2. Entry(E("imul", <<"kReg", "kRm">>, "kD", "k0", 0, "none"), "none", TRUE)
    BY DEF Entry, E
  <2> QED BY Zenon, <2>1, <2>2, Row, EntIs DEF GoodRow
<1>25. GoodRow(TRUE, row25)
  <2>1. Class(TRUE, {\hB6}, "none", TRUE)
    BY DEF Class
  <2>2. Entry(E("movzx", <<"kReg", "kRm8">>, "kD", "k0", 0, "none"), "none", TRUE)
    BY DEF Entry, E
  <2> QED BY Zenon, <2>1, <2>2, Row, EntIs DEF GoodRow
<1>26. GoodRow(TRUE, row26)
  <2>1. Class(TRUE, {\hB7}, "none", TRUE)
    BY DEF Class
  <2>2. Entry(E("movzx", <<"kReg", "kRm16">>, "kD", "k0", 0, "none"), "none", TRUE)
    BY DEF Entry, E
  <2> QED BY Zenon, <2>1, <2>2, Row, EntIs DEF GoodRow
<1>27. GoodRow(TRUE, row27)
  <2>1. Class(TRUE, {\hBE}, "none", TRUE)
    BY DEF Class
  <2>2. Entry(E("movsx", <<"kReg", "kRm8">>, "kD", "k0", 0, "none"), "none", TRUE)
    BY DEF Entry, E
  <2> QED BY Zenon, <2>1, <2>2, Row, EntIs DEF GoodRow
<1>28. GoodRow(TRUE, row28)
  <2>1. Class(TRUE, {\hBF}, "none", TRUE)
    BY DEF Class
  <2>2. Entry(E("movsx", <<"kReg", "kRm16">>, "kD", "k0", 0, "none"), "none", TRUE)
    BY DEF Entry, E
  <2> QED BY Zenon, <2>1, <2>2, Row, EntIs DEF GoodRow
<1>29. GoodRow(TRUE, row29)
  <2>1. Class(TRUE, {\hBC, \hBD}, "none", TRUE)
    BY DEF Class
  <2>2. Entry(E("scan", <<"kReg", "kRm">>, "kD", "k0", 0, "none"), "none", TRUE)
    BY DEF Entry, E
  <2> QED BY Zenon, <2>1, <2>2, Row, EntIs DEF GoodRow
<1>30. GoodRow(TRUE, row30)
  <2>1. Class(TRUE, {\hC7}, "none", TRUE)
    BY DEF Class
  <2>2. Entry(E("rdrand", <<"kReg">>, "kD", "k0", 0, "kGrp9"), "none", TRUE)
    BY DEF Entry, E
  <2>3. Grouped(Ent("rdrand", <<"kReg">>, "kD"), "kGrp9") = E("rdrand", <<"kReg">>, "kD", "k0",
        0, "kGrp9")
    BY GroupedEnt
  <2> QED BY Zenon, <2>1, <2>2, <2>3, Row DEF GoodRow
<1>31. GoodRow(TRUE, row31)
  <2>1. Class(TRUE, \hC8 .. \hCF, "none", FALSE)
    BY DEF Class
  <2>2. Entry(E("bswap", <<"kOpr">>, "kD", "k0", 0, "none"), "none", FALSE)
    BY DEF Entry, E
  <2> QED BY Zenon, <2>1, <2>2, Row, EntIs DEF GoodRow
<1>32. GoodRow(TRUE, row32)
  <2>1. Class(TRUE, {\hAE}, "none", TRUE)
    BY DEF Class
  <2>2. Entry(E("grpAe", <<"kRm">>, "kV", "k0", 0, "kGrpAe"), "none", TRUE)
    BY DEF Entry, E
  <2>3. Grouped(Ent("grpAe", <<"kRm">>, "kV"), "kGrpAe") = E("grpAe", <<"kRm">>, "kV", "k0", 0,
        "kGrpAe")
    BY GroupedEnt
  <2> QED BY Zenon, <2>1, <2>2, <2>3, Row DEF GoodRow
<1>33. kEscNone =
       pair1 \cup pair2 \cup singles
  BY DEF kEscNone
<1> HIDE DEF row3, row4, row5, row6, row7, row8, row9, row10, row11, row12, row13, row14, row15,
             row16, row17, row18, row19, row20, row21, row22, row23, row24, row25, row26, row27,
             row28, row29, row30, row31, row32
<1>34. GoodRows(TRUE, singles)
  BY Zenon, <1>3, <1>4, <1>5, <1>6, <1>7, <1>8, <1>9, <1>10, <1>11, <1>12, <1>13, <1>14, <1>15, <1>16,
     <1>17, <1>18, <1>19, <1>20, <1>21, <1>22, <1>23, <1>24, <1>25, <1>26, <1>27, <1>28, <1>29,
     <1>30, <1>31, <1>32 DEF GoodRows
<1> HIDE DEF singles, pair1, pair2
<1> QED BY <1>1, <1>2, <1>33, <1>34 DEF GoodRows

\* build_esc66().
LEMMA P66Rows == GoodRows(TRUE, kEsc66)
<1> USE DEF ImmClass, HasModrm, MapModrm, MapNoModrm, Tops, MapByte, MapFull, MapEscByte,
            Formed, Fit, Kept, Immediates, Reads, Fills, NotExecuted, Valued, MemorySlots,
            RmSlots, RegSlots, XmmRmSlots, GprRmSlots, RmReg, RegRm
<1> DEFINE row1 == <<{\h60, \h61, \h62} \cup (\h67 .. \h6A) \cup {\h6C, \h6D, \h6F, \h74,
                        \h76} \cup (\hD1 .. \hD4) \cup {\hDB, \hDF, \hEB,
                        \hEF} \cup (\hF1 .. \hF3) \cup {\hFA, \hFE}, XRegRm>>
           row2 == <<{\h6E}, Ent("movd", <<"kXReg", "kRm32S">>, "kV")>>
           row3 == <<{\h7E}, Ent("movd", <<"kXRm32", "kXReg">>, "kV")>>
           row4 == <<{\hD6}, Ent("sse", <<"kXRm64", "kXReg">>, "kV")>>
           row5 == <<{\h7F}, XRmReg>>
           row6 == <<{\h70}, Imm(XRegRm, "k8", 3)>>
           row7 == <<\h71 .. \h73, Grouped(Imm(Ent("sse", <<"kXReg">>, "kV"), "k8", 2),
                        "kGrpPs")>>
           singles == {row1, row2, row3, row4, row5, row6, row7}
<1>1. GoodRow(TRUE, row1)
  <2> DEFINE ops == row1[1]
  <2>1. Class(TRUE, ops, "none", TRUE)
    BY DEF Class
  <2>2. Entry(E("sse", <<"kXReg", "kXRm">>, "kV", "k0", 0, "none"), "none", TRUE)
    BY DEF Entry, E
  <2>3. XRegRm = E("sse", <<"kXReg", "kXRm">>, "kV", "k0", 0, "none")
    BY EntIs DEF XRegRm
  <2> HIDE DEF ops
  <2>4. GoodEntry(TRUE, ops, E("sse", <<"kXReg", "kXRm">>, "kV", "k0", 0, "none"))
    BY Zenon, <2>1, <2>2, Row
  <2> QED BY Zenon, <2>3, <2>4 DEF GoodRow, ops
<1>2. GoodRow(TRUE, row2)
  <2>1. Class(TRUE, {\h6E}, "none", TRUE)
    BY DEF Class
  <2>2. Entry(E("movd", <<"kXReg", "kRm32S">>, "kV", "k0", 0, "none"), "none", TRUE)
    BY DEF Entry, E
  <2>3. Entry(E("movq", <<"kXReg", "kRm64f">>, "kQ", "k0", 0, "none"), "none", TRUE)
    BY DEF Entry, E
  <2> QED BY Zenon, <2>1, <2>2, <2>3, MovdRow, EntIs DEF GoodRow
<1>3. GoodRow(TRUE, row3)
  <2>1. Class(TRUE, {\h7E}, "none", TRUE)
    BY DEF Class
  <2>2. Entry(E("movd", <<"kXRm32", "kXReg">>, "kV", "k0", 0, "none"), "none", TRUE)
    BY DEF Entry, E
  <2>3. Entry(E("movq", <<"kRm64f", "kXReg">>, "kQ", "k0", 0, "none"), "none", TRUE)
    BY DEF Entry, E
  <2> QED BY Zenon, <2>1, <2>2, <2>3, MovdRow, EntIs DEF GoodRow
<1>4. GoodRow(TRUE, row4)
  <2>1. Class(TRUE, {\hD6}, "none", TRUE)
    BY DEF Class
  <2>2. Entry(E("sse", <<"kXRm64", "kXReg">>, "kV", "k0", 0, "none"), "none", TRUE)
    BY DEF Entry, E
  <2> QED BY Zenon, <2>1, <2>2, Row, EntIs DEF GoodRow
<1>5. GoodRow(TRUE, row5)
  <2>1. Class(TRUE, {\h7F}, "none", TRUE)
    BY DEF Class
  <2>2. Entry(E("sse", <<"kXRm", "kXReg">>, "kV", "k0", 0, "none"), "none", TRUE)
    BY DEF Entry, E
  <2>3. XRmReg = E("sse", <<"kXRm", "kXReg">>, "kV", "k0", 0, "none")
    BY EntIs DEF XRmReg
  <2> QED BY Zenon, <2>1, <2>2, <2>3, Row DEF GoodRow
<1>6. GoodRow(TRUE, row6)
  <2>1. Class(TRUE, {\h70}, "byte", TRUE)
    BY DEF Class
  <2>2. Entry(E("sse", <<"kXReg", "kXRm">>, "kV", "k8", 3, "none"), "byte", TRUE)
    BY DEF Entry, E
  <2>3. Imm(XRegRm, "k8", 3) = E("sse", <<"kXReg", "kXRm">>, "kV", "k8", 3, "none")
    BY ImmEnt DEF XRegRm
  <2> QED BY Zenon, <2>1, <2>2, <2>3, Row DEF GoodRow
<1>7. GoodRow(TRUE, row7)
  <2>1. Class(TRUE, \h71 .. \h73, "byte", TRUE)
    BY DEF Class
  <2>2. Entry(E("sse", <<"kXReg">>, "kV", "k8", 2, "kGrpPs"), "byte", TRUE)
    BY DEF Entry, E
  <2>3. Grouped(Imm(Ent("sse", <<"kXReg">>, "kV"), "k8", 2), "kGrpPs") = E("sse", <<"kXReg">>,
        "kV", "k8", 2, "kGrpPs")
    BY GroupedImm
  <2> QED BY Zenon, <2>1, <2>2, <2>3, Row DEF GoodRow
<1>8. kEsc66 = singles
  BY DEF kEsc66
<1> HIDE DEF row1, row2, row3, row4, row5, row6, row7
<1>9. GoodRows(TRUE, singles)
  BY Zenon, <1>1, <1>2, <1>3, <1>4, <1>5, <1>6, <1>7 DEF GoodRows
<1> QED BY <1>8, <1>9 DEF GoodRows

\* build_esc_f3().
LEMMA P3Rows == GoodRows(TRUE, kEscF3)
<1> USE DEF ImmClass, HasModrm, MapModrm, MapNoModrm, Tops, MapByte, MapFull, MapEscByte,
            Formed, Fit, Kept, Immediates, Reads, Fills, NotExecuted, Valued, MemorySlots,
            RmSlots, RegSlots, XmmRmSlots, GprRmSlots, RmReg, RegRm
<1> DEFINE row1 == <<{\h6F}, XRegRm>>
           row2 == <<{\h7F}, XRmReg>>
           row3 == <<{\h7E}, Ent("sse", <<"kXReg", "kXRm64">>, "kV")>>
           row4 == <<{\hBC, \hBD}, Ent("count", RegRm, "kD")>>
           row5 == <<{\h1E}, Ent("endbr64", <<"kRm">>, "kQ")>>
           singles == {row1, row2, row3, row4, row5}
<1>1. GoodRow(TRUE, row1)
  <2>1. Class(TRUE, {\h6F}, "none", TRUE)
    BY DEF Class
  <2>2. Entry(E("sse", <<"kXReg", "kXRm">>, "kV", "k0", 0, "none"), "none", TRUE)
    BY DEF Entry, E
  <2>3. XRegRm = E("sse", <<"kXReg", "kXRm">>, "kV", "k0", 0, "none")
    BY EntIs DEF XRegRm
  <2> QED BY Zenon, <2>1, <2>2, <2>3, Row DEF GoodRow
<1>2. GoodRow(TRUE, row2)
  <2>1. Class(TRUE, {\h7F}, "none", TRUE)
    BY DEF Class
  <2>2. Entry(E("sse", <<"kXRm", "kXReg">>, "kV", "k0", 0, "none"), "none", TRUE)
    BY DEF Entry, E
  <2>3. XRmReg = E("sse", <<"kXRm", "kXReg">>, "kV", "k0", 0, "none")
    BY EntIs DEF XRmReg
  <2> QED BY Zenon, <2>1, <2>2, <2>3, Row DEF GoodRow
<1>3. GoodRow(TRUE, row3)
  <2>1. Class(TRUE, {\h7E}, "none", TRUE)
    BY DEF Class
  <2>2. Entry(E("sse", <<"kXReg", "kXRm64">>, "kV", "k0", 0, "none"), "none", TRUE)
    BY DEF Entry, E
  <2> QED BY Zenon, <2>1, <2>2, Row, EntIs DEF GoodRow
<1>4. GoodRow(TRUE, row4)
  <2>1. Class(TRUE, {\hBC, \hBD}, "none", TRUE)
    BY DEF Class
  <2>2. Entry(E("count", <<"kReg", "kRm">>, "kD", "k0", 0, "none"), "none", TRUE)
    BY DEF Entry, E
  <2> QED BY Zenon, <2>1, <2>2, Row, EntIs DEF GoodRow
<1>5. GoodRow(TRUE, row5)
  <2>1. Class(TRUE, {\h1E}, "none", TRUE)
    BY DEF Class
  <2>2. Entry(E("endbr64", <<"kRm">>, "kQ", "k0", 0, "none"), "none", TRUE)
    BY DEF Entry, E
  <2> QED BY Zenon, <2>1, <2>2, Row, EntIs DEF GoodRow
<1>6. kEscF3 = singles
  BY DEF kEscF3
<1> HIDE DEF row1, row2, row3, row4, row5
<1>7. GoodRows(TRUE, singles)
  BY Zenon, <1>1, <1>2, <1>3, <1>4, <1>5 DEF GoodRows
<1> QED BY <1>6, <1>7 DEF GoodRows

\* build_esc38_66(): its instruction is of the class of the escape byte 38.
LEMMA Esc38Rows == GoodRows(TRUE, {<<{\h38}, XRegRm>>})
<1> USE DEF ImmClass, HasModrm, MapModrm, MapNoModrm, Tops, MapByte, MapFull, MapEscByte,
            Formed, Fit, Kept, Immediates, Reads, Fills, NotExecuted, Valued, MemorySlots,
            RmSlots, RegSlots, XmmRmSlots, GprRmSlots, RmReg, RegRm
<1>1. Class(TRUE, {\h38}, "none", TRUE)
  BY DEF Class
<1>2. Entry(E("sse", <<"kXReg", "kXRm">>, "kV", "k0", 0, "none"), "none", TRUE)
  BY DEF Entry, E
<1>3. XRegRm = E("sse", <<"kXReg", "kXRm">>, "kV", "k0", 0, "none")
  BY EntIs DEF XRegRm
<1>4. GoodRow(TRUE, <<{\h38}, XRegRm>>)
  BY <1>1, <1>2, <1>3, Row DEF GoodRow
<1> QED BY <1>4 DEF GoodRows

-----------------------------------------------------------------------------
(* What execute() gets.                                                    *)

\* What is known of an instruction when its operands are assembled.
Filled(c) ==
    c.ent.mn \in Valued =>
        /\ \A i \in DOMAIN c.ent.slots : c.ent.slots[i] # "kOne"
        /\ \/ c.ent.islot = 0
           \/ c.ent.islot \in DOMAIN c.ent.slots /\ c.ent.slots[c.ent.islot] = "kMem"
           \/ SignExtends(c)
           \/ ImmSize(c) >= c.opsize

Sound(c) ==
    /\ DOMAIN c.ent.slots \in {{}, {1}, {1, 2}, {1, 2, 3}}
    /\ c.ent.mn \notin NotExecuted => Fit(c.ent) /\ c.opsize \in {1, 2, 4, 8}
    /\ Filled(c)

\* The loop over the slots.
LEMMA SlotKinds ==
  ASSUME NEW c, NEW x
  PROVE  /\ Slot(c, x).kind = "mem" => x \in MemorySlots
         /\ Slot(c, x).kind = "imm" => x = "kOne"
         /\ x = "kMem" => Slot(c, x).kind = "mem"
         /\ x = "kOne" => Slot(c, x).kind = "imm"
         /\ x \in {"kReg", "kOpr"} => Slot(c, x).kind = "gpr"
         /\ x \in {"kAcc", "kCl"} => Slot(c, x).kind = "implicit"
BY DEF Slot, MemorySlots, RmSlots, GprRmSlots, XmmRmSlots

LEMMA SlotSizes ==
  ASSUME NEW c, c.opsize \in {1, 2, 4, 8}, NEW x
  PROVE  /\ Slot(c, x).kind = "mem" /\ x \notin XmmRmSlots => Slot(c, x).size \in {1, 2, 4, 8}
         /\ x \in {"kRm", "kOpr", "kReg", "kAcc"} /\ c.ent.mn # "mov" => Slot(c, x).size = c.opsize
<1>1. x \in GprRmSlots \cup {"kMem"} => SlotWidth(x, c.opsize) \in {1, 2, 4, 8}
  BY DEF SlotWidth, GprRmSlots
<1>2. x \in {"kRm", "kOpr", "kReg", "kAcc"} => SlotWidth(x, c.opsize) = c.opsize
  BY DEF SlotWidth
<1>3. Slot(c, x).kind = "mem" /\ x \notin XmmRmSlots => x \in GprRmSlots \cup {"kMem"}
  BY SlotKinds DEF MemorySlots, RmSlots
<1>4. Slot(c, x).kind = "mem" => Slot(c, x).size \in {2, SlotWidth(x, c.opsize)}
  BY DEF Slot, GprRmSlots, XmmRmSlots
<1>5. x \in {"kRm", "kOpr", "kReg", "kAcc"} /\ c.ent.mn # "mov"
         => Slot(c, x).size = SlotWidth(x, c.opsize)
  BY DEF Slot, GprRmSlots, XmmRmSlots
<1> QED BY <1>1, <1>2, <1>3, <1>4, <1>5

LEMMA OperandIs ==
  ASSUME NEW c, NEW i \in 1 .. 3
  PROVE  /\ i \notin DOMAIN c.ent.slots /\ i # c.ent.islot => Operands(c)[i].kind = "none"
         /\ i \notin DOMAIN c.ent.slots /\ i = c.ent.islot
               => Operands(c)[i].kind = "imm" /\ Operands(c)[i].size = ImmSize(c)
         /\ i \in DOMAIN c.ent.slots /\ i # c.ent.islot
               => Operands(c)[i] = Slot(c, c.ent.slots[i])
         /\ i \in DOMAIN c.ent.slots /\ Slot(c, c.ent.slots[i]).kind = "mem"
               => Operands(c)[i] = Slot(c, c.ent.slots[i])
         /\ i \in DOMAIN c.ent.slots /\ i = c.ent.islot /\ Slot(c, c.ent.slots[i]).kind # "mem"
               => Operands(c)[i].kind = "imm" /\ Operands(c)[i].size = ImmSize(c)
BY DEF Operands, None

\* Sound is enough for ImmediateFills.
LEMMA FillsHold ==
  ASSUME NEW c, Sound(c), c.ent.mn \in Valued, NEW i \in 1 .. 3, Operands(c)[i].kind = "imm"
  PROVE  SignExtends(c) \/ Operands(c)[i].size >= c.opsize
<1>1. CASE i \notin DOMAIN c.ent.slots
  <2>1. i = c.ent.islot /\ Operands(c)[i].size = ImmSize(c)
    BY <1>1, OperandIs
  <2> QED BY <1>1, <2>1 DEF Sound, Filled
<1>2. CASE i \in DOMAIN c.ent.slots
  <2>1. Slot(c, c.ent.slots[i]).kind # "imm"
    BY <1>2, SlotKinds DEF Sound, Filled
  <2>2. i = c.ent.islot /\ Slot(c, c.ent.slots[i]).kind # "mem"
        /\ Operands(c)[i].size = ImmSize(c)
    BY <1>2, <2>1, OperandIs
  <2>3. c.ent.slots[i] # "kMem"
    BY <2>2, SlotKinds
  <2> QED BY <2>2, <2>3 DEF Sound, Filled
<1> QED BY <1>1, <1>2

\* ContractKept of an executed instruction r ...
Contract(r) ==
    LET memory == {i \in 1 .. 3 : r.ops[i].kind = "mem"}
    IN  /\ \A i \in memory : r.ops[i].size \in {1, 2, 4, 8} /\ memory = {i}
        /\ r.mn \in {"xchg", "xadd", "cmpxchg"} =>
               r.ops[2].kind \in {"gpr", "implicit"} /\ r.ops[1].size = r.ops[2].size
        /\ r.mn = "lea" => r.ops[2].kind = "mem"
        /\ r.mn \in {"jcc", "loop", "jmp", "call"} => r.ops[1].kind = "imm" /\ r.sext
        /\ r.mn \notin {"jcc", "loop", "jmp", "call", "push", "ret"} => r.ops[1].kind # "imm"
        /\ r.mn \in {"shift", "shld"} => r.ops[2].kind # "none"

\* ... for which Sound is enough.
LEMMA ContractHolds ==
  ASSUME NEW c, Sound(c), c.ent.mn \notin NotExecuted, NEW pos
  PROVE  Contract(Done(c, pos))
<1> DEFINE ops == Operands(c)
           e == c.ent
<1>1. Fit(e) /\ c.opsize \in {1, 2, 4, 8} /\ DOMAIN e.slots \in {{}, {1}, {1, 2}, {1, 2, 3}}
  BY DEF Sound
<1>2. Done(c, pos).ops = ops /\ Done(c, pos).mn = e.mn /\ Done(c, pos).sext = SignExtends(c)
  BY DEF Done
<1> HIDE DEF ops
<1>3. ASSUME NEW i \in 1 .. 3, ops[i].kind = "mem"
      PROVE  /\ i \in DOMAIN e.slots /\ e.slots[i] \in MemorySlots
             /\ ops[i] = Slot(c, e.slots[i]) /\ ops[i].size \in {1, 2, 4, 8}
  <2>1. i \in DOMAIN e.slots /\ ops[i] = Slot(c, e.slots[i])
    BY <1>3, OperandIs DEF ops
  <2>2. e.slots[i] \notin XmmRmSlots
    BY <1>1, <2>1 DEF Fit
  <2>3. e.slots[i] \in MemorySlots
    BY <1>3, <2>1, SlotKinds
  <2>4. ops[i].size \in {1, 2, 4, 8}
    BY <1>1, <1>3, <2>1, <2>2, SlotSizes
  <2> QED BY <2>1, <2>3, <2>4
<1>4. ASSUME NEW i \in 1 .. 3, NEW j \in 1 .. 3, ops[i].kind = "mem", ops[j].kind = "mem"
      PROVE  i = j
  BY <1>1, <1>3, <1>4 DEF Fit
<1>5. ASSUME e.mn \in {"xchg", "xadd", "cmpxchg"}
      PROVE  ops[2].kind \in {"gpr", "implicit"} /\ ops[1].size = ops[2].size
  <2>1. /\ DOMAIN e.slots = {1, 2} /\ e.islot = 0
        /\ e.slots[1] \in {"kRm", "kOpr"} /\ e.slots[2] \in {"kReg", "kAcc"}
    BY <1>1, <1>5 DEF Fit
  <2>2. ops[1] = Slot(c, e.slots[1]) /\ ops[2] = Slot(c, e.slots[2])
    BY <2>1, OperandIs DEF ops
  <2>3. Slot(c, e.slots[1]).size = c.opsize /\ Slot(c, e.slots[2]).size = c.opsize
    BY <1>1, <1>5, <2>1, SlotSizes
  <2>4. Slot(c, e.slots[2]).kind \in {"gpr", "implicit"}
    BY <2>1, SlotKinds
  <2> QED BY <2>2, <2>3, <2>4
<1>6. ASSUME e.mn = "lea" PROVE ops[2].kind = "mem"
  <2>1. 2 \in DOMAIN e.slots /\ e.slots[2] = "kMem"
    BY <1>1, <1>6 DEF Fit
  <2>2. Slot(c, e.slots[2]).kind = "mem"
    BY <2>1, SlotKinds
  <2> QED BY <2>1, <2>2, OperandIs DEF ops
<1>7. ASSUME e.mn \in {"jcc", "loop", "jmp", "call"} PROVE ops[1].kind = "imm" /\ SignExtends(c)
  <2>1. DOMAIN e.slots = {} /\ e.islot = 1 /\ e.imm \in {"k8S", "k32S"}
    BY <1>1, <1>7 DEF Fit
  <2>2. ops[1].kind = "imm"
    BY <2>1, OperandIs DEF ops
  <2> QED BY <2>1, <2>2 DEF SignExtends
<1>8. ASSUME e.mn \notin {"jcc", "loop", "jmp", "call", "push", "ret"} PROVE ops[1].kind # "imm"
  <2>1. /\ e.islot = 1 => 1 \in DOMAIN e.slots /\ e.slots[1] = "kMem"
        /\ 1 \in DOMAIN e.slots => e.slots[1] # "kOne"
    BY <1>1, <1>8 DEF Fit
  <2>2. CASE 1 \notin DOMAIN e.slots
    BY <2>1, <2>2, OperandIs DEF ops
  <2>3. CASE 1 \in DOMAIN e.slots /\ e.slots[1] = "kMem"
    BY <2>3, OperandIs, SlotKinds DEF ops
  <2>4. CASE 1 \in DOMAIN e.slots /\ e.slots[1] # "kMem"
    BY <2>1, <2>4, OperandIs, SlotKinds DEF ops
  <2> QED BY <2>2, <2>3, <2>4
<1>9. ASSUME e.mn \in {"shift", "shld"} PROVE ops[2].kind # "none"
  <2>1. e.islot = 2 \/ (2 \in DOMAIN e.slots /\ e.slots[2] \in {"kOne", "kCl", "kReg"})
    BY <1>1, <1>9 DEF Fit
  <2>2. CASE e.islot = 2
    BY <2>2, OperandIs DEF ops
  <2>3. CASE e.islot # 2
    BY <2>1, <2>3, OperandIs, SlotKinds DEF ops
  <2> QED BY <2>2, <2>3
<1> QED BY <1>2, <1>3, <1>4, <1>5, <1>6, <1>7, <1>8, <1>9 DEF Contract

-----------------------------------------------------------------------------
(* From the entry of an opcode to the instruction.                         *)

\* An instruction whose opcode is selected, as the tables give it.
Given(c) ==
    /\ Good(c.esc, c.op, c.ent)
    /\ c.opsize = Opsize(c.ent.sz, c.pfx)

Word(p, wide) == IF p.w THEN wide ELSE IF p.opsz66 THEN 2 ELSE 4
\* The bytes of an immediate, by the class of the opcode.
ImmBytes(class, p, reg) ==
    CASE class = "byte" \/ (class = "test8" /\ reg < 2) -> 1
      [] class = "full" \/ (class = "test" /\ reg < 2) -> Word(p, 4)
      [] class = "wide" -> Word(p, 8)
      [] class = "moffs" -> 8
      [] class = "ret" -> 2
      [] class = "rel" -> 4
      [] OTHER -> 0

\* The operand sizes that decode_one() gives.
LEMMA Opsizes ==
  ASSUME NEW sz, NEW p
  PROVE  /\ sz # "kV" => Opsize(sz, p) \in {1, 2, 4, 8}
         /\ sz = "kB" => Opsize(sz, p) = 1
         /\ sz = "kD" => Opsize(sz, p) = Word(p, 8)
         /\ sz = "kP" => Opsize(sz, p) \in {2, 8} /\ (Opsize(sz, p) = 2 => Word(p, 4) = 2)
                         /\ (Opsize(sz, p) = 8 => Word(p, 4) = 4)
BY DEF Opsize, Word

LEMMA Classes ==
  ASSUME NEW esc, NEW op
  PROVE  /\ ImmClass(esc, op) \in
               {"byte", "full", "wide", "moffs", "ret", "rel", "test8", "test", "none"}
         /\ ImmClass(esc, op) = "wide" <=> ~esc /\ op \in \hB8 .. \hBF
         /\ ImmClass(esc, op) = "moffs" <=> ~esc /\ op \in \hA0 .. \hA3
BY DEF ImmClass, MapByte, MapFull, Tops

\* decode_one() takes for an immediate the bytes that the map gives the opcode ...
LEMMA ImmSizeIs ==
  ASSUME NEW c, NEW class, class = ImmClass(c.esc, c.op), Immediates(c.ent, class),
         class = "full" => c.opsize = Opsize(c.ent.sz, c.pfx),
         NEW reg, class \in {"test8", "test"} => ~(reg < 2)
  PROVE  ImmSize(c) = ImmBytes(class, c.pfx, reg)
<1>1. /\ class \in {"byte", "full", "wide", "moffs", "ret", "rel", "test8", "test", "none"}
      /\ MovImmediate(c) <=> class = "wide"
  BY Classes DEF MovImmediate
<1>2. CASE class \in {"byte", "moffs", "ret", "rel", "none", "test8", "test"}
  BY <1>1, <1>2 DEF ImmSize, ImmBytes, Immediates
<1>3. CASE class = "wide"
  BY <1>1, <1>3 DEF ImmSize, ImmBytes, Immediates, Word
<1>4. CASE class = "full"
  <2>1. c.ent.imm = "kSz4" /\ c.ent.sz \in {"kD", "kP"} /\ ~MovImmediate(c)
    BY <1>1, <1>4 DEF Immediates
  <2>2. c.opsize \in {2, 4, 8} /\ Word(c.pfx, 4) = IF c.opsize < 4 THEN c.opsize ELSE 4
    BY <1>4, <2>1 DEF Opsize, Word
  <2> QED BY <1>4, <2>1, <2>2 DEF ImmSize, ImmBytes
<1> QED BY <1>1, <1>2, <1>3, <1>4

\* ... which fill the operand.
LEMMA ImmediateFilled ==
  ASSUME NEW c, Given(c)
  PROVE  Filled(c)
<1> DEFINE class == ImmClass(c.esc, c.op)
           e == c.ent
<1>1. /\ Immediates(e, class) /\ Fills(e, class) /\ c.opsize = Opsize(e.sz, c.pfx)
      /\ MovImmediate(c) <=> class = "wide"
  BY Classes DEF Given, Good, Entry, MovImmediate
<1> HIDE DEF class
<1> SUFFICES ASSUME e.mn \in Valued
             PROVE  \/ e.islot = 0
                    \/ e.islot \in DOMAIN e.slots /\ e.slots[e.islot] = "kMem"
                    \/ SignExtends(c)
                    \/ ImmSize(c) >= c.opsize
  BY <1>1 DEF Filled, Fills
<1>2. CASE class = "full"
  <2>1. e.imm = "kSz4" /\ e.sz \in {"kD", "kP"} /\ ~MovImmediate(c)
    BY <1>1, <1>2 DEF Immediates
  <2>2. c.opsize \in {2, 4, 8}
    BY <1>1, <2>1 DEF Opsize
  <2>3. ImmSize(c) = IF c.opsize < 4 THEN c.opsize ELSE 4
    BY <2>1 DEF ImmSize
  <2> QED BY <2>1, <2>2, <2>3 DEF SignExtends
<1>3. CASE class = "wide"
  <2>1. e.imm = "kSz4" /\ e.sz = "kD" /\ MovImmediate(c)
    BY <1>1, <1>3 DEF Immediates
  <2>2. ImmSize(c) = Word(c.pfx, 8) /\ c.opsize = Word(c.pfx, 8) /\ Word(c.pfx, 8) \in Nat
    BY <1>1, <2>1 DEF ImmSize, Opsize, Word
  <2> QED BY <2>2
<1>4. CASE class = "moffs"
  BY <1>1, <1>4 DEF Immediates
<1>5. CASE e.imm \in {"k8S", "k32S"}
  BY <1>5 DEF SignExtends
<1>6. CASE e.imm = "k8" /\ e.sz = "kB"
  <2>1. ImmSize(c) = 1 /\ c.opsize = 1
    BY <1>1, <1>6 DEF ImmSize, Opsize
  <2> QED BY <2>1
<1> QED BY <1>1, <1>2, <1>3, <1>4, <1>5, <1>6 DEF Fills

LEMMA GivenSound ==
  ASSUME NEW c, Given(c)
  PROVE  Sound(c)
<1>1. /\ Entry(c.ent, ImmClass(c.esc, c.op), HasModrm(c.esc, c.op))
      /\ c.opsize = Opsize(c.ent.sz, c.pfx)
  BY DEF Given, Good
<1>2. c.ent.mn \notin NotExecuted => Fit(c.ent) /\ c.opsize \in {1, 2, 4, 8}
  BY <1>1, Opsizes DEF Entry, Fit
<1> QED BY <1>1, <1>2, ImmediateFilled DEF Sound, Entry, Formed

LEMMA Bits ==
  ASSUME NEW m \in Byte
  PROVE  Mod(m) \in 0 .. 3 /\ Reg(m) \in 0 .. 7 /\ Rm(m) \in 0 .. 7
BY DEF Byte, Mod, Reg, Rm

\* What the group's case of decode_one() makes of an entry.
Refitted(c, m, mn, slots, imm, islot) ==
    /\ WithModrm(c, m).ent.mn = mn /\ WithModrm(c, m).ent.slots = slots
    /\ WithModrm(c, m).ent.imm = imm /\ WithModrm(c, m).ent.islot = islot
    /\ WithModrm(c, m).ent.sz = c.ent.sz

LEMMA Regroups ==
  ASSUME NEW c, Given(c), NEW m \in Byte
  PROVE  LET e == c.ent
         IN  /\ e.grp = "kGrp3" /\ Reg(m) <= 1 =>
                    Refitted(c, m, "test", e.slots, IF c.opsize = 1 THEN "k8" ELSE "kSz4", 2)
             /\ e.grp = "kGrp5" =>
                    \E mn \in {"incdec", "push", "branch"} :
                        Refitted(c, m, mn, e.slots, e.imm, e.islot)
             /\ e.grp = "kGrp6" /\ Reg(m) = 7 /\ Mod(m) = 3 =>
                    Refitted(c, m, "swapgs", <<>>, e.imm, e.islot)
             /\ e.grp = "kGrp6" /\ Reg(m) = 7 /\ Mod(m) # 3 =>
                    Refitted(c, m, "invlpg", <<"kRm8">>, e.imm, e.islot)
             /\ e.grp = "kGrp9" => Refitted(c, m, e.mn, <<"kRm">>, e.imm, e.islot)
             /\ e.grp = "kGrpPs" => Refitted(c, m, e.mn, <<"kXRm">>, e.imm, e.islot)
             /\ e.grp = "kGrpAe" /\ Mod(m) = 3 => Refitted(c, m, e.mn, <<>>, e.imm, e.islot)
             /\ e.mn = "endbr64" => Refitted(c, m, e.mn, <<>>, e.imm, e.islot)
<1> DEFINE e == c.ent
<1>1. /\ e = [mn |-> e.mn, slots |-> e.slots, sz |-> e.sz, imm |-> e.imm,
              islot |-> e.islot, grp |-> e.grp]
      /\ e.mn = "endbr64" => e.grp = "none"
  BY DEF Given, Good, Entry, Formed, Kept
<1>2. WithModrm(c, m).ent = Regrouped(c, m)
  BY DEF WithModrm
<1>3. CASE e.grp = "kGrp3" /\ Reg(m) <= 1
  <2>1. Regrouped(c, m) = [e EXCEPT !.mn = "test", !.islot = 2,
                                    !.imm = IF c.opsize = 1 THEN "k8" ELSE "kSz4"]
    BY <1>1, <1>3 DEF Regrouped
  <2> QED BY <1>1, <1>2, <1>3, <2>1 DEF Refitted
<1>4. CASE e.grp = "kGrp5"
  <2>1. PICK mn \in {"incdec", "push", "branch"} : Regrouped(c, m) = [e EXCEPT !.mn = mn]
    BY <1>1, <1>4 DEF Regrouped
  <2> QED BY <1>1, <1>2, <1>4, <2>1 DEF Refitted
<1>5. CASE e.grp = "kGrp6" /\ Reg(m) = 7 /\ Mod(m) = 3
  <2>1. Regrouped(c, m) = [e EXCEPT !.mn = "swapgs", !.slots = <<>>]
    BY <1>1, <1>5 DEF Regrouped
  <2> QED BY <1>1, <1>2, <1>5, <2>1 DEF Refitted
<1>6. CASE e.grp = "kGrp6" /\ Reg(m) = 7 /\ Mod(m) # 3
  <2>1. Regrouped(c, m) = [e EXCEPT !.mn = "invlpg", !.slots = <<"kRm8">>]
    BY <1>1, <1>6 DEF Regrouped
  <2> QED BY <1>1, <1>2, <1>6, <2>1 DEF Refitted
<1>7. CASE e.grp = "kGrp9"
  <2>1. Regrouped(c, m) = [e EXCEPT !.slots = <<"kRm">>]
    BY <1>1, <1>7 DEF Regrouped
  <2> QED BY <1>1, <1>2, <1>7, <2>1 DEF Refitted
<1>8. CASE e.grp = "kGrpPs"
  <2>1. Regrouped(c, m) = [e EXCEPT !.slots = <<"kXRm">>]
    BY <1>1, <1>8 DEF Regrouped
  <2> QED BY <1>1, <1>2, <1>8, <2>1 DEF Refitted
<1>9. CASE e.grp = "kGrpAe" /\ Mod(m) = 3
  <2>1. Regrouped(c, m) = [e EXCEPT !.slots = <<>>]
    BY <1>1, <1>9 DEF Regrouped
  <2> QED BY <1>1, <1>2, <1>9, <2>1 DEF Refitted
<1>10. CASE e.mn = "endbr64"
  <2>1. Regrouped(c, m) = [e EXCEPT !.slots = <<>>]
    BY <1>1, <1>10 DEF Regrouped
  <2> QED BY <1>1, <1>2, <1>10, <2>1 DEF Refitted
<1> QED BY <1>3, <1>4, <1>5, <1>6, <1>7, <1>8, <1>9, <1>10

\* What an instruction with a ModRM byte turns out to be.
LEMMA ModrmExact ==
  ASSUME NEW c, Given(c), NEW m \in Byte, ~Rejected(c, m), HasModrm(c.esc, c.op)
  PROVE  /\ Sound(WithModrm(c, m))
         /\ ImmSize(WithModrm(c, m)) = ImmBytes(ImmClass(c.esc, c.op), c.pfx, Reg(m))
         /\ Mod(m) # 3 => \E i \in DOMAIN WithModrm(c, m).ent.slots :
                              WithModrm(c, m).ent.slots[i] \in MemorySlots
<1> DEFINE class == ImmClass(c.esc, c.op)
           e == c.ent
           d == WithModrm(c, m)
<1>1. /\ Entry(e, class, TRUE) /\ c.opsize = Opsize(e.sz, c.pfx)
      /\ e.mn \notin NotExecuted => Fit(e) /\ c.opsize \in {1, 2, 4, 8}
  <2>1. Good(c.esc, c.op, e) /\ Sound(c) /\ c.opsize = Opsize(e.sz, c.pfx)
    BY GivenSound DEF Given
  <2> QED BY <2>1 DEF Good, Sound
<1>2. /\ d.esc = c.esc /\ d.op = c.op /\ d.pfx = c.pfx
      /\ d.ent = Regrouped(c, m) /\ d.opsize = GroupOpsize(c, m)
  BY DEF WithModrm
<1>3. Reg(m) \in 0 .. 7 /\ NotExecuted \cap Valued = {}
  BY Bits DEF NotExecuted, Valued
<1>4. Kept(e, class) /\ Immediates(e, class) /\ Reads(e, class, TRUE) /\ Formed(e)
  BY <1>1 DEF Entry
<1>5. class = ImmClass(d.esc, d.op)
  BY <1>2
<1>6. MovImmediate(d) <=> class = "wide"
  BY <1>2, Classes DEF MovImmediate
<1> HIDE DEF class, d
\* An entry that keeps its immediate, in a class that no group rewrites.
<1>7. ASSUME d.ent.imm = e.imm, e.grp # "kGrp3", d.ent.sz = e.sz
      PROVE  ImmSize(d) = ImmBytes(class, c.pfx, Reg(m))
  <2>1. Immediates(d.ent, class) \/ class = "moffs"
    BY <1>4, <1>7 DEF Immediates
  <2>2. class = "full" => d.opsize = Opsize(d.ent.sz, d.pfx)
    BY <1>1, <1>2, <1>4, <1>7 DEF GroupOpsize, Kept
  <2>3. class \notin {"test8", "test"}
    BY <1>4, <1>7 DEF Kept
  <2>4. CASE Immediates(d.ent, class)
    BY <1>2, <1>5, <2>2, <2>3, <2>4, ImmSizeIs
  <2>5. CASE class = "moffs"
    BY <1>4, <1>7, <2>5 DEF Immediates, ImmSize, ImmBytes
  <2> QED BY <2>1, <2>4, <2>5
<1>8. ASSUME e.mn \in NotExecuted, d.ent.mn = e.mn,
             DOMAIN d.ent.slots \in {{}, {1}, {1, 2}, {1, 2, 3}}
      PROVE  Sound(d)
  BY <1>3, <1>8 DEF Sound, Filled
<1>9. CASE e.grp = "kGrp3" /\ Reg(m) <= 1
  <2>1. /\ d.ent.mn = "test" /\ d.ent.slots = <<"kRm">> /\ d.ent.islot = 2 /\ d.ent.sz = e.sz
        /\ d.ent.imm = IF c.opsize = 1 THEN "k8" ELSE "kSz4"
    BY <1>4, <1>9, Regroups DEF d, Refitted, Kept
  <2>2. d.opsize = c.opsize
    BY <1>2, <1>9 DEF GroupOpsize
  <2>3. /\ class = "test8" => c.opsize = 1
        /\ class = "test" => c.opsize = Word(c.pfx, 8)
        /\ class \in {"test8", "test"}
    BY <1>1, <1>4, <1>9, Opsizes DEF Kept
  <2>4. c.opsize \in {1, 2, 4, 8}
    BY <1>1, <1>4, <1>9 DEF Kept
  <2>5. ~MovImmediate(d)
    BY <1>6, <2>3
  <2>6. ImmSize(d) = IF c.opsize < 4 THEN c.opsize ELSE 4
    BY <2>1, <2>2, <2>4, <2>5 DEF ImmSize
  <2>7. ImmSize(d) = ImmBytes(class, c.pfx, Reg(m))
    BY <1>3, <1>9, <2>3, <2>6 DEF ImmBytes, Word
  <2>8. SignExtends(d) \/ ImmSize(d) >= d.opsize
    BY <2>1, <2>2, <2>4, <2>5, <2>6 DEF SignExtends
  <2>9. e.sz # "kV"
    BY <1>1, <1>4, <1>9 DEF Kept, Fit
  <2>10. Fit(d.ent)
    BY <2>1, <2>9 DEF Fit, XmmRmSlots, MemorySlots, RmSlots, GprRmSlots
  <2>11. Sound(d)
    BY <2>1, <2>2, <2>4, <2>8, <2>10 DEF Sound, Filled
  <2> QED BY <2>1, <2>7, <2>11 DEF d, class, MemorySlots, RmSlots, GprRmSlots
<1>10. CASE e.grp = "kGrp5"
  <2>1. PICK mn \in {"incdec", "push", "branch"} : Refitted(c, m, mn, e.slots, e.imm, e.islot)
    BY <1>10, Regroups
  <2>2. /\ d.ent.mn = mn /\ d.ent.slots = <<"kRm">> /\ d.ent.islot = 0 /\ d.ent.imm = e.imm
        /\ d.ent.sz = e.sz
    BY <1>4, <1>10, <2>1 DEF d, Refitted, Kept
  <2>3. d.opsize \in {1, 2, 4, 8} /\ e.sz # "kV"
    BY <1>1, <1>2, <1>4, <1>10 DEF GroupOpsize, Kept, Fit
  <2>4. Fit(d.ent)
    BY <2>2, <2>3 DEF Fit, XmmRmSlots, MemorySlots, RmSlots, GprRmSlots
  <2>5. Sound(d)
    BY <2>2, <2>3, <2>4 DEF Sound, Filled
  <2> QED BY <1>7, <1>10, <2>2, <2>5 DEF d, class, MemorySlots, RmSlots, GprRmSlots
<1>11. CASE e.grp = "kGrp6" /\ Reg(m) = 7
  <2>1. /\ d.ent.mn = (IF Mod(m) = 3 THEN "swapgs" ELSE "invlpg")
        /\ d.ent.slots = (IF Mod(m) = 3 THEN <<>> ELSE <<"kRm8">>)
        /\ d.ent.islot = 0 /\ d.ent.imm = e.imm /\ d.ent.sz = e.sz
    BY <1>4, <1>11, Regroups DEF d, Refitted, Kept
  <2>2. d.opsize \in {1, 2, 4, 8} /\ e.sz # "kV"
    BY <1>1, <1>2, <1>4, <1>11 DEF GroupOpsize, Kept, Fit
  <2>3. Fit(d.ent)
    BY <2>1, <2>2 DEF Fit, XmmRmSlots, MemorySlots, RmSlots, GprRmSlots
  <2>4. Sound(d)
    BY <2>1, <2>2, <2>3 DEF Sound, Filled, Valued
  <2> QED BY <1>7, <1>11, <2>1, <2>4 DEF d, class, MemorySlots, RmSlots, GprRmSlots
<1>12. CASE e.grp \in {"kGrp9", "kGrpPs"}
  <2>1. d.ent.mn = e.mn /\ DOMAIN d.ent.slots = {1} /\ d.ent.imm = e.imm /\ d.ent.sz = e.sz
    BY <1>12, Regroups DEF d, Refitted
  <2>2. Sound(d)
    BY <1>4, <1>8, <1>12, <2>1 DEF Kept
  <2>3. Mod(m) = 3
    BY <1>12 DEF Rejected
  <2> QED BY <1>7, <1>12, <2>1, <2>2, <2>3 DEF d, class
<1>13. CASE e.grp = "kGrpAe" /\ Mod(m) = 3
  <2>1. d.ent.mn = e.mn /\ DOMAIN d.ent.slots = {} /\ d.ent.imm = e.imm /\ d.ent.sz = e.sz
    BY <1>13, Regroups DEF d, Refitted
  <2>2. Sound(d)
    BY <1>4, <1>8, <1>13, <2>1 DEF Kept
  <2> QED BY <1>7, <1>13, <2>1, <2>2 DEF d, class
<1>14. CASE e.mn = "endbr64"
  <2>1. /\ d.ent.mn = e.mn /\ d.ent.slots = <<>> /\ d.ent.imm = e.imm /\ d.ent.sz = e.sz
        /\ d.ent.islot = 0 /\ e.grp = "none"
    BY <1>4, <1>14, Regroups DEF d, Refitted, Kept
  <2>2. Mod(m) = 3
    BY <1>14 DEF Rejected, Mod
  <2>3. Fit(e) /\ d.opsize \in {1, 2, 4, 8}
    BY <1>1, <1>2, <1>14, <2>1 DEF GroupOpsize, NotExecuted
  <2>4. Fit(d.ent)
    BY <1>14, <2>1, <2>3 DEF Fit
  <2>5. Sound(d)
    BY <1>14, <2>1, <2>3, <2>4 DEF Sound, Filled, Valued
  <2> QED BY <1>7, <2>1, <2>2, <2>5 DEF d, class
<1>15. CASE /\ ~(e.grp = "kGrp3" /\ Reg(m) <= 1) /\ e.grp \notin {"kGrp5", "kGrp9", "kGrpPs"}
            /\ ~(e.grp = "kGrp6" /\ Reg(m) = 7) /\ ~(e.grp = "kGrpAe" /\ Mod(m) = 3)
            /\ e.mn # "endbr64"
  <2>1. d.ent = e /\ d.opsize = c.opsize
    BY <1>2, <1>15 DEF Regrouped, GroupOpsize
  <2>2. Given(d)
    BY <1>2, <2>1 DEF Given
  <2>3. class \in {"test8", "test"} => ~(Reg(m) < 2)
    BY <1>3, <1>4, <1>15 DEF Kept
  <2>4. Immediates(d.ent, class) /\ d.opsize = Opsize(d.ent.sz, d.pfx)
    BY <1>1, <1>2, <1>4, <2>1
  <2>5. ImmSize(d) = ImmBytes(class, c.pfx, Reg(m))
    BY <1>2, <1>5, <2>3, <2>4, ImmSizeIs
  <2>6. \E i \in DOMAIN e.slots : e.slots[i] \in MemorySlots
    BY <1>4, <1>15 DEF Reads
  <2> QED BY <2>1, <2>2, <2>5, <2>6, GivenSound DEF d, class
<1> QED BY <1>9, <1>10, <1>11, <1>12, <1>13, <1>14, <1>15

\* An entry that is not invalid comes from a row.
LEMMA TableGood ==
  ASSUME NEW esc, NEW rows, GoodRows(esc, rows), NEW op \in Byte, NEW p,
         Finalized(esc, p, Table(rows)[op]).mn # "invalid"
  PROVE  Good(esc, op, Finalized(esc, p, Table(rows)[op]))
<1> DEFINE found == {r \in rows : op \in r[1]}
<1>1. Table(rows)[op] = IF found = {} THEN Invalid ELSE (CHOOSE r \in found : TRUE)[2]
  BY DEF Table, Byte
<1>2. Finalized(esc, p, Invalid).mn = "invalid"
  <2>1. Invalid.mn = "invalid"
    BY DEF Invalid, Ent
  <2> QED BY <2>1 DEF Finalized
<1>3. found # {}
  BY <1>1, <1>2
<1>4. PICK r \in rows : op \in r[1] /\ Table(rows)[op] = r[2]
  <2>1. (CHOOSE r \in found : TRUE) \in found
    BY <1>3
  <2> QED BY <1>1, <1>3, <2>1
<1> HIDE DEF found
<1> QED BY <1>4 DEF GoodRows, GoodRow, GoodEntry

\* What the opcode leaves for the stages behind it.
Fresh(c, esc, op) == c.esc = esc /\ c.op = op /\ c.have = FALSE /\ c.modrm = 0

LEMMA SelectedIs ==
  ASSUME NEW esc, NEW op, NEW p, NEW ent, NEW c, c = Selected(esc, op, p, ent),
         Finalized(esc, p, ent).mn # "invalid" => Good(esc, op, Finalized(esc, p, ent))
  PROVE  Fresh(c, esc, op) /\ c.pfx = p /\ (c.ent.mn # "invalid" => Given(c))
<1>1. /\ c.esc = esc /\ c.op = op /\ c.have = FALSE /\ c.modrm = 0 /\ c.pfx = p
      /\ c.ent = Finalized(esc, p, ent) /\ c.opsize = Opsize(c.ent.sz, p)
  BY DEF Selected
<1> QED BY <1>1 DEF Given, Fresh

LEMMA PrefixSizes ==
  ASSUME NEW q, NEW x
  PROVE  LET p == Prefixes(q)
         IN  /\ [p EXCEPT !.rep = x].w = p.w /\ [p EXCEPT !.rep = x].opsz66 = p.opsz66
             /\ [p EXCEPT !.opsz66 = x].w = p.w
BY DEF Prefixes

\* The three ways of selecting an opcode.
LEMMA OneByteGiven ==
  ASSUME NEW op \in Byte, NEW q
  PROVE  LET p == Prefixes(q)
             c == OneByte(op, p)
         IN  /\ Fresh(c, FALSE, op) /\ c.pfx.w = p.w /\ c.pfx.opsz66 = p.opsz66
             /\ c.ent.mn # "invalid" => Given(c)
<1> DEFINE p == Prefixes(q)
           c == OneByte(op, p)
           pause == op = \h90 /\ p.rep = \hF3
           r == IF op \in \hA4 .. \hAF THEN p ELSE [p EXCEPT !.rep = 0]
           ent == IF pause THEN Plain("pause") ELSE PrimaryTable[op]
<1>1. c = Selected(FALSE, op, r, ent)
  BY DEF OneByte
<1>2. r.w = p.w /\ r.opsz66 = p.opsz66
  BY PrefixSizes
<1> HIDE DEF r, ent, c, p, pause
<1>5. /\ c.esc = FALSE /\ c.op = op /\ c.have = FALSE /\ c.modrm = 0 /\ c.pfx = r
      /\ c.ent = Finalized(FALSE, r, ent) /\ c.opsize = Opsize(c.ent.sz, r)
  BY <1>1 DEF Selected
<1>3. CASE pause
  <2>1. ent = E("pause", <<>>, "kD", "k0", 0, "none")
    BY <1>3, PlainIs DEF ent
  <2>2. Finalized(FALSE, r, ent) = ent
    BY DEF Finalized
  <2>3. ImmClass(FALSE, \h90) = "none" /\ HasModrm(FALSE, \h90) = FALSE
    BY DEF ImmClass, HasModrm, MapModrm, Tops, MapByte, MapFull
  <2>4. Entry(E("pause", <<>>, "kD", "k0", 0, "none"), "none", FALSE)
    BY DEF Entry, E, Formed, Fit, Kept, Immediates, Reads, Fills, NotExecuted, Valued
  <2>5. Good(FALSE, op, Finalized(FALSE, r, ent))
    BY <1>3, <2>1, <2>2, <2>3, <2>4 DEF Good, pause
  <2>6. Fresh(c, FALSE, op) /\ c.pfx = r /\ (c.ent.mn # "invalid" => Given(c))
    BY <1>5, <2>5 DEF Given, Fresh
  <2> QED BY <1>2, <2>6 DEF p, c
<1>4. CASE ~pause
  <2>1. ent = Table(kPrimary)[op]
    BY <1>4 DEF ent, PrimaryTable
  <2>2. Finalized(FALSE, r, ent).mn # "invalid" => Good(FALSE, op, Finalized(FALSE, r, ent))
    BY <2>1, PrimaryRows, TableGood
  <2>3. Fresh(c, FALSE, op) /\ c.pfx = r /\ (c.ent.mn # "invalid" => Given(c))
    BY <1>5, <2>2 DEF Given, Fresh
  <2> QED BY <1>2, <2>3 DEF p, c
<1> QED BY <1>3, <1>4

LEMMA TwoByteGiven ==
  ASSUME NEW op \in Byte, NEW p
  PROVE  LET c == TwoByte(op, p)
         IN  Fresh(c, TRUE, op) /\ (c.ent.mn # "invalid" => Given(c))
<1> DEFINE c == TwoByte(op, p)
<1> HIDE DEF c
<1> SUFFICES Fresh(c, TRUE, op) /\ (c.ent.mn # "invalid" => Given(c))
  BY DEF c
<1>1. ASSUME NEW r, NEW rows \in {kEscF3, kEsc66, kEscNone},
             c = Selected(TRUE, op, r, Table(rows)[op])
      PROVE  Fresh(c, TRUE, op) /\ (c.ent.mn # "invalid" => Given(c))
  <2>1. GoodRows(TRUE, rows)
    BY NoneRows, P66Rows, P3Rows
  <2>2. Finalized(TRUE, r, Table(rows)[op]).mn # "invalid"
           => Good(TRUE, op, Finalized(TRUE, r, Table(rows)[op]))
    BY <2>1, TableGood
  <2> QED BY <1>1, <2>2, SelectedIs
<1>2. CASE p.rep = \hF3 /\ P3Table[op] # Invalid
  <2>1. c = Selected(TRUE, op, [p EXCEPT !.rep = 0], Table(kEscF3)[op])
    BY <1>2 DEF c, TwoByte, P3Table
  <2> QED BY <1>1, <2>1
<1>3. CASE p.rep = 0 /\ p.opsz66 /\ P66Table[op] # Invalid
  <2>1. c = Selected(TRUE, op, [p EXCEPT !.opsz66 = FALSE], Table(kEsc66)[op])
    BY <1>3 DEF c, TwoByte, P66Table
  <2> QED BY <1>1, <2>1
<1>4. CASE /\ ~(p.rep = \hF3 /\ P3Table[op] # Invalid)
           /\ ~(p.rep = 0 /\ p.opsz66 /\ P66Table[op] # Invalid)
  <2>1. c = Selected(TRUE, op, [p EXCEPT !.rep = 0], Table(kEscNone)[op])
    BY <1>4 DEF c, TwoByte, NoneTable
  <2> QED BY <1>1, <2>1
<1> QED BY <1>2, <1>3, <1>4

LEMMA ThreeByteGiven ==
  ASSUME NEW esc, NEW op \in Byte, NEW p
  PROVE  LET c == ThreeByte(esc, op, p)
         IN  Fresh(c, TRUE, esc) /\ (c.ent.mn # "invalid" => Given(c) /\ esc = \h38)
<1> DEFINE c == ThreeByte(esc, op, p)
           r == [p EXCEPT !.opsz66 = FALSE]
           ent == IF esc = \h38 /\ p.opsz66 /\ p.rep = 0 THEN Esc38Table[op] ELSE Invalid
<1>1. c = Selected(TRUE, esc, r, ent)
  BY DEF ThreeByte
<1>2. ent = Invalid \/ (ent = XRegRm /\ esc = \h38)
  <2> DEFINE found == {row \in kEsc38Rows : op \in row[1]}
  <2>1. Esc38Table[op] = IF found = {} THEN Invalid ELSE (CHOOSE row \in found : TRUE)[2]
    BY DEF Esc38Table, Table, Byte
  <2>2. \A row \in found : row[2] = XRegRm
    BY DEF kEsc38Rows
  <2> HIDE DEF found
  <2>3. Esc38Table[op] \in {Invalid, XRegRm}
    BY <2>1, <2>2
  <2> QED BY <2>3
<1> HIDE DEF ent, r, c
<1>3. Finalized(TRUE, r, Invalid).mn = "invalid"
  <2>1. Invalid.mn = "invalid"
    BY DEF Invalid, Ent
  <2> QED BY <2>1 DEF Finalized
<1>4. Good(TRUE, \h38, Finalized(TRUE, r, XRegRm))
  <2>1. GoodEntry(TRUE, {\h38}, XRegRm)
    BY Esc38Rows DEF GoodRows, GoodRow
  <2> QED BY <2>1 DEF GoodEntry
<1>5. Finalized(TRUE, r, ent).mn # "invalid"
         => Good(TRUE, esc, Finalized(TRUE, r, ent)) /\ esc = \h38
  BY <1>2, <1>3, <1>4
<1>6. Fresh(c, TRUE, esc) /\ (c.ent.mn # "invalid" => Given(c))
  BY <1>1, <1>5, SelectedIs
<1>7. c.ent = Finalized(TRUE, r, ent)
  BY <1>1 DEF Selected
<1> QED BY <1>5, <1>6, <1>7 DEF c

-----------------------------------------------------------------------------
(* The bytes of an instruction.                                            *)

\* The bytes behind the ModRM byte up to the immediate.
Behind(s, pos, c) ==
    IF ~InMemory(c) THEN 0
    ELSE IF Rm(c.modrm) # 4 THEN DispSize(c.modrm, Rm(c.modrm))
    ELSE 1 + DispSize(c.modrm, s[pos + 1] % 8)

LEMMA AssembledExact ==
  ASSUME NEW s, NEW pos, NEW off, NEW c, Assembled(s, pos, off, c).kind = "kDecoded"
  PROVE  Assembled(s, pos, off, c) = Done(c, pos + ImmSize(c))
BY DEF Assembled, Immediate, Error, Truncated

LEMMA AssembleExact ==
  ASSUME NEW s, NEW pos \in Nat, NEW off, NEW c, c.opsize \in Nat,
         Assemble(s, pos, off, c).kind = "kDecoded"
  PROVE  Assemble(s, pos, off, c) = Done(c, pos + Behind(s, pos, c) + ImmSize(c))
<1>1. ASSUME NEW at \in Nat, NEW base, Displaced(s, at, off, c, base).kind = "kDecoded"
      PROVE  Displaced(s, at, off, c, base) = Done(c, at + DispSize(c.modrm, base) + ImmSize(c))
  <2>1. Displaced(s, at, off, c, base) = Assembled(s, at + DispSize(c.modrm, base), off, c)
    BY <1>1 DEF Displaced, Truncated
  <2> QED BY <1>1, <2>1, AssembledExact
<1>2. Assemble(s, pos, off, c) # Error("kUnsupportedOpcode", off)
  BY DEF Error
<1>3. CASE ~InMemory(c)
  <2>1. Assemble(s, pos, off, c) = Assembled(s, pos, off, c)
    BY <1>2, <1>3 DEF Assemble
  <2>2. pos + Behind(s, pos, c) = pos
    BY <1>3 DEF Behind
  <2> QED BY <2>1, <2>2, AssembledExact
<1>4. CASE InMemory(c) /\ Rm(c.modrm) # 4
  <2>1. Assemble(s, pos, off, c) = Displaced(s, pos, off, c, Rm(c.modrm))
    BY <1>2, <1>4 DEF Assemble
  <2> QED BY <1>1, <1>4, <2>1 DEF Behind
<1>5. CASE InMemory(c) /\ Rm(c.modrm) = 4
  <2>1. Assemble(s, pos, off, c) = Displaced(s, pos + 1, off, c, s[pos + 1] % 8)
    BY <1>2, <1>5 DEF Assemble, Truncated
  <2>2. pos + Behind(s, pos, c) = pos + 1 + DispSize(c.modrm, s[pos + 1] % 8)
    <3>1. DispSize(c.modrm, s[pos + 1] % 8) \in Nat
      BY DEF DispSize
    <3> QED BY <1>5, <3>1 DEF Behind
  <2> QED BY <1>1, <2>1, <2>2
<1> QED BY <1>3, <1>4, <1>5

\* A ModRM byte is read exactly when the map has one ...
LEMMA WantsIs ==
  ASSUME NEW c, Given(c)
  PROVE  WantsModrm(c) <=> HasModrm(c.esc, c.op)
<1> DEFINE e == c.ent
           class == ImmClass(c.esc, c.op)
<1>1. Reads(e, class, HasModrm(c.esc, c.op)) /\ (class = "moffs" => Moffs(c))
  BY Classes DEF Given, Good, Entry, Moffs
<1>2. SlotsOf(e) \cap (RmSlots \cup RegSlots) # {}
        <=> \E i \in DOMAIN e.slots : e.slots[i] \in RmSlots \cup RegSlots
  BY DEF SlotsOf
<1> HIDE DEF class
<1> QED BY <1>1, <1>2 DEF WantsModrm, Reads

\* ... and with what follows it the bytes that the map gives it.
LEMMA TailIs ==
  ASSUME NEW s \in Seq(Byte), NEW at \in 1 .. Len(s), NEW d, d.have = TRUE, d.modrm = s[at],
         InMemory(d) <=> Mod(s[at]) # 3
  PROVE  1 + Behind(s, at, d) = ArchModrm(s, at)
<1> DEFINE m == s[at]
<1>1. m \in Byte
  OBVIOUS
<1>2. Mod(m) \in 0 .. 3
  BY <1>1, Bits
<1> HIDE DEF m
<1>3. CASE Mod(m) = 3
  BY <1>3 DEF Behind, ArchModrm, m
<1>4. CASE Mod(m) # 3 /\ Rm(m) # 4
  <2>1. Behind(s, at, d) = DispSize(m, Rm(m))
    BY <1>4 DEF Behind, m
  <2>2. ArchModrm(s, at) = 1 + 0 + DispSize(m, Rm(m))
    BY <1>2, <1>4 DEF ArchModrm, DispSize, m
  <2>3. DispSize(m, Rm(m)) \in Nat
    BY DEF DispSize
  <2> QED BY <2>1, <2>2, <2>3
<1>5. CASE Mod(m) # 3 /\ Rm(m) = 4
  <2>1. Behind(s, at, d) = 1 + DispSize(m, s[at + 1] % 8)
    BY <1>5 DEF Behind, m
  <2>2. ArchModrm(s, at) = 1 + 1 + DispSize(m, s[at + 1] % 8)
    BY <1>2, <1>5 DEF ArchModrm, DispSize, m
  <2>3. DispSize(m, s[at + 1] % 8) \in Nat
    BY DEF DispSize
  <2> QED BY <2>1, <2>2, <2>3
<1> QED BY <1>3, <1>4, <1>5

\* A decoded instruction is sound and n bytes long.
Exact(r, n) == \E d : Sound(d) /\ r = Done(d, n)

RegAt(s, i) == IF i > Len(s) THEN 0 ELSE Reg(s[i])

LEMMA GivenOpsize ==
  ASSUME NEW c, Given(c)
  PROVE  c.opsize \in Nat
BY DEF Given, Opsize

\* The length and the operands of an instruction whose opcode is selected.
LEMMA ChosenExact ==
  ASSUME NEW s \in Seq(Byte), NEW pos \in 1 .. Len(s), NEW off, NEW c,
         NEW esc, NEW op, Fresh(c, esc, op), c.ent.mn # "invalid" => Given(c),
         Chosen(s, pos, off, c).kind = "kDecoded"
  PROVE  Exact(Chosen(s, pos, off, c),
               pos + (IF HasModrm(esc, op) THEN ArchModrm(s, pos + 1) ELSE 0)
                   + ImmBytes(ImmClass(esc, op), c.pfx, RegAt(s, pos + 1)))
<1>1. c.ent.mn # "invalid" /\ Chosen(s, pos, off, c) = Modrm(s, pos, off, c)
  BY DEF Chosen, Error
<1>2. Given(c) /\ c.opsize \in Nat /\ (WantsModrm(c) <=> HasModrm(esc, op))
  BY <1>1, GivenOpsize, WantsIs DEF Fresh
<1>3. Modrm(s, pos, off, c).kind = "kDecoded"
  BY <1>1
<1>4. CASE ~HasModrm(esc, op)
  <2>1. Modrm(s, pos, off, c) = Assemble(s, pos, off, c)
    BY <1>2, <1>4 DEF Modrm
  <2>2. Behind(s, pos, c) = 0
    BY DEF Behind, InMemory, Fresh
  <2>3. Assemble(s, pos, off, c) = Done(c, pos + Behind(s, pos, c) + ImmSize(c))
    BY <1>2, <1>3, <2>1, AssembleExact
  <2>4. ImmSize(c) = ImmBytes(ImmClass(esc, op), c.pfx, RegAt(s, pos + 1))
    <3>1. /\ Kept(c.ent, ImmClass(esc, op)) /\ Immediates(c.ent, ImmClass(esc, op))
          /\ Reads(c.ent, ImmClass(esc, op), HasModrm(esc, op))
          /\ c.opsize = Opsize(c.ent.sz, c.pfx)
      BY <1>2 DEF Given, Good, Entry, Fresh
    <3>2. ImmClass(esc, op) \notin {"test8", "test"}
      BY <1>4, <3>1 DEF Reads, Kept
    <3>3. ImmClass(esc, op) = ImmClass(c.esc, c.op)
      BY DEF Fresh
    <3> QED BY <3>1, <3>2, <3>3, ImmSizeIs
  <2>5. Sound(c)
    BY <1>2, GivenSound
  <2> QED BY <1>1, <1>4, <2>1, <2>2, <2>3, <2>4, <2>5 DEF Exact
<1>5. CASE HasModrm(esc, op)
  <2> DEFINE m == s[pos + 1]
             d == WithModrm(c, m)
  <2>1. pos + 1 \in 1 .. Len(s) /\ ~Rejected(c, m)
        /\ Modrm(s, pos, off, c) = Assemble(s, pos + 1, off, d)
    BY <1>2, <1>3, <1>5 DEF Modrm, Error, Truncated
  <2>2. m \in Byte
    BY <2>1
  <2>3. /\ Sound(d)
        /\ ImmSize(d) = ImmBytes(ImmClass(c.esc, c.op), c.pfx, Reg(m))
        /\ Mod(m) # 3 => \E i \in DOMAIN d.ent.slots : d.ent.slots[i] \in MemorySlots
    <3>1. HasModrm(c.esc, c.op)
      BY <1>5 DEF Fresh
    <3> QED BY <1>2, <2>1, <2>2, <3>1, ModrmExact
  <2>4. d.have = TRUE /\ d.modrm = m /\ d.opsize \in Nat
    BY <1>2 DEF WithModrm, GroupOpsize
  <2> HIDE DEF d
  <2>5. InMemory(d) <=> Mod(m) # 3
    BY <2>3, <2>4 DEF InMemory, SlotsOf, MemorySlots
  <2>6. 1 + Behind(s, pos + 1, d) = ArchModrm(s, pos + 1)
    BY <2>1, <2>4, <2>5, TailIs
  <2>7. Assemble(s, pos + 1, off, d) = Done(d, pos + 1 + Behind(s, pos + 1, d) + ImmSize(d))
    BY <1>3, <2>1, <2>4, AssembleExact
  <2>8. Behind(s, pos + 1, d) \in Nat
    BY DEF Behind, DispSize
  <2>9. pos + 1 + Behind(s, pos + 1, d) = pos + ArchModrm(s, pos + 1)
    BY <2>6, <2>8
  <2>10. ImmSize(d) = ImmBytes(ImmClass(esc, op), c.pfx, RegAt(s, pos + 1))
    BY <2>1, <2>3 DEF Fresh, RegAt
  <2> QED BY <1>1, <1>5, <2>1, <2>3, <2>7, <2>9, <2>10 DEF Exact
<1> QED BY <1>4, <1>5

LEMMA ArchImmediates ==
  ASSUME NEW op \in Byte, NEW p, NEW reg \in Nat
  PROVE  ArchImmediate(op, p.w, p.opsz66, reg) = ImmBytes(ImmClass(FALSE, op), p, reg)
<1>1. op \in MapByte =>
         op \notin MapFull \cup (\hB8 .. \hBF) \cup (\hA0 .. \hA3) \cup {\hC2, \hE8, \hE9, \hF6, \hF7}
  BY DEF MapByte, MapFull, Tops
<1>2. op \in MapFull =>
         op \notin (\hB8 .. \hBF) \cup (\hA0 .. \hA3) \cup {\hC2, \hE8, \hE9, \hF6, \hF7}
  BY DEF MapFull, Tops
<1> QED BY <1>1, <1>2 DEF ArchImmediate, ImmBytes, ImmClass, Word

\* The length by the map of an instruction whose prefixes decode_one() has read.
Extent(s) ==
    LET n == PrefixEnd(s)
        p == Prefixes(SubSeq(s, 1, n))
    IN  MapLength(s, n, p.w, p.opsz66)

LEMMA OneByteExact ==
  ASSUME NEW s \in Seq(Byte), NEW n \in 0 .. Len(s) - 1, n = PrefixEnd(s), s[n + 1] # \h0F,
         Chosen(s, n + 1, n, OneByte(s[n + 1], Prefixes(SubSeq(s, 1, n)))).kind = "kDecoded"
  PROVE  Exact(Chosen(s, n + 1, n, OneByte(s[n + 1], Prefixes(SubSeq(s, 1, n)))), Extent(s))
<1> DEFINE op == s[n + 1]
           q == SubSeq(s, 1, n)
           p == Prefixes(q)
           c == OneByte(op, p)
           class == ImmClass(FALSE, op)
           reg == RegAt(s, n + 2)
           modrm == IF op \in MapModrm THEN ArchModrm(s, n + 2) ELSE 0
<1>1. n + 1 \in 1 .. Len(s) /\ op \in Byte /\ (n + 1) + 1 = n + 2
  OBVIOUS
<1>2. Fresh(c, FALSE, op) /\ c.pfx.w = p.w /\ c.pfx.opsz66 = p.opsz66
      /\ (c.ent.mn # "invalid" => Given(c))
  BY <1>1, OneByteGiven
<1>3. reg \in Nat
  <2>1. CASE n + 2 > Len(s)
    BY <2>1 DEF RegAt
  <2>2. CASE n + 2 <= Len(s)
    <3>1. s[n + 2] \in Byte
      BY <2>2
    <3> QED BY <2>2, <3>1, Bits DEF RegAt
  <2> QED BY <2>1, <2>2
<1>4. Extent(s) = n + 1 + modrm + ArchImmediate(op, p.w, p.opsz66, reg)
  BY DEF Extent, MapLength, RegAt
<1>5. ArchImmediate(op, p.w, p.opsz66, reg) = ImmBytes(class, p, reg)
  BY <1>1, <1>3, ArchImmediates
<1> HIDE DEF op, p, q, c, reg
<1>6. ImmBytes(class, c.pfx, reg) = ImmBytes(class, p, reg)
  BY <1>2 DEF ImmBytes, Word
<1>7. Chosen(s, n + 1, n, c).kind = "kDecoded"
  BY DEF c, p, q, op
<1>8. Exact(Chosen(s, n + 1, n, c),
            n + 1 + (IF HasModrm(FALSE, op) THEN ArchModrm(s, (n + 1) + 1) ELSE 0)
                  + ImmBytes(ImmClass(FALSE, op), c.pfx, RegAt(s, (n + 1) + 1)))
  BY <1>1, <1>2, <1>7, ChosenExact
<1>9. (IF HasModrm(FALSE, op) THEN ArchModrm(s, (n + 1) + 1) ELSE 0) = modrm
  BY <1>1 DEF HasModrm
<1>10. RegAt(s, (n + 1) + 1) = reg
  BY <1>1 DEF reg
<1>11. Exact(Chosen(s, n + 1, n, c), n + 1 + modrm + ImmBytes(class, p, reg))
  BY <1>6, <1>8, <1>9, <1>10
<1>12. Exact(Chosen(s, n + 1, n, c), Extent(s))
  BY <1>4, <1>5, <1>11
<1> QED BY <1>12 DEF c, p, q, op

LEMMA TwoByteExact ==
  ASSUME NEW s \in Seq(Byte), NEW n \in 0 .. Len(s) - 2, n = PrefixEnd(s),
         s[n + 1] = \h0F, s[n + 2] \notin {\h38, \h3A}, NEW p,
         Chosen(s, n + 2, n, TwoByte(s[n + 2], p)).kind = "kDecoded"
  PROVE  Exact(Chosen(s, n + 2, n, TwoByte(s[n + 2], p)), Extent(s))
<1> DEFINE op == s[n + 2]
           c == TwoByte(op, p)
           class == ImmClass(TRUE, op)
           reg == RegAt(s, n + 3)
           modrm == IF op \in MapNoModrm THEN 0 ELSE ArchModrm(s, n + 3)
           imm == IF op \in MapEscByte THEN 1 ELSE IF op \in \h80 .. \h8F THEN 4 ELSE 0
<1>1. n + 2 \in 1 .. Len(s) /\ op \in Byte /\ (n + 2) + 1 = n + 3
  OBVIOUS
<1>2. Fresh(c, TRUE, op) /\ (c.ent.mn # "invalid" => Given(c))
  BY <1>1, TwoByteGiven
<1>4. Extent(s) = n + 2 + modrm + imm
  BY DEF Extent, MapLength
<1>5. ImmBytes(class, c.pfx, reg) = imm
  BY DEF ImmBytes, ImmClass
<1> HIDE DEF op, c, reg
<1>7. Chosen(s, n + 2, n, c).kind = "kDecoded"
  BY DEF c, op
<1>8. Exact(Chosen(s, n + 2, n, c),
            n + 2 + (IF HasModrm(TRUE, op) THEN ArchModrm(s, (n + 2) + 1) ELSE 0)
                  + ImmBytes(ImmClass(TRUE, op), c.pfx, RegAt(s, (n + 2) + 1)))
  BY <1>1, <1>2, <1>7, ChosenExact
<1>9. (IF HasModrm(TRUE, op) THEN ArchModrm(s, (n + 2) + 1) ELSE 0) = modrm
  BY <1>1 DEF HasModrm
<1>10. RegAt(s, (n + 2) + 1) = reg
  BY <1>1 DEF reg
<1> HIDE DEF modrm, imm, class
<1>11. Exact(Chosen(s, n + 2, n, c), n + 2 + modrm + imm)
  BY <1>5, <1>8, <1>9, <1>10 DEF class
<1>12. Exact(Chosen(s, n + 2, n, c), Extent(s))
  BY <1>4, <1>11
<1> QED BY <1>12 DEF c, op

LEMMA ThreeByteExact ==
  ASSUME NEW s \in Seq(Byte), NEW n \in 0 .. Len(s) - 3, n = PrefixEnd(s),
         s[n + 1] = \h0F, s[n + 2] \in {\h38, \h3A}, NEW p,
         Chosen(s, n + 3, n, ThreeByte(s[n + 2], s[n + 3], p)).kind = "kDecoded"
  PROVE  Exact(Chosen(s, n + 3, n, ThreeByte(s[n + 2], s[n + 3], p)), Extent(s))
<1> DEFINE op == s[n + 2]
           b == s[n + 3]
           c == ThreeByte(op, b, p)
           reg == RegAt(s, n + 4)
<1>1. n + 3 \in 1 .. Len(s) /\ b \in Byte /\ (n + 3) + 1 = n + 4
  OBVIOUS
<1>0. op \in {\h38, \h3A}
  OBVIOUS
<1>2. Fresh(c, TRUE, op) /\ (c.ent.mn # "invalid" => Given(c) /\ op = \h38)
  <2>1. op \in Byte
    BY <1>0 DEF Byte
  <2> HIDE DEF op, b
  <2> QED BY ZenonT(40), <2>1, <1>1, ThreeByteGiven
<1> HIDE DEF op, b
<1> HIDE DEF c, reg
<1>3. Chosen(s, n + 3, n, c).kind = "kDecoded"
  BY DEF c, b, op
<1>4. op = \h38
  BY <1>2, <1>3 DEF Chosen, Error
<1>5. Extent(s) = n + 3 + ArchModrm(s, n + 4)
  BY <1>4 DEF Extent, MapLength, op
<1>6. HasModrm(TRUE, op) /\ ImmClass(TRUE, op) = "none"
  BY <1>4 DEF HasModrm, MapNoModrm, ImmClass, MapEscByte
<1>7. ImmBytes("none", c.pfx, reg) = 0
  BY DEF ImmBytes
<1>8. Exact(Chosen(s, n + 3, n, c),
            n + 3 + (IF HasModrm(TRUE, op) THEN ArchModrm(s, (n + 3) + 1) ELSE 0)
                  + ImmBytes(ImmClass(TRUE, op), c.pfx, RegAt(s, (n + 3) + 1)))
  BY <1>1, <1>2, <1>3, ChosenExact
<1>9. Exact(Chosen(s, n + 3, n, c), n + 3 + ArchModrm(s, n + 4) + 0)
  BY <1>1, <1>6, <1>7, <1>8 DEF reg
<1>10. ArchModrm(s, n + 4) \in Nat
  BY DEF ArchModrm
<1>11. Exact(Chosen(s, n + 3, n, c), Extent(s))
  BY <1>5, <1>9, <1>10
<1> QED BY <1>11 DEF c, b, op

\* decode_one().
LEMMA DecodeExact ==
  ASSUME NEW s \in Seq(Byte), Decode(s).kind = "kDecoded"
  PROVE  Exact(Decode(s), Extent(s))
<1> DEFINE n == PrefixEnd(s)
           p == Prefixes(SubSeq(s, 1, n))
<1>1. n \in 0 .. Len(s)
  BY PrefixEndExists
<1>2. n # Len(s) /\ s[n + 1] # \h67 /\ Decode(s) = Opcode(s, n, p)
  BY DEF Decode, Truncated, Error
<1> HIDE DEF n
<1>3. n \in 0 .. Len(s) - 1
  BY <1>1, <1>2
<1>4. CASE s[n + 1] # \h0F
  <2>1. Decode(s) = Chosen(s, n + 1, n, OneByte(s[n + 1], p))
    BY <1>2, <1>4 DEF Opcode
  <2> QED BY <1>3, <1>4, <2>1, OneByteExact DEF n
<1>5. CASE s[n + 1] = \h0F /\ s[n + 2] \notin {\h38, \h3A}
  <2>0. Opcode(s, n, p).kind # "kTruncated"
    BY <1>2
  <2>1. n + 2 <= Len(s) /\ Decode(s) = Chosen(s, n + 2, n, TwoByte(s[n + 2], p))
    BY <1>2, <1>3, <1>5, <2>0 DEF Opcode, Truncated
  <2>2. n \in 0 .. Len(s) - 2
    BY <1>3, <2>1
  <2> QED BY <1>5, <2>1, <2>2, TwoByteExact DEF n
<1>6. CASE s[n + 1] = \h0F /\ s[n + 2] \in {\h38, \h3A}
  <2>0. Opcode(s, n, p).kind # "kTruncated"
    BY <1>2
  <2>1. n + 3 <= Len(s) /\ Decode(s) = Chosen(s, n + 3, n, ThreeByte(s[n + 2], s[n + 3], p))
    BY <1>2, <1>3, <1>6, <2>0 DEF Opcode, Truncated
  <2>2. n \in 0 .. Len(s) - 3
    BY <1>3, <2>1
  <2> QED BY <1>6, <2>1, <2>2, ThreeByteExact DEF n
<1> QED BY <1>4, <1>5, <1>6

-----------------------------------------------------------------------------
(* The prefixes, as decode_one() and as the architecture reads them.       *)

\* Both see the opcode at the same place.
LEMMA OpcodeIs ==
  ASSUME NEW s \in Seq(Byte), NEW n \in 0 .. Len(s) - 1, Ends(s, n), s[n + 1] # \h67
  PROVE  /\ OpcodeAt(s) = n + 1
         /\ \A i \in 1 .. n : s[i] \in PrefixBytes
<1> DEFINE Here(i) == /\ s[i] \notin LegacyPrefixes \cup RexPrefixes
                      /\ \A j \in 1 .. i - 1 : s[j] \in LegacyPrefixes \cup RexPrefixes
<1>1. \A b \in Byte \ {\h67} : b \in PrefixBytes <=> b \in LegacyPrefixes \cup RexPrefixes
  BY DEF PrefixBytes, SegBytes, RexBytes, LegacyPrefixes, RexPrefixes, Byte
<1>2. \A i \in 1 .. n : s[i] \in PrefixBytes /\ s[i] \in Byte
  BY DEF Ends
<1>3. \A i \in 1 .. n : s[i] \in LegacyPrefixes \cup RexPrefixes
  <2> TAKE i \in 1 .. n
  <2>1. \h67 \notin PrefixBytes
    BY DEF PrefixBytes, SegBytes, RexBytes
  <2>2. s[i] \in Byte \ {\h67} /\ s[i] \in PrefixBytes
    BY <1>2, <2>1
  <2> QED BY <1>1, <2>2
<1>4. s[n + 1] \in Byte \ {\h67} /\ s[n + 1] \notin PrefixBytes
  BY DEF Ends
<1>5. n + 1 \in 1 .. Len(s) /\ Here(n + 1)
  BY <1>1, <1>3, <1>4
<1>6. ASSUME NEW i \in 1 .. Len(s), Here(i) PROVE i = n + 1
  <2>1. ~(i < n + 1)
    BY <1>3, <1>6
  <2>2. ~(n + 1 < i)
    BY <1>5, <1>6
  <2> QED BY <2>1, <2>2
<1>7. OpcodeAt(s) = CHOOSE i \in 1 .. Len(s) : Here(i)
  BY DEF OpcodeAt
<1> HIDE DEF Here
<1> QED BY <1>2, <1>5, <1>6, <1>7

\* The last prefix of a class that is there.
LEMMA LatestIs ==
  ASSUME NEW q \in Seq(Byte), NEW class, Seen(q, class)
  PROVE  \E m \in 1 .. Len(q) : /\ q[m] \in class /\ Latest(q, class) = q[m]
                               /\ \A j \in m + 1 .. Len(q) : q[j] \notin class
<1> DEFINE Last(i) == q[i] \in class /\ \A j \in i + 1 .. Len(q) : q[j] \notin class
           T == {k \in Nat : k < Len(q) /\ q[Len(q) - k] \in class}
<1>1. PICK i \in 1 .. Len(q) : q[i] \in class
  BY DEF Seen
<1>2. Len(q) - i \in Nat /\ Len(q) - i < Len(q) /\ Len(q) - (Len(q) - i) = i
  OBVIOUS
<1>3. T \in SUBSET Nat /\ T # {}
  BY <1>1, <1>2
<1>4. PICK k \in T : \A y \in T : k <= y
  BY <1>3, LeastNatural
<1> DEFINE m == Len(q) - k
<1>5. m \in 1 .. Len(q) /\ q[m] \in class
  BY <1>4
<1>6. ASSUME NEW j \in m + 1 .. Len(q), q[j] \in class PROVE FALSE
  <2>1. Len(q) - j \in Nat /\ Len(q) - j < Len(q) /\ Len(q) - (Len(q) - j) = j
        /\ Len(q) - j < k
    BY <1>5
  <2>2. Len(q) - j \in T
    BY <1>6, <2>1
  <2> QED BY <1>4, <2>1, <2>2
<1>7. m \in DOMAIN q /\ Last(m)
  BY <1>5, <1>6
<1>8. Latest(q, class) = q[CHOOSE j \in DOMAIN q : Last(j)]
  BY DEF Latest
<1> HIDE DEF m, T
<1>9. PICK x \in DOMAIN q : Last(x) /\ x = CHOOSE j \in DOMAIN q : Last(j)
  <2> HIDE DEF Last
  <2> QED BY <1>7
<1>10. x \in 1 .. Len(q) /\ Latest(q, class) = q[x]
  BY <1>8, <1>9
<1> QED BY <1>9, <1>10

\* REX.W as the loop of parse_prefixes() leaves it is that of the architecture,
\* or a misplaced one.
LEMMA WideIs ==
  ASSUME NEW s \in Seq(Byte), NEW n \in 0 .. Len(s) - 1, Ends(s, n), s[n + 1] # \h67
  PROVE  /\ Prefixes(SubSeq(s, 1, n)).w <=> ArchW(s) \/ MisplacedW(s)
         /\ Prefixes(SubSeq(s, 1, n)).opsz66 <=> \E i \in 1 .. n : s[i] = \h66
<1> DEFINE q == SubSeq(s, 1, n)
<1>1. /\ q \in Seq(Byte) /\ Len(q) = n
      /\ \A i \in 1 .. n : q[i] = s[i] /\ q[i] \in Byte
  OBVIOUS
<1>2. OpcodeAt(s) = n + 1 /\ \A i \in 1 .. n : s[i] \in PrefixBytes
  BY OpcodeIs
<1>3. ArchW(s) <=> n > 0 /\ s[n] \in RexW
  BY <1>2 DEF ArchW
<1>4. MisplacedW(s) <=> \E i \in 1 .. n - 1 :
                          s[i] \in RexW /\ \A j \in i + 1 .. n : s[j] \in LegacyPrefixes
  BY <1>2 DEF MisplacedW
<1>5. Prefixes(q).opsz66 <=> \E i \in 1 .. n : s[i] = \h66
  <2> HIDE DEF q
  <2>1. Prefixes(q).opsz66 = Seen(q, {\h66})
    BY DEF Prefixes
  <2>2. Seen(q, {\h66}) <=> \E i \in 1 .. n : s[i] = \h66
    BY <1>1 DEF Seen
  <2> QED BY <2>1, <2>2
<1>6. Prefixes(q).w <=> (Latest(q, RexBytes) \div 8) % 2 = 1
  BY DEF Prefixes
<1> HIDE DEF q
<1>7. /\ RexW \subseteq RexBytes
      /\ \A b \in RexBytes : b \notin LegacyPrefixes
      /\ \A b \in PrefixBytes : b \notin RexBytes => b \in LegacyPrefixes
      /\ \A b \in RexBytes : (b \div 8) % 2 = 1 <=> b \in RexW
  BY DEF RexW, RexBytes, LegacyPrefixes, PrefixBytes, SegBytes
<1>8. CASE Seen(q, RexBytes)
  <2>1. PICK m \in 1 .. n : /\ s[m] \in RexBytes /\ Latest(q, RexBytes) = s[m]
                           /\ \A j \in m + 1 .. n : s[j] \notin RexBytes
    <3>1. PICK m \in 1 .. Len(q) : /\ q[m] \in RexBytes /\ Latest(q, RexBytes) = q[m]
                                  /\ \A j \in m + 1 .. Len(q) : q[j] \notin RexBytes
      BY <1>1, <1>8, LatestIs
    <3>2. m \in 1 .. n /\ q[m] = s[m] /\ \A j \in m + 1 .. n : q[j] = s[j] /\ q[j] \notin RexBytes
      BY <1>1, <3>1
    <3> QED BY <3>1, <3>2
  <2>2. Prefixes(q).w <=> s[m] \in RexW
    BY <1>6, <1>7, <2>1
  <2>3. \A j \in m + 1 .. n : s[j] \in LegacyPrefixes
    BY <1>2, <1>7, <2>1
  <2>4. CASE m = n
    <3>1. ~MisplacedW(s)
      BY <1>4, <1>7, <2>1, <2>4
    <3> QED BY <1>3, <1>5, <2>2, <2>4, <3>1 DEF q
  <2>5. CASE m < n
    <3>1. ~ArchW(s)
      BY <1>3, <1>7, <2>1, <2>5
    <3>2. s[m] \in RexW => MisplacedW(s)
      BY <1>4, <2>3, <2>5
    <3>3. ASSUME NEW i \in 1 .. n - 1, s[i] \in RexW, \A j \in i + 1 .. n : s[j] \in LegacyPrefixes
          PROVE  i = m
      <4>1. ~(i < m)
        BY <1>7, <2>1, <3>3
      <4>2. ~(m < i)
        BY <1>7, <2>1, <3>3
      <4> QED BY <4>1, <4>2
    <3>4. MisplacedW(s) => s[m] \in RexW
      BY <1>4, <3>3
    <3> QED BY <1>5, <2>2, <3>1, <3>2, <3>4 DEF q
  <2> QED BY <2>1, <2>4, <2>5
<1>9. CASE ~Seen(q, RexBytes)
  <2>1. \A i \in 1 .. n : s[i] \notin RexBytes
    BY <1>1, <1>9 DEF Seen
  <2>2. ~ArchW(s) /\ ~MisplacedW(s)
    BY <1>3, <1>4, <1>7, <2>1
  <2>3. ~Prefixes(q).w
    BY <1>6, <1>9 DEF Latest
  <2> QED BY <1>5, <2>2, <2>3 DEF q
<1> QED BY <1>8, <1>9

LEMMA ExtentIs ==
  ASSUME NEW s \in Seq(Byte), Decode(s).kind = "kDecoded"
  PROVE  Extent(s) = ArchLength(s, ArchW(s) \/ MisplacedW(s))
<1> DEFINE n == PrefixEnd(s)
<1>1. n \in 0 .. Len(s) /\ Ends(s, n)
  BY PrefixEndExists
<1>2. n # Len(s) /\ s[n + 1] # \h67
  BY DEF Decode, Truncated, Error
<1>3. Extent(s) = MapLength(s, n, Prefixes(SubSeq(s, 1, n)).w, Prefixes(SubSeq(s, 1, n)).opsz66)
  BY DEF Extent
<1> HIDE DEF n
<1>4. n \in 0 .. Len(s) - 1
  BY <1>1, <1>2
<1>5. /\ Prefixes(SubSeq(s, 1, n)).w <=> ArchW(s) \/ MisplacedW(s)
      /\ Prefixes(SubSeq(s, 1, n)).opsz66 <=> \E i \in 1 .. n : s[i] = \h66
  BY <1>1, <1>2, <1>4, WideIs
<1>6. /\ Prefixes(SubSeq(s, 1, n)).w \in BOOLEAN
      /\ Prefixes(SubSeq(s, 1, n)).opsz66 \in BOOLEAN
      /\ MisplacedW(s) \in BOOLEAN /\ ArchW(s) \in BOOLEAN
  BY DEF Prefixes, Seen, MisplacedW, ArchW
<1>7. OpcodeAt(s) - 1 = n
  BY <1>1, <1>2, <1>4, OpcodeIs
<1>8. ArchLength(s, ArchW(s) \/ MisplacedW(s))
         = MapLength(s, n, ArchW(s) \/ MisplacedW(s), \E i \in 1 .. n : s[i] = \h66)
  BY <1>7 DEF ArchLength
<1>9. /\ Prefixes(SubSeq(s, 1, n)).w = (ArchW(s) \/ MisplacedW(s))
      /\ Prefixes(SubSeq(s, 1, n)).opsz66 = \E i \in 1 .. n : s[i] = \h66
  BY <1>5, <1>6
<1> QED BY Zenon, <1>3, <1>8, <1>9

-----------------------------------------------------------------------------
(* The theorems.                                                           *)

IInv ==
    /\ bytes \in Seq(Byte) /\ Len(bytes) <= Window
    /\ late \in 0 .. Trailing
    /\ result = Decode(bytes)

\* A step adds a byte; the verdict follows.
LEMMA StepAppends ==
  ASSUME IInv, Next
  PROVE  \E b \in Byte : /\ Len(bytes) < Window
                         /\ bytes' = Append(bytes, b)
                         /\ result' = Decode(bytes')
                         /\ late' \in 0 .. Trailing
<1>0. Trailing \in Nat /\ Inputs["after"] \subseteq Byte
  BY DecoderAssumption DEF Byte
<1>1. ASSUME NEW b \in 0 .. 255, Arrive(b)
      PROVE  b \in Byte /\ Len(bytes) < Window /\ bytes' = Append(bytes, b)
             /\ result' = Decode(bytes') /\ late' = late
  BY <1>1 DEF Arrive, Byte
<1>2. ASSUME NEW b \in Inputs["after"], Overrun(b), b \in Byte
      PROVE  Len(bytes) < Window /\ bytes' = Append(bytes, b)
             /\ result' = Decode(bytes') /\ late' \in 0 .. Trailing
  BY <1>0, <1>2 DEF Overrun, IInv
<1>3. ASSUME NEW b \in Inputs["after"], Overrun(b) PROVE b \in Byte
  BY <1>0, <1>3
<1> QED BY <1>1, <1>2, <1>3 DEF Next, IInv

LEMMA Inductive == Spec => []IInv
<1>1. Init => IInv
  BY DecoderAssumption DEF Init, IInv, Byte
<1>2. IInv /\ [Next]_vars => IInv'
  <2> SUFFICES ASSUME IInv, [Next]_vars PROVE IInv'
    OBVIOUS
  <2>1. CASE Next
    <3>1. PICK b \in Byte : /\ Len(bytes) < Window
                            /\ bytes' = Append(bytes, b)
                            /\ result' = Decode(bytes')
                            /\ late' \in 0 .. Trailing
      BY <2>1, StepAppends
    <3>2. bytes' \in Seq(Byte) /\ Len(bytes') = Len(bytes) + 1
      BY <3>1 DEF IInv
    <3>3. Len(bytes') <= Window
      BY <3>1, <3>2, DecoderAssumption DEF IInv
    <3> QED BY <3>1, <3>2, <3>3 DEF IInv
  <2>2. CASE UNCHANGED vars
    BY <2>2 DEF IInv, vars
  <2> QED BY <2>1, <2>2
<1> QED BY <1>1, <1>2, PTL DEF Spec

\* Every error decode_one() reports names a byte of the input, every truncation
\* none behind its end, and every length fits its field (decoder.cpp 18-543).
THEOREM DecoderTypeCorrect == Spec => []TypeOK
<1>1. IInv => TypeOK
  <2> SUFFICES ASSUME IInv PROVE TypeOK
    OBVIOUS
  <2>1. Within(result, 0, Len(bytes)) /\ Len(bytes) \in Nat
    BY DecodeWithin DEF IInv
  <2>2. \A used \in Nat : used % LengthVals \in 0 .. LengthVals - 1
    BY DecoderAssumption
  <2>3. CASE result.kind = "kTruncated"
    BY <2>1, <2>3 DEF IInv, TypeOK, Within, Undecided, Byte, Errors
  <2>4. CASE result.kind = "kDecoded"
    <3>1. PICK used \in 0 .. Len(bytes) : result.length = used % LengthVals
      BY <2>1, <2>4 DEF Within, Errors
    <3> QED BY <2>1, <2>2, <2>4, <3>1 DEF IInv, TypeOK, Byte
  <2>5. CASE result.kind \in Errors
    <3>1. result.offset \in 0 .. Len(bytes) - 1 /\ result.kind # "kTruncated" /\ result.kind # "kDecoded"
      BY <2>1, <2>5 DEF Within, Errors
    <3> QED BY <2>1, <2>5, <3>1 DEF IInv, TypeOK, Undecided, Byte, Errors
  <2> QED BY <2>1, <2>3, <2>4, <2>5 DEF Within
<1> QED BY <1>1, Inductive, PTL

\* The decoder keeps InsnStream's promise for windows that its length field can
\* count: it answers at the last byte of an instruction, and the same whatever
\* follows (what fetch in cpu.cpp rests on when it retries with fewer bytes).
THEOREM DecoderImplementsStream ==
  ASSUME Window < LengthVals
  PROVE  Spec => ImplementsStream
<1> USE DEF Stream!Open
<1> DEFINE Verdict == IF Undecided THEN [kind |-> "kTruncated"] ELSE result
<1>1. Init => Stream!Init
  <2> SUFFICES ASSUME Init PROVE Stream!Init
    OBVIOUS
  <2>1. PrefixEnd(<<>>) = 0
    <3> DEFINE s == <<>>
    <3>1. s \in Seq(Byte) /\ Len(s) = 0
      OBVIOUS
    <3> HIDE DEF s
    <3>2. PrefixEnd(s) \in 0 .. 0
      BY <3>1, PrefixEndExists
    <3> QED BY <3>2 DEF s
  <2>2. result.kind = "kTruncated"
    BY <2>1 DEF Init, Decode, Truncated
  <2> QED BY <2>2 DEF Init, Stream!Init, Undecided
<1>2. IInv /\ [Next]_vars => [Stream!Next]_<<Len(bytes), Verdict>>
  <2> SUFFICES ASSUME IInv, [Next]_vars
               PROVE  [Stream!Next]_<<Len(bytes), Verdict>>
    OBVIOUS
  <2>1. CASE UNCHANGED vars
    BY <2>1 DEF vars, Undecided
  <2>2. CASE Next
    <3>1. PICK b \in Byte : /\ Len(bytes) < Window
                            /\ bytes' = Append(bytes, b)
                            /\ result' = Decode(bytes')
      BY <2>2, StepAppends
    <3>2. bytes \in Seq(Byte) /\ Len(bytes) \in Nat /\ Len(bytes') = Len(bytes) + 1
      BY <3>1 DEF IInv
    <3>3. Settles(result, result', Len(bytes))
      BY <3>1, DecodeSettles DEF IInv
    <3>4. CASE ~Undecided
      <4>1. result' = result
        BY <3>3, <3>4 DEF Settles, Undecided
      <4> QED BY <3>2, <3>4, <4>1 DEF Stream!Next, Stream!Keep, Undecided
    <3>5. CASE Undecided
      <4>1. result'.kind = "kTruncated" \/ Within(result', Len(bytes) + 1, Len(bytes) + 1)
        BY <3>3, <3>5 DEF Settles, Undecided
      <4>2. CASE result'.kind = "kTruncated"
        BY <3>2, <3>5, <4>2 DEF Stream!Next, Stream!Decide, Undecided
      <4>3. CASE result'.kind # "kTruncated"
        <5>1. Within(result', Len(bytes) + 1, Len(bytes) + 1)
          BY <4>1, <4>3
        <5>2. Stream!Fits(result', Len(bytes)')
          <6>1. CASE result'.kind = "kDecoded"
            <7>1. result'.length = (Len(bytes) + 1) % LengthVals
              BY <3>2, <5>1, <6>1 DEF Within, Errors
            <7>2. Len(bytes) + 1 \in 0 .. LengthVals - 1
              BY <3>1, <3>2, DecoderAssumption
            <7>3. (Len(bytes) + 1) % LengthVals = Len(bytes) + 1
              BY <7>2, DecoderAssumption
            <7> QED BY <3>2, <6>1, <7>1, <7>3 DEF Stream!Fits
          <6>2. CASE result'.kind # "kDecoded"
            BY <3>2, <4>3, <5>1, <6>2 DEF Within, Stream!Fits
          <6> QED BY <6>1, <6>2
        <5> QED BY <3>2, <3>5, <4>3, <5>2 DEF Stream!Next, Stream!Decide, Undecided
      <4> QED BY <4>2, <4>3
    <3> QED BY <3>4, <3>5
  <2> QED BY <2>1, <2>2
<1> HIDE DEF Verdict
<1> QED BY <1>1, <1>2, Inductive, PTL DEF Spec, ImplementsStream, Stream!Spec, Verdict

\* Every instruction decode_one() accepts is as long as the opcode map of the
\* architecture says, for every sequence of bytes in which no legacy prefix
\* follows a REX.W; where one does, as long as with that REX directly before
\* the opcode (tables.cpp, internal.hpp 412, decoder.cpp; test_decode.cpp 294).
THEOREM LengthsExact == Spec => []LengthExact
<1>1. IInv => LengthExact
  <2> SUFFICES ASSUME IInv, result.kind = "kDecoded"
               PROVE  /\ ~MisplacedW(bytes) =>
                            result.length = ArchLength(bytes, ArchW(bytes)) % LengthVals
                      /\ MisplacedW(bytes) =>
                            result.length = ArchLength(bytes, TRUE) % LengthVals
    BY DEF LengthExact
  <2>1. Exact(result, Extent(bytes))
    BY DecodeExact DEF IInv
  <2>2. PICK d : result = Done(d, Extent(bytes))
    BY <2>1 DEF Exact
  <2>3. result.length = Extent(bytes) % LengthVals
    BY <2>2 DEF Done
  <2>4. Extent(bytes) = ArchLength(bytes, ArchW(bytes) \/ MisplacedW(bytes))
    BY ExtentIs DEF IInv
  <2>5. CASE ~MisplacedW(bytes)
    <3>1. (ArchW(bytes) \/ MisplacedW(bytes)) = ArchW(bytes)
      BY <2>5 DEF ArchW
    <3> QED BY Zenon, <2>3, <2>4, <2>5, <3>1
  <2>6. CASE MisplacedW(bytes)
    <3>1. (ArchW(bytes) \/ MisplacedW(bytes)) = TRUE
      BY <2>6
    <3> QED BY Zenon, <2>3, <2>4, <2>6, <3>1
  <2> QED BY <2>5, <2>6
<1> QED BY <1>1, Inductive, PTL

\* Every executed instruction decode_one() accepts has the operands that
\* execute() takes for granted (dispatch.cpp).
THEOREM ContractIsKept == Spec => []ContractKept
<1>1. IInv => ContractKept
  <2> SUFFICES ASSUME IInv, result.kind = "kDecoded", result.mn \notin NotExecuted
               PROVE  Contract(result)
    BY DEF ContractKept, Contract
  <2>1. Exact(result, Extent(bytes))
    BY DecodeExact DEF IInv
  <2>2. PICK d : Sound(d) /\ result = Done(d, Extent(bytes))
    BY <2>1 DEF Exact
  <2>3. d.ent.mn \notin NotExecuted
    BY <2>2 DEF Done
  <2> QED BY <2>2, <2>3, ContractHolds
<1> QED BY <1>1, Inductive, PTL

\* No immediate that is an operand's value is narrower than the operand unless
\* it is sign-extended (decoder.cpp 496).
THEOREM ImmediatesFill == Spec => []ImmediateFills
<1>1. IInv => ImmediateFills
  <2> SUFFICES ASSUME IInv, result.kind = "kDecoded", result.mn \in Valued,
                      NEW i \in 1 .. 3, result.ops[i].kind = "imm"
               PROVE  result.sext \/ result.ops[i].size >= result.opsize
    BY DEF ImmediateFills, Valued
  <2>1. Exact(result, Extent(bytes))
    BY DecodeExact DEF IInv
  <2>2. PICK d : Sound(d) /\ result = Done(d, Extent(bytes))
    BY <2>1 DEF Exact
  <2>3. /\ result.mn = d.ent.mn /\ result.ops = Operands(d)
        /\ result.sext = SignExtends(d) /\ result.opsize = d.opsize
    BY <2>2 DEF Done
  <2> QED BY <2>2, <2>3, FillsHold
<1> QED BY <1>1, Inductive, PTL
=============================================================================
