------------------------------ MODULE MCDecoder ------------------------------
(* Every opcode of both maps, every value of reg with memory and register    *)
(* operands, every addressing form, and prefixes of each class in any order. *)
EXTENDS Decoder

MCPrefixes == {\h66, \hF2, \hF3, \h48, \h67}
OneByteMap == (0 .. 255) \ PrefixBytes
TwoByteMap == 0 .. 255

\* The values of reg with a plain base, with a register, and the other forms.
MCModrms == {8 * r : r \in 0 .. 7} \cup {192 + 8 * r : r \in 0 .. 7}
    \cup {\h04, \h05, \h0C, \h44, \h85, \hFA}

MCInputs ==
    [opcode |-> MCPrefixes \cup OneByteMap, opcode2 |-> TwoByteMap, opcode3 |-> {\h29, \h00},
     modrm |-> MCModrms, sib |-> {\h20, \h65}, disp |-> {0}, imm |-> {0}, after |-> {\h00}]
=============================================================================
