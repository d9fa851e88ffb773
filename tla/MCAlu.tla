-------------------------------- MODULE MCAlu --------------------------------
(* Two-bit bytes: operands of 2, 4, 8 and 16 bits, nibbles of one bit.       *)
EXTENDS Alu

\* Zero, one, and the signed and unsigned edges of each width.
MCWords == {{i \in 0 .. 15 : (n \div 2 ^ i) % 2 = 1} :
               n \in {0, 1, 2, 3, 7, 8, 13, 15, 127, 128, 255, 256, 32767, 32768, 43981, 65535}}

\* Counts that are zero, mask to zero, and lie at, around and beyond each width.
MCCounts == {0, 1, 3, 4, 5, 8, 15, 17}
=============================================================================
