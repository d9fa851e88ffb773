------------------------------- MODULE MCGrp3 --------------------------------
(* One-bit bytes, so words of eight bits with halves of four, and every      *)
(* narrow operand below.                                                     *)
EXTENDS Grp3

\* Zero, one, the signed and unsigned edges of every width and of the halves.
MCAccs == {0, 1, 2, 5, 7, 8, 15, 16, 100, 127, 128, 129, 171, 240, 254, 255}
MCHighs == {0, 1, 7, 8, 15, 63, 64, 127, 128, 191, 192, 254, 255}
MCSources == {0, 1, 2, 3, 8, 13, 15, 17, 127, 128, 129, 200, 254, 255}
=============================================================================
