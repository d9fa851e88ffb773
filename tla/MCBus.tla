-------------------------------- MODULE MCBus --------------------------------
(* The bus on small instances.                                              *)
EXTENDS Bus

CONSTANTS rom, ram, exit

MCRam == {rom, ram}
MCExit == {exit}
MCSize == [r \in MCRam |-> IF r = ram THEN 4 ELSE 1]

\* Ranges that are empty, run past the end of the space, touch, overlap from
\* either side or contain one another, the same RAM mapped twice among them.
\* Every mapping is at least as large as its RAM, as in the machines the
\* repository builds.
MCBases == {0, 1, 4}
MCSizes == [r \in Region |->
    IF r = ram THEN {0, 4} ELSE IF r = rom THEN {1, 7} ELSE {1, 3}]

\* Of the values of a width, those that tell its bytes apart.
MCWriteVals == [w \in Widths |-> CASE w = 4 -> {6} [] w = 2 -> {1, 2} [] OTHER -> {0, 1}]
=============================================================================
