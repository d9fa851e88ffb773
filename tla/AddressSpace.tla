---------------------------- MODULE AddressSpace ----------------------------
(***************************************************************************)
(* What the bus promises its masters: a partial map from guest addresses   *)
(* to cells.  Every address leads to at most one cell for ever, a cell of  *)
(* memory holds one byte, an access of w bytes goes to the cells of its w  *)
(* addresses, least significant byte first, and does all of it or nothing. *)
(* There is no table, no search and no mapping here.                       *)
(***************************************************************************)
EXTENDS Naturals

CONSTANTS
    Addresses,   \* the guest addresses
    MemCells,    \* the bytes of memory: <<memory, position>>
    PortCells,   \* where a 32-bit write is a command to a device
    OtherCells,  \* mapped, with nothing behind them
    ByteBits,    \* how many bits a byte has
    AccessWidths \* the widths of an access, in bytes

VARIABLES
    view,    \* the cell of each attached address
    store,   \* the byte of each memory cell
    reply    \* what the last call returned

space == <<view, store, reply>>

Failed == [ok |-> FALSE]
Answer(v) == [ok |-> TRUE, value |-> v]
Digit(v, i) == (v \div 2 ^ (i * ByteBits)) % 2 ^ ByteBits

SpaceInit ==
    /\ view = [a \in {} |-> 0]
    /\ store = [c \in MemCells |-> 0]
    /\ reply = Answer(0)

\* The w addresses from a lead to w consecutive bytes of one memory.
Whole(a, w) ==
    LET seen == view
    IN  \A i \in 0 .. w - 1 :
            /\ a + i \in DOMAIN seen
            /\ seen[a + i] \in MemCells
            /\ seen[a + i] = <<seen[a][1], seen[a][2] + i>>

Attach ==
    /\ DOMAIN view \subseteq DOMAIN view'
    /\ DOMAIN view # DOMAIN view'
    /\ DOMAIN view' \subseteq Addresses
    /\ \A a \in DOMAIN view : view'[a] = view[a]
    /\ \A a \in DOMAIN view' : view'[a] \in MemCells \cup PortCells \cup OtherCells
    /\ reply' = Answer(0)
    /\ UNCHANGED store

Load(a, w) ==
    /\ Whole(a, w)
    /\ \E v \in 0 .. 2 ^ (w * ByteBits) - 1 :
          /\ \A i \in 0 .. w - 1 : Digit(v, i) = store[view[a + i]]
          /\ reply' = Answer(v)
    /\ UNCHANGED <<view, store>>

Save(a, w, v) ==
    /\ LET first == view[a]
       IN  store' = [c \in MemCells |->
                        IF c[1] = first[1] /\ c[2] \in first[2] .. first[2] + w - 1
                        THEN Digit(v, c[2] - first[2])
                        ELSE store[c]]
    /\ reply' = Answer(0)
    /\ UNCHANGED view

Command(a, w) ==
    /\ a \in DOMAIN view
    /\ view[a] \in PortCells
    /\ w = 4
    /\ reply' = Answer(0)
    /\ UNCHANGED <<view, store>>

\* A call fails without effect.
Refuse ==
    /\ reply' = Failed
    /\ UNCHANGED <<view, store>>

SpaceNext ==
    \/ Attach
    \/ \E a \in Addresses, w \in AccessWidths :
          \/ Load(a, w)
          \/ Command(a, w)
          \/ Whole(a, w) /\ \E v \in 0 .. 2 ^ (w * ByteBits) - 1 : Save(a, w, v)
    \/ Refuse

SpaceSpec == SpaceInit /\ [][SpaceNext]_space
=============================================================================
