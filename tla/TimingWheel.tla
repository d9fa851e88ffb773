----------------------------- MODULE TimingWheel -----------------------------
(***************************************************************************)
(* What the scheduler promises, said without sequence numbers or a heap:   *)
(* one first-in-first-out slot per icount.  An event enters the tail of    *)
(* its slot; the only event that may leave is the head of the earliest     *)
(* slot that is not empty, once the clock handed to dispatch has reached   *)
(* the slot.                                                               *)
(***************************************************************************)
EXTENDS Naturals, Sequences

CONSTANTS Slots,   \* the deadlines, a set of naturals
          Ids      \* the events

VARIABLES slot,    \* slot[t]: the events due at t, oldest first
          clock,   \* the icount of the dispatch in progress, or the last one
          open     \* is a dispatch in progress?

wheel == <<slot, clock, open>>

WheelInit ==
    /\ slot = [t \in Slots |-> <<>>]
    /\ clock = 0
    /\ open = FALSE

Enter(t, id) ==
    /\ slot' = [slot EXCEPT ![t] = Append(@, id)]
    /\ UNCHANGED <<clock, open>>

Open(t) ==
    /\ ~open
    /\ open' = TRUE
    /\ clock' = t
    /\ UNCHANGED slot

Expire(t) ==
    /\ open
    /\ t <= clock
    /\ slot[t] # <<>>
    /\ \A u \in Slots : u < t => slot[u] = <<>>
    /\ slot' = [slot EXCEPT ![t] = Tail(@)]
    /\ UNCHANGED <<clock, open>>

Close ==
    /\ open
    /\ \A t \in Slots : t <= clock => slot[t] = <<>>
    /\ open' = FALSE
    /\ UNCHANGED <<slot, clock>>

WheelNext ==
    \/ \E t \in Slots, id \in Ids : Enter(t, id)
    \/ \E t \in Slots : Open(t) \/ Expire(t)
    \/ Close

WheelSpec == WheelInit /\ [][WheelNext]_wheel
=============================================================================
