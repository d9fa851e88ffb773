------------------------------ MODULE Scheduler ------------------------------
(***************************************************************************)
(* The icount-driven event queue shared by all machine lines               *)
(* (kernel/scheduler.hpp, kernel/scheduler.cpp).                           *)
(*                                                                         *)
(* The program is single-threaded, but dispatch() runs callbacks that may  *)
(* call schedule() again.  So dispatch() is not one step here: the test of *)
(* the while condition together with the pop is a step (Fire), every       *)
(* schedule() made by the running callback is a step, and so are the       *)
(* return of the callback and the exit of the loop.  What a callback does  *)
(* to the scheduler is arbitrary; what it does to devices belongs to the   *)
(* modules that compose this one.                                          *)
(***************************************************************************)
EXTENDS Naturals, Sequences, FiniteSets

CONSTANTS
    MaxTick,     \* bound: the largest icount and deadline considered
    MaxEvents,   \* bound: how many schedule() calls a behaviour makes
    Actions,     \* the callbacks clients install
    Honour       \* do callbacks keep "deadlines only move forward"?

ASSUME BoundsAssumption == MaxTick \in Nat /\ MaxEvents \in Nat
ASSUME HonourAssumption == Honour \in BOOLEAN

Tick == 0 .. MaxTick

VARIABLES
    queue,       \* queue_: the pending events
    next_seq,    \* next_seq_
    pc,          \* where dispatch() stands
    now,         \* its argument
    event,       \* its local copy of the event whose action runs
    log,         \* history: every event fired, in order, with the icount
    pass_start   \* history: Len(log) when the current dispatch() was entered

vars == <<queue, next_seq, pc, now, event, log, pass_start>>

(***************************************************************************)
(* An event remembers, for the properties only, how many events had fired  *)
(* when it was scheduled (born).                                           *)
(***************************************************************************)
Event == [at : Tick, seq : Nat, action : Actions, born : Nat]
Fired == [at : Tick, seq : Nat, action : Actions, born : Nat, now : Tick]
NoEvent == [seq |-> "none"]

Init ==
    /\ queue = {}
    /\ next_seq = 0
    /\ pc = "idle"
    /\ now = 0
    /\ event = NoEvent
    /\ log = <<>>
    /\ pass_start = 0

-----------------------------------------------------------------------------
\* Plausible slips, substituted for the definitions below when the properties
\* are tried against them.
Slip_NoTieBreak(e, f) == e.at < f.at
Slip_LifoTies(e, f) == e.at < f.at \/ (e.at = f.at /\ e.seq > f.seq)

\* Events fire in deadline order, then in schedule order: Later, reversed.
Before(e, f) == e.at < f.at \/ (e.at = f.at /\ e.seq < f.seq)

\* e may be queue_.top(): nothing pending is before it.
IsTop(e) == e \in queue /\ \A f \in queue : ~Before(f, e)

Slip_Strict(e) == IsTop(e) /\ e.at < now
Slip_AnyDue(e) == e \in queue /\ e.at <= now

\* The loop condition of dispatch().
IsDue(e) == IsTop(e) /\ e.at <= now

-----------------------------------------------------------------------------
Slip_Relative(at, action) ==
    /\ next_seq < MaxEvents
    /\ queue' = queue \cup
         {[at |-> now + at, seq |-> next_seq, action |-> action, born |-> Len(log)]}
    /\ next_seq' = next_seq + 1

\* schedule(at, action).
Schedule(at, action) ==
    /\ next_seq < MaxEvents
    /\ queue' = queue \cup
         {[at |-> at, seq |-> next_seq, action |-> action, born |-> Len(log)]}
    /\ next_seq' = next_seq + 1

\* A device or the host schedules between two dispatches; the deadline may
\* already be past.
HostSchedule(at, action) ==
    /\ pc = "idle"
    /\ Schedule(at, action)
    /\ UNCHANGED <<pc, now, event, log, pass_start>>

\* dispatch(n) is entered.
Dispatch(n) ==
    /\ pc = "idle"
    /\ pc' = "loop"
    /\ now' = n
    /\ pass_start' = Len(log)
    /\ UNCHANGED <<queue, next_seq, event, log>>

Slip_NotPopped ==
    /\ pc = "loop"
    /\ \E e \in queue :
        /\ IsDue(e)
        /\ event' = e
        /\ queue' = IF Cardinality(queue) > 1 THEN queue \ {e} ELSE queue
        /\ log' = Append(log, [at |-> e.at, seq |-> e.seq, action |-> e.action,
                               born |-> e.born, now |-> now])
    /\ Len(log) < MaxEvents
    /\ pc' = "action"
    /\ UNCHANGED <<next_seq, now, pass_start>>

\* The loop finds a due event: copies it, pops it, and only then calls it.
Fire ==
    /\ pc = "loop"
    /\ \E e \in queue :
        /\ IsDue(e)
        /\ event' = e
        /\ queue' = queue \ {e}
        /\ log' = Append(log, [at |-> e.at, seq |-> e.seq, action |-> e.action,
                               born |-> e.born, now |-> now])
    /\ pc' = "action"
    /\ UNCHANGED <<next_seq, now, pass_start>>

\* The running callback schedules a further event.
CallbackSchedule(at, action) ==
    /\ pc = "action"
    /\ Honour => at >= event.at
    /\ Schedule(at, action)
    /\ UNCHANGED <<pc, now, event, log, pass_start>>

Slip_ReturnLeaves ==
    /\ pc = "action"
    /\ pc' = "idle"
    /\ event' = NoEvent
    /\ UNCHANGED <<queue, next_seq, now, log, pass_start>>

\* The callback returns into the loop.
Return ==
    /\ pc = "action"
    /\ pc' = "loop"
    /\ event' = NoEvent
    /\ UNCHANGED <<queue, next_seq, now, log, pass_start>>

\* Nothing is due: dispatch() returns.
Leave ==
    /\ pc = "loop"
    /\ \A e \in queue : ~IsDue(e)
    /\ pc' = "idle"
    /\ UNCHANGED <<queue, next_seq, now, event, log, pass_start>>

Next ==
    \/ \E at \in Tick, action \in Actions : HostSchedule(at, action)
    \/ \E n \in Tick : Dispatch(n)
    \/ Fire
    \/ \E at \in Tick, action \in Actions : CallbackSchedule(at, action)
    \/ Return
    \/ Leave

Spec == Init /\ [][Next]_vars

(***************************************************************************)
(* The clock the machines drive it with: every dispatch() is for a later   *)
(* icount than the one before (the next one in the CPU, further on in a    *)
(* test that jumps), and once more for the last one of the bound.          *)
(* Fairness: a callback that was called returns, the loop goes on (the     *)
(* thread is never descheduled for ever) and the machine keeps retiring.   *)
(***************************************************************************)
Advance == \E n \in Tick : (n > now \/ n = MaxTick) /\ Dispatch(n)

LiveNext ==
    \/ \E at \in Tick, action \in Actions :
          HostSchedule(at, action) \/ CallbackSchedule(at, action)
    \/ Advance
    \/ Fire
    \/ Return
    \/ Leave

LiveSpec ==
    /\ Init
    /\ [][LiveNext]_vars
    /\ WF_vars(Advance)
    /\ WF_vars(Fire)
    /\ WF_vars(Return)
    /\ WF_vars(Leave)

-----------------------------------------------------------------------------
(* Properties.                                                             *)

\* Every variable stays within its type, bounds included.
TypeOK ==
    /\ queue \in SUBSET Event
    /\ next_seq \in 0 .. MaxEvents
    /\ pc \in {"idle", "loop", "action"}
    /\ now \in Tick
    /\ event \in Event \cup {NoEvent}
    /\ pc = "action" => event \in Event
    /\ log \in Seq(Fired)
    /\ pass_start \in 0 .. Len(log)

\* Exactly once: whatever callbacks schedule while the loop runs, every event
\* ever accepted by schedule() is either still pending or has fired, never
\* both, never twice, and none is lost (scheduler.cpp 19-22: pop, then call).
ExactlyOnce ==
    /\ \A s \in 0 .. next_seq - 1 :
          (\E e \in queue : e.seq = s) \/ (\E i \in 1 .. Len(log) : log[i].seq = s)
    /\ \A i \in 1 .. Len(log) : \A e \in queue : e.seq # log[i].seq
    /\ \A i, j \in 1 .. Len(log) : log[i].seq = log[j].seq => i = j

\* The determinism contract (scheduler.hpp 28-31) rests on the choice of the
\* next event being forced: two tops are the same event.
TopUnique == \A e, f \in queue : IsTop(e) /\ IsTop(f) => e = f

\* No inversion, with no assumption on callers: when g fired after e although
\* its (deadline, sequence) is smaller, g did not exist yet when e fired.
NoInversion ==
    \A i, j \in 1 .. Len(log) :
        i < j /\ Before(log[j], log[i]) => log[j].born >= i

\* If callbacks keep the contract of schedule() ("must not schedule further
\* events that expire before at"), one dispatch() fires in strictly increasing
\* (deadline, sequence) order, events joining the pass included.
PassOrdered ==
    \A i, j \in pass_start + 1 .. Len(log) : i < j => Before(log[i], log[j])

\* When dispatch(now) returns it has fired all that was due, events scheduled
\* during the pass included, and nothing that was not.
DispatchExact ==
    [][pc # "idle" /\ pc' = "idle" =>
         /\ \A e \in queue' : e.at > now
         /\ \A i \in pass_start + 1 .. Len(log') : log'[i].at <= now]_vars

\* An event that was scheduled fires: the clock reaches its deadline and the
\* dispatch of that icount does not forget it.
EventuallyFires ==
    \A s \in 0 .. MaxEvents - 1 :
        next_seq > s ~> \E i \in 1 .. Len(log) : log[i].seq = s

-----------------------------------------------------------------------------
(* The timing wheel the queue stands for.                                  *)

\* Of a queue q: what is due at t, what is ahead of e there, and the event
\* that i - 1 others are ahead of.
DueAt(q, t) == {e \in q : e.at = t}
Ahead(q, e) == {f \in q : f.at = e.at /\ f.seq < e.seq}
Nth(q, t, i) == {e \in DueAt(q, t) : Cardinality(Ahead(q, e)) = i - 1}

The(S) == CHOOSE e \in S : TRUE

\* The slot of t: the pending events due at t in schedule order.
SlotOf(q, t) ==
    [i \in 1 .. Cardinality(DueAt(q, t)) |-> The(Nth(q, t, i)).seq]

Wheel == INSTANCE TimingWheel WITH
    Slots <- Tick,
    Ids   <- 0 .. MaxEvents - 1,
    slot  <- [t \in Tick |-> SlotOf(queue, t)],
    clock <- now,
    open  <- pc # "idle"

\* The scheduler implements one FIFO slot per icount: the heap order on
\* (deadline, sequence) never lets an event overtake an older one of the same
\* deadline, nor an earlier slot be skipped, whatever callbacks schedule.
ImplementsWheel == Wheel!WheelSpec
=============================================================================
