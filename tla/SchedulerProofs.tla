--------------------------- MODULE SchedulerProofs ---------------------------
(***************************************************************************)
(* Proofs about the scheduler, for every bound, every set of callbacks and *)
(* whatever the callbacks schedule.                                        *)
(***************************************************************************)
EXTENDS Scheduler, NatFacts, SequenceTheorems, TLAPS

(***************************************************************************)
(* Sequence numbers identify events: numbers in use are below next_seq_,   *)
(* and no two pending events share one.                                    *)
(***************************************************************************)
Numbered ==
    /\ \A e \in queue : e.seq < next_seq /\ e.born <= Len(log)
    /\ \A i \in 1 .. Len(log) : log[i].seq < next_seq
    /\ \A e, f \in queue : e.seq = f.seq => e = f

\* What is pending and smaller than a fired event arrived after it fired.
LateComers ==
    \A i \in 1 .. Len(log) : \A e \in queue :
        Before(e, log[i]) => e.born >= i

\* While a pass runs, what it has fired comes before all that is pending, and
\* the event whose callback runs is the last one fired.
PassBehind ==
    pc # "idle" =>
        \A i \in pass_start + 1 .. Len(log) : \A e \in queue : Before(log[i], e)

ActionIsLast ==
    pc = "action" => Len(log) > pass_start /\ log[Len(log)].at = event.at

\* Nothing fires ahead of its deadline.
PassDue ==
    pc # "idle" => \A i \in pass_start + 1 .. Len(log) : log[i].at <= now

-----------------------------------------------------------------------------
\* The types of what the actions build.
LEMMA AppendLog ==
  ASSUME NEW l \in Seq(Fired), NEW r \in Fired
  PROVE  /\ Append(l, r) \in Seq(Fired)
         /\ Len(Append(l, r)) = Len(l) + 1
         /\ Append(l, r)[Len(l) + 1] = r
         /\ \A i \in 1 .. Len(l) : Append(l, r)[i] = l[i]
OBVIOUS

\* What TypeOK says of the elements of the queue and of the log.
LEMMA Elements ==
  ASSUME TypeOK
  PROVE  /\ Len(log) \in Nat
         /\ \A e \in queue : e.seq \in Nat /\ e.at \in Nat /\ e.born \in Nat
         /\ \A i \in 1 .. Len(log) : log[i] \in Fired
         /\ \A i \in 1 .. Len(log) :
               log[i].seq \in Nat /\ log[i].at \in Nat /\ log[i].born \in Nat
<1>1. \A t \in Tick : t \in Nat
  BY DEF Tick
<1>2. \A e \in queue : e.seq \in Nat /\ e.at \in Nat /\ e.born \in Nat
  BY <1>1 DEF TypeOK, Event
<1>3. log \in Seq(Fired) /\ Len(log) \in Nat
  BY DEF TypeOK
<1>4. \A i \in 1 .. Len(log) : log[i] \in Fired
  <2> HIDE DEF Fired
  <2> QED BY <1>3
<1>5. \A r \in Fired : r.seq \in Nat /\ r.at \in Nat /\ r.born \in Nat
  BY <1>1 DEF Fired
<1> QED BY <1>2, <1>3, <1>4, <1>5

LEMMA TypeInit == Init => TypeOK
BY BoundsAssumption DEF Init, TypeOK, Tick, Event, Fired

LEMMA TypeNext == TypeOK /\ [Next]_vars => TypeOK'
<1> SUFFICES ASSUME TypeOK, [Next]_vars PROVE TypeOK'
  OBVIOUS
<1> USE BoundsAssumption
<1>1. ASSUME NEW at \in Tick, NEW action \in Actions, Schedule(at, action)
      PROVE  queue' \in SUBSET Event /\ next_seq' \in 0 .. MaxEvents
  BY <1>1 DEF Schedule, TypeOK, Event
<1>2. ASSUME NEW at \in Tick, NEW action \in Actions, HostSchedule(at, action)
      PROVE  TypeOK'
  BY <1>1, <1>2 DEF HostSchedule, TypeOK
<1>3. ASSUME NEW n \in Tick, Dispatch(n) PROVE TypeOK'
  BY <1>3 DEF Dispatch, TypeOK
<1>4. CASE Fire
  <2>1. PICK e \in queue :
          /\ event' = e
          /\ queue' = queue \ {e}
          /\ log' = Append(log, [at |-> e.at, seq |-> e.seq, action |-> e.action,
                                 born |-> e.born, now |-> now])
    BY <1>4 DEF Fire
  <2>2. e \in Event /\ e.born \in Nat
    BY DEF TypeOK, Event
  <2>3. [at |-> e.at, seq |-> e.seq, action |-> e.action,
         born |-> e.born, now |-> now] \in Fired
    BY <2>2 DEF TypeOK, Event, Fired
  <2>4. log' \in Seq(Fired) /\ Len(log') = Len(log) + 1
    BY <2>1, <2>3, AppendLog DEF TypeOK
  <2>5. pass_start' \in 0 .. Len(log')
    BY <1>4, <2>4 DEF Fire, TypeOK
  <2> QED BY <1>4, <2>1, <2>2, <2>4, <2>5 DEF Fire, TypeOK
<1>5. ASSUME NEW at \in Tick, NEW action \in Actions, CallbackSchedule(at, action)
      PROVE  TypeOK'
  BY <1>1, <1>5 DEF CallbackSchedule, TypeOK
<1>6. CASE Return
  BY <1>6 DEF Return, TypeOK
<1>7. CASE Leave
  BY <1>7 DEF Leave, TypeOK
<1>8. CASE UNCHANGED vars
  BY <1>8 DEF vars, TypeOK
<1> QED BY <1>2, <1>3, <1>4, <1>5, <1>6, <1>7, <1>8 DEF Next

\* Every variable of the scheduler stays within its type, the bounds on the
\* sequence numbers included.
THEOREM TypeCorrect == Spec => []TypeOK
<1>1. Init => TypeOK
  BY TypeInit
<1>2. TypeOK /\ [Next]_vars => TypeOK'
  BY TypeNext
<1> QED BY <1>1, <1>2, PTL DEF Spec

-----------------------------------------------------------------------------
(***************************************************************************)
(* Exactly once, and no inversion.  Only schedule() and the pop touch the  *)
(* queue and the log, so the two lemmas below are the whole argument.      *)
(***************************************************************************)
Core == Numbered /\ ExactlyOnce /\ LateComers /\ NoInversion

LEMMA CoreInit == Init => Core
BY DEF Init, Core, Numbered, ExactlyOnce, LateComers, NoInversion

\* schedule() takes a number nobody holds, and the newcomer is younger than
\* everything that fired.
LEMMA CoreSchedule ==
  ASSUME TypeOK, Core, NEW at \in Tick, NEW action \in Actions,
         Schedule(at, action), UNCHANGED log
  PROVE  Core'
<1> DEFINE r == [at |-> at, seq |-> next_seq, action |-> action, born |-> Len(log)]
<1>1. /\ queue' = queue \cup {r}
      /\ next_seq' = next_seq + 1
      /\ next_seq \in Nat
      /\ r.seq = next_seq /\ r.born = Len(log) /\ r.at = at
  BY DEF Schedule, TypeOK
<1>2. /\ Len(log) \in Nat
      /\ \A e \in queue : e.seq \in Nat
      /\ \A i \in 1 .. Len(log) : log[i].seq \in Nat
  BY Elements
<1> HIDE DEF r
<1>3. Numbered'
  BY <1>1, <1>2 DEF Core, Numbered
<1>4. ExactlyOnce'
  <2>1. \A s \in 0 .. next_seq' - 1 :
          (\E e \in queue' : e.seq = s) \/ (\E i \in 1 .. Len(log) : log[i].seq = s)
    <3> SUFFICES ASSUME NEW s \in 0 .. next_seq' - 1
                 PROVE  (\E e \in queue' : e.seq = s)
                        \/ (\E i \in 1 .. Len(log) : log[i].seq = s)
      OBVIOUS
    <3>1. CASE s = next_seq
      BY <1>1, <3>1
    <3>2. CASE s \in 0 .. next_seq - 1
      BY <1>1, <3>2 DEF Core, ExactlyOnce
    <3> QED BY <1>1, <3>1, <3>2
  <2>2. \A i \in 1 .. Len(log) : \A e \in queue' : e.seq # log[i].seq
    BY <1>1, <1>2 DEF Core, ExactlyOnce, Numbered
  <2> QED BY <2>1, <2>2 DEF Core, ExactlyOnce
<1>5. LateComers'
  BY <1>1, <1>2 DEF Core, LateComers
<1>6. NoInversion'
  BY DEF Core, NoInversion
<1> QED BY <1>3, <1>4, <1>5, <1>6 DEF Core

\* The pop moves one event, the top, from the queue to the end of the log.
LEMMA CoreFire == ASSUME TypeOK, Core, Fire PROVE Core'
<1>1. PICK e \in queue :
        /\ IsDue(e)
        /\ queue' = queue \ {e}
        /\ log' = Append(log, [at |-> e.at, seq |-> e.seq, action |-> e.action,
                               born |-> e.born, now |-> now])
        /\ next_seq' = next_seq
  BY DEF Fire
<1> DEFINE r == [at |-> e.at, seq |-> e.seq, action |-> e.action,
                 born |-> e.born, now |-> now]
           n == Len(log)
<1>2. e \in Event
  BY DEF TypeOK
<1>3. r \in Fired /\ r.at = e.at /\ r.seq = e.seq /\ r.born = e.born
  BY <1>2 DEF TypeOK, Event, Fired
<1>4. /\ n \in Nat
      /\ Len(log') = n + 1
      /\ log'[n + 1] = r
      /\ \A i \in 1 .. n : log'[i] = log[i]
  BY <1>1, <1>3, AppendLog DEF TypeOK
<1>5. /\ \A f \in queue : f.seq \in Nat /\ f.at \in Nat /\ f.born \in Nat
      /\ \A i \in 1 .. n : log[i].seq \in Nat /\ log[i].at \in Nat
  BY Elements
<1> HIDE DEF r, n
<1>6. 1 .. Len(log') = (1 .. n) \cup {n + 1}
  BY <1>4
<1>7. Numbered'
  <2>1. \A f \in queue' : f.seq < next_seq' /\ f.born <= Len(log')
    BY <1>1, <1>4, <1>5 DEF Core, Numbered, n
  <2>2. \A i \in 1 .. Len(log') : log'[i].seq < next_seq'
    BY <1>1, <1>3, <1>4, <1>6 DEF Core, Numbered, n
  <2> QED BY <1>1, <2>1, <2>2 DEF Core, Numbered
<1>8. ExactlyOnce'
  <2>1. \A s \in 0 .. next_seq' - 1 :
          (\E f \in queue' : f.seq = s) \/ (\E i \in 1 .. Len(log') : log'[i].seq = s)
    <3> SUFFICES ASSUME NEW s \in 0 .. next_seq' - 1
                 PROVE  (\E f \in queue' : f.seq = s)
                        \/ (\E i \in 1 .. Len(log') : log'[i].seq = s)
      OBVIOUS
    <3>1. CASE s = e.seq
      BY <1>3, <1>4, <1>6, <3>1
    <3>2. CASE \E f \in queue \ {e} : f.seq = s
      BY <1>1, <3>2
    <3>3. CASE \E i \in 1 .. n : log[i].seq = s
      BY <1>4, <1>6, <3>3
    <3> QED BY <1>1, <3>1, <3>2, <3>3 DEF Core, ExactlyOnce, n
  <2>2. \A i \in 1 .. Len(log') : \A f \in queue' : f.seq # log'[i].seq
    BY <1>1, <1>3, <1>4, <1>6 DEF Core, ExactlyOnce, Numbered, n
  <2>3. \A i, j \in 1 .. Len(log') : log'[i].seq = log'[j].seq => i = j
    BY <1>1, <1>3, <1>4, <1>6 DEF Core, ExactlyOnce, n
  <2> QED BY <2>1, <2>2, <2>3 DEF ExactlyOnce
<1>9. LateComers'
  <2>1. \A f \in queue' : ~Before(f, r)
    BY <1>1, <1>3 DEF IsDue, IsTop, Before
  <2>2. \A i \in 1 .. n : \A f \in queue' : Before(f, log'[i]) => f.born >= i
    BY <1>1, <1>4 DEF Core, LateComers, n
  <2> QED BY <1>4, <1>6, <2>1, <2>2 DEF LateComers
<1>10. NoInversion'
  <2>1. \A i \in 1 .. n : Before(r, log[i]) => r.born >= i
    BY <1>1, <1>3 DEF Core, LateComers, Before, n
  <2>2. \A i, j \in 1 .. n : i < j /\ Before(log[j], log[i]) => log[j].born >= i
    BY DEF Core, NoInversion, n
  <2> SUFFICES ASSUME NEW i \in 1 .. Len(log'), NEW j \in 1 .. Len(log'),
                      i < j, Before(log'[j], log'[i])
               PROVE  log'[j].born >= i
    BY DEF NoInversion
  <2>3. i \in 1 .. n
    BY <1>4, <1>6
  <2>4. CASE j = n + 1
    BY <1>4, <2>1, <2>3, <2>4
  <2>5. CASE j \in 1 .. n
    BY <1>4, <2>2, <2>3, <2>5
  <2> QED BY <1>6, <2>4, <2>5
<1> QED BY <1>7, <1>8, <1>9, <1>10 DEF Core

LEMMA CoreNext == TypeOK /\ Core /\ [Next]_vars => Core'
<1> SUFFICES ASSUME TypeOK, Core, [Next]_vars PROVE Core'
  OBVIOUS
<1>1. ASSUME NEW at \in Tick, NEW action \in Actions, HostSchedule(at, action)
      PROVE  Core'
  BY <1>1, CoreSchedule DEF HostSchedule
<1>2. ASSUME NEW at \in Tick, NEW action \in Actions, CallbackSchedule(at, action)
      PROVE  Core'
  BY <1>2, CoreSchedule DEF CallbackSchedule
<1>3. CASE Fire
  BY <1>3, CoreFire
<1>4. CASE UNCHANGED <<queue, next_seq, log>>
  BY <1>4 DEF Core, Numbered, ExactlyOnce, LateComers, NoInversion
<1>5. (\E n \in Tick : Dispatch(n)) \/ Return \/ Leave \/ UNCHANGED vars
      => UNCHANGED <<queue, next_seq, log>>
  BY DEF Dispatch, Return, Leave, vars
<1> QED BY <1>1, <1>2, <1>3, <1>4, <1>5 DEF Next

LEMMA CoreCorrect == Spec => [](TypeOK /\ Core)
<1>1. Init => TypeOK /\ Core
  BY TypeInit, CoreInit
<1>2. TypeOK /\ Core /\ [Next]_vars => (TypeOK /\ Core)'
  BY TypeNext, CoreNext
<1> QED BY <1>1, <1>2, PTL DEF Spec

\* Every accepted event is pending or has fired, exactly one of the two and
\* once, whatever the callbacks schedule while the loop runs.
THEOREM FiresExactlyOnce == Spec => []ExactlyOnce
<1>1. TypeOK /\ Core => ExactlyOnce
  BY DEF Core
<1> QED BY <1>1, CoreCorrect, PTL

\* An event that fires behind one of greater (deadline, sequence) did not
\* exist when that one fired, whatever the callbacks do.
THEOREM NeverInverted == Spec => []NoInversion
<1>1. TypeOK /\ Core => NoInversion
  BY DEF Core
<1> QED BY <1>1, CoreCorrect, PTL

\* The next event is forced: no two pending events can both be the top, so a
\* dispatch depends on the schedule and dispatch calls alone.
THEOREM TopForced == Spec => []TopUnique
<1>1. TypeOK /\ Core => TopUnique
  <2> SUFFICES ASSUME TypeOK, Core, NEW e \in queue, NEW f \in queue,
                      IsTop(e), IsTop(f)
               PROVE  e = f
    BY DEF TopUnique
  <2>1. e.at \in Nat /\ e.seq \in Nat /\ f.at \in Nat /\ f.seq \in Nat
    BY DEF TypeOK, Event, Tick
  <2>2. e.seq = f.seq
    BY <2>1 DEF IsTop, Before
  <2> QED BY <2>2 DEF Core, Numbered
<1> QED BY <1>1, CoreCorrect, PTL

-----------------------------------------------------------------------------
(***************************************************************************)
(* One pass of dispatch(): in order, complete, and never early.            *)
(***************************************************************************)

\* A queue that is not empty has a top: the smallest sequence number among
\* the events of the smallest deadline.
LEMMA TopExists == ASSUME TypeOK, queue # {} PROVE \E e \in queue : IsTop(e)
<1> DEFINE Ats == {e.at : e \in queue}
<1>1. Ats \in SUBSET Nat /\ Ats # {}
  BY Elements
<1>2. PICK t \in Ats : \A u \in Ats : t <= u
  <2> HIDE DEF Ats
  <2> QED BY <1>1, LeastNatural
<1> DEFINE Seqs == {s \in Nat : \E e \in queue : e.at = t /\ e.seq = s}
<1>3. Seqs \in SUBSET Nat /\ Seqs # {}
  BY Elements
<1>4. PICK s \in Seqs : \A u \in Seqs : s <= u
  <2> HIDE DEF Seqs
  <2> QED BY <1>3, LeastNatural
<1>5. PICK e \in queue : e.at = t /\ e.seq = s
  OBVIOUS
<1>6. ASSUME NEW f \in queue, Before(f, e) PROVE FALSE
  <2>1. f.at \in Nat /\ f.seq \in Nat /\ e.at \in Nat /\ e.seq \in Nat
    BY Elements
  <2>2. e.at <= f.at
    BY <1>2, <1>5
  <2>3. f.at = t /\ f.seq < s
    BY <1>5, <1>6, <2>1, <2>2 DEF Before
  <2>4. f.seq \in Seqs
    BY <2>1, <2>3
  <2> QED BY <1>4, <2>1, <2>3, <2>4
<1> QED BY <1>5, <1>6 DEF IsTop

LEMMA DueNext == TypeOK /\ PassDue /\ [Next]_vars => PassDue'
<1> SUFFICES ASSUME TypeOK, PassDue, [Next]_vars PROVE PassDue'
  OBVIOUS
<1>1. CASE Fire
  <2>1. PICK e \in queue :
          /\ IsDue(e)
          /\ log' = Append(log, [at |-> e.at, seq |-> e.seq, action |-> e.action,
                                 born |-> e.born, now |-> now])
          /\ UNCHANGED <<now, pass_start>>
    BY <1>1 DEF Fire
  <2>2. /\ Len(log') = Len(log) + 1
        /\ log'[Len(log) + 1].at = e.at
        /\ \A i \in 1 .. Len(log) : log'[i] = log[i]
    BY <2>1 DEF TypeOK
  <2>3. pc = "loop" /\ Len(log) \in Nat /\ pass_start \in 0 .. Len(log)
    BY <1>1 DEF Fire, TypeOK
  <2>4. \A i \in pass_start + 1 .. Len(log') :
          i = Len(log) + 1 \/ i \in pass_start + 1 .. Len(log)
    BY <2>2, <2>3
  <2>5. \A i \in pass_start + 1 .. Len(log) : i \in 1 .. Len(log)
    BY <2>3
  <2> QED BY <2>1, <2>2, <2>3, <2>4, <2>5 DEF PassDue, IsDue
<1>2. ASSUME NEW n \in Tick, Dispatch(n) PROVE PassDue'
  BY <1>2 DEF Dispatch, PassDue, TypeOK
<1>3. CASE UNCHANGED <<log, now, pass_start>> /\ (pc' # "idle" => pc # "idle")
  BY <1>3 DEF PassDue
<1>4. \/ \E at \in Tick, action \in Actions :
            HostSchedule(at, action) \/ CallbackSchedule(at, action)
      \/ Return \/ Leave \/ UNCHANGED vars
      => UNCHANGED <<log, now, pass_start>> /\ (pc' # "idle" => pc # "idle")
  BY DEF HostSchedule, CallbackSchedule, Return, Leave, vars
<1> QED BY <1>1, <1>2, <1>3, <1>4 DEF Next

\* When dispatch(now) returns, everything due has fired, events that joined
\* the pass included, and nothing that was not due.
THEOREM DispatchIsExact == Spec => DispatchExact
<1>1. Init => PassDue
  BY DEF Init, PassDue
<1>2. TypeOK /\ PassDue /\ [Next]_vars =>
        (pc # "idle" /\ pc' = "idle" =>
           /\ \A e \in queue' : e.at > now
           /\ \A i \in pass_start + 1 .. Len(log') : log'[i].at <= now)
  <2> SUFFICES ASSUME TypeOK, PassDue, [Next]_vars, pc # "idle", pc' = "idle"
               PROVE  /\ \A e \in queue' : e.at > now
                      /\ \A i \in pass_start + 1 .. Len(log') : log'[i].at <= now
    OBVIOUS
  <2>1. Leave
    BY DEF Next, HostSchedule, CallbackSchedule, Dispatch, Fire, Return, vars
  <2>2. queue' = queue /\ log' = log /\ \A e \in queue : ~IsDue(e)
    BY <2>1 DEF Leave
  <2>3. ASSUME NEW f \in queue PROVE f.at > now
    <3>1. PICK e \in queue : IsTop(e)
      BY TopExists
    <3>2. /\ e.at \in Nat /\ e.seq \in Nat /\ f.at \in Nat /\ f.seq \in Nat
          /\ now \in Nat
      BY Elements, BoundsAssumption DEF TypeOK, Tick
    <3>3. e.at > now
      BY <2>2, <3>1, <3>2 DEF IsDue
    <3>4. e.at <= f.at
      BY <3>1, <3>2 DEF IsTop, Before
    <3> QED BY <3>2, <3>3, <3>4
  <2> QED BY <2>2, <2>3 DEF PassDue
<1>3. TypeOK /\ PassDue /\ [Next]_vars => PassDue'
  BY DueNext
<1> QED BY <1>1, <1>2, <1>3, TypeCorrect, PTL DEF Spec, DispatchExact

-----------------------------------------------------------------------------
(***************************************************************************)
(* Order within a pass, for callbacks that keep the contract of schedule.  *)
(***************************************************************************)
PassInv == PassOrdered /\ PassBehind /\ ActionIsLast

\* An event scheduled by the running callback is behind all the pass fired:
\* its deadline is not before the running event's, its number is the largest.
LEMMA PassCallback ==
  ASSUME Honour, TypeOK, Core, PassInv, NEW at \in Tick, NEW action \in Actions,
         CallbackSchedule(at, action)
  PROVE  PassInv'
<1>1. /\ pc = "action" /\ pc' = pc /\ event' = event /\ at >= event.at
      /\ log' = log /\ pass_start' = pass_start
  BY DEF CallbackSchedule
<1>2. PICK r : /\ queue' = queue \cup {r}
               /\ r.at = at /\ r.seq = next_seq
  <2> DEFINE r == [at |-> at, seq |-> next_seq, action |-> action, born |-> Len(log)]
  <2>1. queue' = queue \cup {r}
    BY DEF CallbackSchedule, Schedule
  <2>2. r.at = at /\ r.seq = next_seq
    OBVIOUS
  <2> QED BY <2>1, <2>2
<1>3. ASSUME NEW i \in pass_start + 1 .. Len(log) PROVE Before(log[i], r)
  <2>1. /\ Len(log) \in Nat /\ pass_start \in Nat
        /\ i \in 1 .. Len(log) /\ Len(log) \in pass_start + 1 .. Len(log)
    BY <1>1 DEF TypeOK, PassInv, ActionIsLast
  <2>2. /\ log[i].seq < next_seq
        /\ log[Len(log)].at = event.at
        /\ i < Len(log) => Before(log[i], log[Len(log)])
    BY <1>1, <2>1 DEF Core, Numbered, PassInv, ActionIsLast, PassOrdered
  <2>3. /\ log[i].at \in Nat /\ log[Len(log)].at \in Nat /\ at \in Nat
    BY <2>1, Elements, BoundsAssumption DEF Tick
  <2>4. log[i].at <= log[Len(log)].at
    BY <2>1, <2>2, <2>3 DEF Before
  <2> QED BY <1>1, <1>2, <2>2, <2>3, <2>4 DEF Before
<1>4. PassBehind'
  BY <1>1, <1>2, <1>3 DEF PassInv, PassBehind
<1> QED BY <1>1, <1>4 DEF PassInv, PassOrdered, ActionIsLast

\* The top that is popped is behind all the pass fired and before all that
\* stays in the queue.
LEMMA PassFire ==
  ASSUME TypeOK, Core, PassInv, Fire
  PROVE  PassInv'
<1>1. PICK e \in queue :
        /\ IsTop(e)
        /\ event' = e
        /\ queue' = queue \ {e}
        /\ log' = Append(log, [at |-> e.at, seq |-> e.seq, action |-> e.action,
                               born |-> e.born, now |-> now])
  BY DEF Fire, IsDue
<1>2. pc = "loop" /\ pass_start' = pass_start
  BY DEF Fire
<1> DEFINE n == Len(log)
<1>3. /\ n \in Nat /\ pass_start \in 0 .. n
      /\ Len(log') = n + 1
      /\ log'[n + 1].at = e.at /\ log'[n + 1].seq = e.seq
      /\ \A i \in 1 .. n : log'[i] = log[i]
  BY <1>1 DEF TypeOK
<1> HIDE DEF n
<1>4. /\ \A i \in pass_start + 1 .. Len(log') :
             i = n + 1 \/ i \in pass_start + 1 .. n
      /\ \A i \in pass_start + 1 .. n : i \in 1 .. n
  BY <1>3
<1>5. \A i \in pass_start + 1 .. n : Before(log'[i], log'[n + 1])
  BY <1>1, <1>2, <1>3, <1>4 DEF PassInv, PassBehind, Before, n
<1>6. ASSUME NEW f \in queue' PROVE Before(log'[n + 1], f)
  <2>1. f \in queue /\ f.seq # e.seq /\ ~Before(f, e)
    BY <1>1 DEF Core, Numbered, IsTop
  <2>2. /\ e.at \in Nat /\ e.seq \in Nat /\ f.at \in Nat /\ f.seq \in Nat
    BY <2>1, Elements
  <2> QED BY <1>3, <2>1, <2>2 DEF Before
<1>7. PassBehind'
  BY <1>1, <1>2, <1>3, <1>4, <1>6 DEF PassInv, PassBehind, n
<1>8. PassOrdered'
  <2> SUFFICES ASSUME NEW i \in pass_start + 1 .. Len(log'),
                      NEW j \in pass_start + 1 .. Len(log'), i < j
               PROVE  Before(log'[i], log'[j])
    BY <1>2 DEF PassOrdered
  <2>1. i \in pass_start + 1 .. n
    BY <1>3, <1>4
  <2>2. CASE j = n + 1
    BY <1>5, <2>1, <2>2
  <2>3. CASE j \in pass_start + 1 .. n
    BY <1>3, <1>4, <2>1, <2>3 DEF PassInv, PassOrdered, n
  <2> QED BY <1>4, <2>2, <2>3
<1>9. ActionIsLast'
  BY <1>1, <1>2, <1>3 DEF ActionIsLast
<1> QED BY <1>7, <1>8, <1>9 DEF PassInv

LEMMA PassNext ==
  ASSUME Honour
  PROVE  TypeOK /\ Core /\ PassInv /\ [Next]_vars => PassInv'
<1> SUFFICES ASSUME TypeOK, Core, PassInv, [Next]_vars PROVE PassInv'
  OBVIOUS
<1>1. ASSUME NEW at \in Tick, NEW action \in Actions, HostSchedule(at, action)
      PROVE  PassInv'
  BY <1>1 DEF HostSchedule, PassInv, PassOrdered, PassBehind, ActionIsLast
<1>2. ASSUME NEW n \in Tick, Dispatch(n) PROVE PassInv'
  BY <1>2 DEF Dispatch, PassInv, PassOrdered, PassBehind, ActionIsLast, TypeOK
<1>3. CASE Fire
  BY <1>3, PassFire
<1>4. ASSUME NEW at \in Tick, NEW action \in Actions, CallbackSchedule(at, action)
      PROVE  PassInv'
  BY <1>4, PassCallback
<1>5. CASE Return
  BY <1>5 DEF Return, PassInv, PassOrdered, PassBehind, ActionIsLast
<1>6. CASE Leave
  BY <1>6 DEF Leave, PassInv, PassOrdered, PassBehind, ActionIsLast
<1>7. CASE UNCHANGED vars
  BY <1>7 DEF vars, PassInv, PassOrdered, PassBehind, ActionIsLast
<1> QED BY <1>1, <1>2, <1>3, <1>4, <1>5, <1>6, <1>7 DEF Next

\* If callbacks never schedule before the deadline they run for, a dispatch
\* fires in strictly increasing (deadline, sequence) order.
THEOREM PassInOrder == ASSUME Honour PROVE Spec => []PassOrdered
<1>1. Init => PassInv
  BY DEF Init, PassInv, PassOrdered, PassBehind, ActionIsLast
<1>2. TypeOK /\ Core /\ PassInv /\ [Next]_vars => PassInv'
  BY PassNext
<1>3. PassInv => PassOrdered
  BY DEF PassInv
<1> QED BY <1>1, <1>2, <1>3, CoreCorrect, PTL DEF Spec

-----------------------------------------------------------------------------
(***************************************************************************)
(* The timing wheel.  SlotGrows and SlotShrinks say of any queue what      *)
(* schedule() and the pop do to the slots: since an event is found by how  *)
(* many are ahead of it, neither needs an induction over the queue.        *)
(***************************************************************************)

LEMMA SlotSeq ==
  ASSUME NEW q, IsFiniteSet(q), NEW t
  PROVE  /\ IsFiniteSet(DueAt(q, t))
         /\ Cardinality(DueAt(q, t)) \in Nat
         /\ Len(SlotOf(q, t)) = Cardinality(DueAt(q, t))
         /\ SlotOf(q, t) = <<>> <=> DueAt(q, t) = {}
         /\ \E S : SlotOf(q, t) \in Seq(S)
<1> DEFINE d == DueAt(q, t)
           n == Cardinality(d)
           s == SlotOf(q, t)
           T == {s[i] : i \in 1 .. n}
<1>1. IsFiniteSet(d)
  BY FS_Subset DEF DueAt
<1>2. n \in Nat /\ (n = 0 <=> d = {})
  BY <1>1, FS_CardinalityType, FS_EmptySet
<1>3. s = [i \in 1 .. n |-> s[i]]
  BY DEF SlotOf
<1> HIDE DEF d, n, s
<1>4. s \in [1 .. n -> T]
  BY <1>3
<1>5. s \in Seq(T) /\ Len(s) = n
  BY <1>2, <1>4
<1> QED BY <1>1, <1>2, <1>5 DEF d, n, s

\* An event younger than all others enters its slot at the tail, and no other.
LEMMA SlotGrows ==
  ASSUME NEW q, IsFiniteSet(q), \A e \in q : e.seq \in Nat,
         NEW r, r.seq \in Nat, \A e \in q : e.seq < r.seq
  PROVE  /\ SlotOf(q \cup {r}, r.at) = Append(SlotOf(q, r.at), r.seq)
         /\ \A t : t # r.at => SlotOf(q \cup {r}, t) = SlotOf(q, t)
<1> DEFINE p == q \cup {r}
<1>1. ASSUME NEW e \in q PROVE Ahead(p, e) = Ahead(q, e)
  BY DEF Ahead
<1>2. ASSUME NEW t, t # r.at PROVE SlotOf(p, t) = SlotOf(q, t)
  <2>1. DueAt(p, t) = DueAt(q, t)
    BY <1>2 DEF DueAt
  <2>2. ASSUME NEW i PROVE Nth(p, t, i) = Nth(q, t, i)
    BY <1>1, <2>1 DEF Nth, DueAt
  <2>3. \A i : The(Nth(p, t, i)) = The(Nth(q, t, i))
    BY <2>2
  <2> HIDE DEF p
  <2> QED BY <2>1, <2>3 DEF SlotOf
<1>3. SlotOf(p, r.at) = Append(SlotOf(q, r.at), r.seq)
  <2> DEFINE t == r.at
             d == DueAt(q, t)
             n == Cardinality(d)
             s == SlotOf(q, t)
  <2>1. /\ IsFiniteSet(d) /\ n \in Nat
        /\ Len(s) = n /\ \E S : s \in Seq(S)
    BY SlotSeq
  <2>2. DueAt(p, t) = d \cup {r} /\ r \notin d
    BY DEF DueAt
  <2>3. Cardinality(DueAt(p, t)) = n + 1
    BY <2>1, <2>2, FS_AddElement
  <2>4. Cardinality(Ahead(p, r)) = n
    <3>1. Ahead(p, r) = d
      BY DEF Ahead, DueAt
    <3> QED BY <3>1
  <2>5. ASSUME NEW e \in d PROVE Cardinality(Ahead(p, e)) \in Nat /\ Cardinality(Ahead(p, e)) < n
    <3>1. Ahead(p, e) \subseteq d \ {e} /\ e \in q
      BY DEF Ahead, DueAt
    <3>2. IsFiniteSet(d \ {e}) /\ Cardinality(d \ {e}) = n - 1
      BY <2>1, FS_RemoveElement
    <3>3. /\ IsFiniteSet(Ahead(p, e))
          /\ Cardinality(Ahead(p, e)) <= n - 1
      BY <3>1, <3>2, FS_Subset
    <3> QED BY <2>1, <3>3, FS_CardinalityType
  <2>6. Nth(p, t, n + 1) = {r}
    <3>1. Cardinality(Ahead(p, r)) = (n + 1) - 1
      BY <2>1, <2>4
    <3>2. ASSUME NEW e \in d PROVE Cardinality(Ahead(p, e)) # (n + 1) - 1
      <4> HIDE DEF p, d, n
      <4> QED BY <2>1, <2>5
    <3> HIDE DEF p, d, n
    <3> QED BY <2>2, <3>1, <3>2 DEF Nth
  <2>7. ASSUME NEW i \in 1 .. n PROVE Nth(p, t, i) = Nth(q, t, i)
    <3>1. \A e \in d : e \in q /\ Ahead(p, e) = Ahead(q, e)
      BY <1>1 DEF DueAt
    <3>2. n # i - 1
      BY <2>1
    <3> QED BY <2>2, <2>4, <3>1, <3>2 DEF Nth
  <2>8. SlotOf(p, t) = [i \in 1 .. n + 1 |-> The(Nth(p, t, i)).seq]
    BY <2>3 DEF SlotOf
  <2>9. \A i \in 1 .. n : s[i] = The(Nth(p, t, i)).seq
    BY <2>7 DEF SlotOf
  <2>10. The(Nth(p, t, n + 1)).seq = r.seq
    BY <2>6 DEF The
  <2> HIDE DEF p, t, d, n, s
  <2>11. SlotOf(p, t) = [i \in 1 .. n + 1 |-> IF i = n + 1 THEN r.seq ELSE s[i]]
    <3>1. ASSUME NEW i \in 1 .. n + 1
          PROVE  The(Nth(p, t, i)).seq = IF i = n + 1 THEN r.seq ELSE s[i]
      <4>1. i = n + 1 \/ i \in 1 .. n
        BY <2>1
      <4> QED BY <2>9, <2>10, <4>1
    <3> QED BY <2>8, <3>1
  <2>12. Append(s, r.seq) = [i \in 1 .. n + 1 |-> IF i = n + 1 THEN r.seq ELSE s[i]]
    BY <2>1
  <2> QED BY <2>11, <2>12 DEF s, t
<1> QED BY <1>2, <1>3

\* The event that nothing is ahead of leaves its slot at the head.
LEMMA SlotShrinks ==
  ASSUME NEW q, IsFiniteSet(q), \A e \in q : e.seq \in Nat,
         \A e, f \in q : e.seq = f.seq => e = f,
         NEW top \in q, Ahead(q, top) = {}
  PROVE  /\ SlotOf(q, top.at) # <<>>
         /\ SlotOf(q \ {top}, top.at) = Tail(SlotOf(q, top.at))
         /\ \A t : t # top.at => SlotOf(q \ {top}, t) = SlotOf(q, t)
<1> DEFINE p == q \ {top}
<1>1. ASSUME NEW t, t # top.at PROVE SlotOf(p, t) = SlotOf(q, t)
  <2>1. DueAt(p, t) = DueAt(q, t)
    BY <1>1 DEF DueAt
  <2>2. \A e \in DueAt(q, t) : Ahead(p, e) = Ahead(q, e)
    BY <1>1 DEF Ahead, DueAt
  <2>3. ASSUME NEW i PROVE Nth(p, t, i) = Nth(q, t, i)
    BY <2>1, <2>2 DEF Nth
  <2>4. \A i : The(Nth(p, t, i)) = The(Nth(q, t, i))
    BY <2>3
  <2> HIDE DEF p
  <2> QED BY <2>1, <2>4 DEF SlotOf
<1> DEFINE t == top.at
           d == DueAt(q, t)
           n == Cardinality(d)
           s == SlotOf(q, t)
<1>2. /\ IsFiniteSet(d) /\ n \in Nat
      /\ Len(s) = n /\ \E S : s \in Seq(S)
      /\ s # <<>>
  <2>1. top \in d
    BY DEF DueAt
  <2> QED BY <2>1, SlotSeq
<1>3. DueAt(p, t) = d \ {top} /\ top \in d
  BY DEF DueAt
<1>4. Cardinality(DueAt(p, t)) = n - 1
  <2> HIDE DEF p, t
  <2> QED BY <1>2, <1>3, FS_RemoveElement
<1>5. ASSUME NEW e \in d, e # top
      PROVE  Cardinality(Ahead(p, e)) = Cardinality(Ahead(q, e)) - 1
  <2>1. top \in Ahead(q, e)
    <3>1. e \in q /\ e.at = t /\ ~(e.seq < top.seq)
      BY DEF Ahead, DueAt
    <3>2. e.seq # top.seq
      BY <1>5, <3>1
    <3> QED BY <3>1, <3>2 DEF Ahead
  <2>2. Ahead(p, e) = Ahead(q, e) \ {top}
    BY DEF Ahead
  <2>3. IsFiniteSet(Ahead(q, e))
    BY FS_Subset DEF Ahead
  <2> QED BY <2>1, <2>2, <2>3, FS_RemoveElement
<1>6. Cardinality(Ahead(q, top)) = 0
  BY FS_EmptySet
<1>7. ASSUME NEW i \in 1 .. n - 1 PROVE Nth(p, t, i) = Nth(q, t, i + 1)
  <2>1. \A e \in d : Cardinality(Ahead(q, e)) \in Nat
    BY FS_Subset, FS_CardinalityType DEF Ahead
  <2>2. ASSUME NEW e \in d, e # top
        PROVE  Cardinality(Ahead(p, e)) = i - 1 <=> Cardinality(Ahead(q, e)) = (i + 1) - 1
    <3> HIDE DEF p, d
    <3> QED BY <1>5, <2>1, <2>2
  <2>3. Cardinality(Ahead(q, top)) # (i + 1) - 1
    BY <1>6
  <2> QED BY <1>3, <2>2, <2>3 DEF Nth
<1>8. SlotOf(p, t) = [i \in 1 .. n - 1 |-> The(Nth(p, t, i)).seq]
  BY <1>4 DEF SlotOf
<1>9. \A i \in 1 .. n - 1 : s[i + 1] = The(Nth(q, t, i + 1)).seq
  BY <1>2 DEF SlotOf
<1> HIDE DEF p, t, d, n, s
<1>10. SlotOf(p, t) = [i \in 1 .. n - 1 |-> s[i + 1]]
  BY <1>7, <1>8, <1>9
<1>11. Tail(s) = [i \in 1 .. n - 1 |-> s[i + 1]]
  <2>1. PICK S : s \in Seq(S)
    BY <1>2
  <2>3. /\ Tail(s) \in Seq(S) /\ Len(Tail(s)) = n - 1
        /\ \A i \in 1 .. n - 1 : Tail(s)[i] = s[i + 1]
    BY <1>2, <2>1, HeadTailProperties
  <2> DEFINE u == Tail(s)
  <2> HIDE DEF u
  <2>4. u \in Seq(S) /\ Len(u) = n - 1 /\ \A i \in 1 .. n - 1 : u[i] = s[i + 1]
    BY <2>3 DEF u
  <2>5. u = [i \in 1 .. n - 1 |-> s[i + 1]]
    BY <2>4
  <2> QED BY <2>5 DEF u
<1> QED BY <1>1, <1>2, <1>10, <1>11 DEF p, t, s

LEMMA QueueFinite == ASSUME TypeOK, Numbered PROVE IsFiniteSet(queue)
<1> DEFINE f == [e \in queue |-> e.seq]
<1>1. f \in Injection(queue, 0 .. next_seq)
  <2>1. f \in [queue -> 0 .. next_seq]
    BY Elements DEF TypeOK, Numbered
  <2>2. \A d, e \in queue : f[d] = f[e] => d = e
    BY DEF Numbered
  <2> QED BY <2>1, <2>2 DEF Injection, IsInjective
<1>2. IsFiniteSet(0 .. next_seq)
  BY FS_Interval DEF TypeOK
<1> QED BY <1>1, <1>2, FS_Injection

\* The slots of the wheel, under the refinement mapping.
Slots == [t \in Tick |-> SlotOf(queue, t)]

LEMMA ScheduleEnters ==
  ASSUME TypeOK, Core, NEW at \in Tick, NEW action \in Actions,
         Schedule(at, action), UNCHANGED <<pc, now>>
  PROVE  Wheel!WheelNext
<1> DEFINE r == [at |-> at, seq |-> next_seq, action |-> action, born |-> Len(log)]
<1>1. /\ queue' = queue \cup {r}
      /\ r.at = at /\ r.seq = next_seq /\ r.seq \in Nat
      /\ next_seq \in 0 .. MaxEvents - 1
  BY BoundsAssumption DEF Schedule, TypeOK
<1> HIDE DEF r
<1>2. /\ IsFiniteSet(queue)
      /\ \A e \in queue : e.seq \in Nat
      /\ \A e \in queue : e.seq < r.seq
  BY <1>1, QueueFinite, Elements DEF Core, Numbered
<1>3. /\ SlotOf(queue', at) = Append(SlotOf(queue, at), next_seq)
      /\ \A t \in Tick : t # at => SlotOf(queue', t) = SlotOf(queue, t)
  <2>1. /\ SlotOf(queue \cup {r}, r.at) = Append(SlotOf(queue, r.at), r.seq)
        /\ \A t : t # r.at => SlotOf(queue \cup {r}, t) = SlotOf(queue, t)
    BY <1>1, <1>2, SlotGrows
  <2> QED BY <1>1, <2>1
<1>4. Slots' = [Slots EXCEPT ![at] = Append(@, next_seq)]
  BY <1>3 DEF Slots
<1>5. Wheel!Enter(at, next_seq)
  BY <1>4 DEF Wheel!Enter, Slots
<1> QED BY <1>1, <1>5 DEF Wheel!WheelNext

LEMMA FireExpires ==
  ASSUME TypeOK, Core, Fire
  PROVE  Wheel!WheelNext
<1>1. PICK e \in queue : IsDue(e) /\ queue' = queue \ {e}
  BY DEF Fire
<1>2. /\ IsFiniteSet(queue)
      /\ \A f \in queue : f.seq \in Nat /\ f.at \in Nat
      /\ \A f, g \in queue : f.seq = g.seq => f = g
  BY QueueFinite, Elements DEF Core, Numbered
<1>3. Ahead(queue, e) = {}
  BY <1>1, <1>2 DEF Ahead, IsDue, IsTop, Before
<1>4. /\ SlotOf(queue, e.at) # <<>>
      /\ SlotOf(queue', e.at) = Tail(SlotOf(queue, e.at))
      /\ \A t : t # e.at => SlotOf(queue', t) = SlotOf(queue, t)
  BY <1>1, <1>2, <1>3, SlotShrinks
<1>5. e.at \in Tick /\ e.at <= now
  BY <1>1 DEF IsDue, TypeOK, Event
<1>6. \A t \in Tick : t < e.at => SlotOf(queue, t) = <<>>
  <2> SUFFICES ASSUME NEW t \in Tick, t < e.at PROVE SlotOf(queue, t) = <<>>
    OBVIOUS
  <2>1. DueAt(queue, t) = {}
    BY <1>1, <1>2 DEF DueAt, IsDue, IsTop, Before
  <2> QED BY <1>2, <2>1, SlotSeq
<1>7. Slots' = [Slots EXCEPT ![e.at] = Tail(@)]
  BY <1>4 DEF Slots
<1>8. UNCHANGED now /\ pc # "idle" /\ pc' # "idle"
  BY DEF Fire
<1>9. Wheel!Expire(e.at)
  BY <1>4, <1>5, <1>6, <1>7, <1>8 DEF Wheel!Expire, Slots
<1> QED BY <1>5, <1>9 DEF Wheel!WheelNext

\* dispatch() returns only when every slot the clock has reached is empty.
LEMMA LeaveCloses ==
  ASSUME TypeOK, Core, Leave
  PROVE  Wheel!WheelNext
<1>1. ASSUME NEW t \in Tick, t <= now PROVE SlotOf(queue, t) = <<>>
  <2>1. ASSUME NEW f \in queue PROVE f.at > now
    <3>1. PICK e \in queue : IsTop(e)
      BY TopExists
    <3>2. e.at > now /\ ~Before(f, e) /\ e.at \in Nat /\ f.at \in Nat /\ now \in Nat
      BY <3>1, Elements DEF Leave, IsDue, IsTop, TypeOK, Tick
    <3> QED BY <3>2 DEF Before
  <2>2. DueAt(queue, t) = {}
    BY <1>1, <2>1, Elements DEF DueAt, TypeOK, Tick
  <2>3. IsFiniteSet(queue)
    BY QueueFinite DEF Core
  <2> QED BY <2>2, <2>3, SlotSeq
<1>2. Wheel!Close
  BY <1>1 DEF Leave, Wheel!Close
<1> QED BY <1>2 DEF Wheel!WheelNext

\* The queue implements the timing wheel, for every bound and whatever
\* callbacks schedule: an event enters the tail of its slot, only the head of
\* the earliest slot leaves, and dispatch() ends with no slot due.
THEOREM SchedulerIsWheel == Spec => ImplementsWheel
<1>1. Init => Wheel!WheelInit
  <2> SUFFICES ASSUME Init PROVE Wheel!WheelInit
    OBVIOUS
  <2>1. IsFiniteSet({}) /\ DueAt({}, 0) = {} /\ \A t : DueAt({}, t) = {}
    BY FS_EmptySet DEF DueAt
  <2>2. \A t \in Tick : SlotOf({}, t) = <<>>
    BY <2>1, SlotSeq
  <2> QED BY <2>2 DEF Init, Wheel!WheelInit
<1>2. TypeOK /\ Core /\ [Next]_vars => [Wheel!WheelNext]_(Wheel!wheel)
  <2> SUFFICES ASSUME TypeOK, Core, [Next]_vars
               PROVE  Wheel!WheelNext \/ UNCHANGED <<Slots, now, pc # "idle">>
    BY DEF Wheel!wheel, Slots
  <2>1. ASSUME NEW at \in Tick, NEW action \in Actions,
               HostSchedule(at, action) \/ CallbackSchedule(at, action)
        PROVE  Wheel!WheelNext
    BY <2>1, ScheduleEnters DEF HostSchedule, CallbackSchedule
  <2>2. ASSUME NEW n \in Tick, Dispatch(n) PROVE Wheel!WheelNext
    <3>1. Wheel!Open(n)
      BY <2>2 DEF Dispatch, Wheel!Open
    <3> QED BY <3>1 DEF Wheel!WheelNext
  <2>3. CASE Return
    BY <2>3 DEF Return, Slots
  <2>4. CASE UNCHANGED vars
    BY <2>4 DEF vars, Slots
  <2> QED BY <2>1, <2>2, <2>3, <2>4, FireExpires, LeaveCloses DEF Next
<1> QED BY <1>1, <1>2, CoreCorrect, PTL DEF Spec, ImplementsWheel, Wheel!WheelSpec
=============================================================================
