---------------------------- MODULE ReactorProofs ----------------------------
(***************************************************************************)
(* The timer queue for any timers, sockets and delays, as long as the      *)
(* clock is set back by less than the shortest delay while timers fire.    *)
(***************************************************************************)
EXTENDS Reactor, TLAPS

-----------------------------------------------------------------------------
\* The inductive invariant: TimersKept needs that a timer object is in the
\* queue once, so that popping its entry takes it out.
EntriesUnique == \A e, f \in queued : e.timer = f.timer => e = f

IInv == TypeOK /\ EntriesUnique /\ TimersKept

LEMMA InitInv == Init => IInv
<1> SUFFICES ASSUME Init
             PROVE  IInv
  OBVIOUS
<1>1. 0 \in Latest..MaxBack
  BY DelayAssumption DEF Latest
<1>2. TypeOK
  BY <1>1 DEF Init, TypeOK
<1>3. TimersOf(queued) = {}
  BY DEF Init, TimersOf
<1> QED
  BY <1>2, <1>3 DEF Init, IInv, EntriesUnique, TimersKept

\* New entries are entries for the timers given.
LEMMA EntriesType ==
  ASSUME NEW N \in SUBSET Timer, NEW d \in Delay
  PROVE  /\ Entries(N, d) \in SUBSET Entry
         /\ \A a \in Entries(N, d) : a.timer \in N /\ a.left = d
         /\ TimersOf(Entries(N, d)) = N
         /\ \A a, b \in Entries(N, d) : a.timer = b.timer => a = b
<1>1. d \in Left
  BY DelayAssumption DEF Delay, Left, Latest, Farthest
<1>2. \A t \in N : [timer |-> t, left |-> d] \in Entry
  BY <1>1 DEF Entry
<1>3. \A a \in Entries(N, d) : \E t \in N : a = [timer |-> t, left |-> d]
  BY DEF Entries
<1>4. \A t \in N : \E a \in Entries(N, d) : a.timer = t
  <2> TAKE t \in N
  <2>1. [timer |-> t, left |-> d] \in Entries(N, d)
    BY DEF Entries
  <2> QED
    BY <2>1
<1>5. TimersOf(Entries(N, d)) = N
  BY <1>3, <1>4 DEF TimersOf
<1>6. Entries(N, d) \in SUBSET Entry
  BY <1>2, <1>3
<1> QED
  BY <1>3, <1>5, <1>6

\* The clock moves every entry alike.
LEMMA ShiftKeeps ==
  ASSUME IInv, NEW n \in Int, \A e \in queued : e.left + n \in Left,
         queued' = Shifted(n), now' \in Latest..MaxBack,
         UNCHANGED <<pc, stop, open, readable, revents, inactive, owed>>
  PROVE  IInv'
<1>1. queued \subseteq Entry
  BY DEF IInv, TypeOK
<1>2. \A e \in queued :
        \E f \in queued' : f = [timer |-> e.timer, left |-> e.left + n]
  BY DEF Shifted
<1>3. \A f \in queued' : \E e \in queued :
        f = [timer |-> e.timer, left |-> e.left + n]
  BY DEF Shifted
<1>4. queued' \subseteq Entry
  BY <1>1, <1>3 DEF Entry
<1>5. TimersOf(queued)' = TimersOf(queued)
  BY <1>2, <1>3 DEF TimersOf
<1>6. EntriesUnique'
  BY <1>3 DEF IInv, EntriesUnique
<1> QED
  BY <1>4, <1>5, <1>6 DEF IInv, TypeOK, TimersKept

\* A callback of a socket adds timers and sets others inactive.
LEMMA DispatchKeeps ==
  ASSUME IInv, NEW s \in Socket, NEW N \in SUBSET Timer, NEW d \in Delay,
         NEW C \in SUBSET owed, NEW more \in BOOLEAN, Dispatch(s, N, d, C, more)
  PROVE  IInv'
<1> DEFINE A == Entries(N, d)
<1>1. /\ A \in SUBSET Entry
      /\ \A a \in A : a.timer \in N
      /\ TimersOf(A) = N
      /\ \A a, b \in A : a.timer = b.timer => a = b
  BY EntriesType
<1>2. /\ queued' = queued \cup A
      /\ N \cap TimersOf(queued) = {}
      /\ inactive' = (inactive \ N) \cup C
      /\ owed' = (owed \cup N) \ C
      /\ revents' \subseteq revents
      /\ readable' \subseteq readable
      /\ stop' = (stop \/ s = Internal)
      /\ pc' \in {"poll", "sockets", "stopped"}
      /\ UNCHANGED <<open, now>>
  BY DEF Dispatch, AfterPass
<1> HIDE DEF A
<1>3. TypeOK'
  BY <1>1, <1>2 DEF IInv, TypeOK
<1>4. EntriesUnique'
  BY <1>1, <1>2 DEF IInv, EntriesUnique, TimersOf
<1>5. TimersOf(queued)' = TimersOf(queued) \cup N
  BY <1>1, <1>2 DEF TimersOf
<1>6. TimersKept'
  BY <1>2, <1>5 DEF IInv, TimersKept
<1> QED
  BY <1>3, <1>4, <1>6 DEF IInv

\* A round of fire_due pops the entry it fired: what its callback added is
\* due later, by at least MinDelay - MaxBack.
LEMMA FireKeeps ==
  ASSUME IInv, FireAny
  PROVE  IInv'
<1> PICK e \in queued, N \in SUBSET Timer, d \in Delay, C \in SUBSET owed :
      Fire(e, N, d, C)
  BY DEF FireAny
<1> DEFINE A == Entries(N, d)
<1>1. /\ A \in SUBSET Entry
      /\ \A a \in A : a.timer \in N /\ a.left = d
      /\ TimersOf(A) = N
      /\ \A a, b \in A : a.timer = b.timer => a = b
  BY EntriesType
<1>2. e \in Entry /\ e.left \in Int /\ e.left <= now /\ now \in Int /\ now <= MaxBack
  BY DelayAssumption
     DEF Fire, IsDue, IInv, TypeOK, Entry, Left, Latest, Farthest
<1>3. d \in Int /\ MaxBack < d
  BY DelayAssumption DEF Delay
<1>4. ~ \E a \in A : a.left < e.left
  BY <1>1, <1>2, <1>3, DelayAssumption
<1>5. Popped(e, A) = {e}
  BY <1>4 DEF Popped
<1>6. /\ queued' = (queued \cup A) \ {e}
      /\ N \cap TimersOf(queued) = {}
      /\ C \subseteq owed \ {e.timer}
      /\ inactive' = (inactive \ ({e.timer} \cup N)) \cup C
      /\ owed' = (owed \ ({e.timer} \cup C)) \cup N
      /\ UNCHANGED <<pc, stop, open, readable, revents, now>>
  BY <1>5 DEF Fire
<1> HIDE DEF A
<1>7. TypeOK'
  BY <1>1, <1>6 DEF IInv, TypeOK
<1>8. EntriesUnique'
  BY <1>1, <1>6 DEF IInv, EntriesUnique, TimersOf
<1>9. TimersOf(queued)' = (TimersOf(queued) \ {e.timer}) \cup N
  BY <1>1, <1>6 DEF IInv, EntriesUnique, TimersOf
<1>10. TimersKept'
  BY <1>6, <1>9 DEF IInv, TimersKept
<1> QED
  BY <1>7, <1>8, <1>10 DEF IInv

\* The other steps leave the timers alone.
LEMMA OthersKeep ==
  ASSUME IInv, TypeOK', UNCHANGED <<queued, inactive, owed>>
  PROVE  IInv'
BY DEF IInv, EntriesUnique, TimersKept, TimersOf

LEMMA InvCorrect == Spec => []IInv
<1>1. IInv /\ [Next]_vars => IInv'
  <2> SUFFICES ASSUME IInv, [Next]_vars
               PROVE  IInv'
    OBVIOUS
  <2> TypeOK
    BY DEF IInv
  <2>1. CASE Tick
    <3>1. \A e \in queued : e.left + (-1) \in Left
      BY <2>1, DelayAssumption DEF Tick, TypeOK, Entry, Left, Latest, Farthest
    <3>2. now' \in Latest..MaxBack
      BY <2>1, DelayAssumption DEF Tick, NowShifted, TypeOK, Latest
    <3> QED
      BY <2>1, <3>1, <3>2, ShiftKeeps DEF Tick
  <2>2. ASSUME NEW n \in 1..MaxBack, StepBack(n)
        PROVE  IInv'
    <3> n \in Int /\ n >= 1
      BY DelayAssumption
    <3>1. \A e \in queued : e.left + n \in Left
      BY <2>2, DelayAssumption DEF StepBack, TypeOK, Entry, Left, Latest, Farthest
    <3>2. now' \in Latest..MaxBack
      BY <2>2, DelayAssumption DEF StepBack, NowShifted, TypeOK, Latest
    <3> QED
      BY <2>2, <3>1, <3>2, ShiftKeeps DEF StepBack
  <2>3. ASSUME NEW s \in Socket, Arrive(s)
        PROVE  IInv'
    BY <2>3, OthersKeep DEF Arrive, TypeOK
  <2>4. CASE Hush
    BY <2>4, OthersKeep DEF Hush, TypeOK
  <2>5. CASE Run
    BY <2>5, OthersKeep DEF Run, TypeOK
  <2>6. CASE PollSockets
    BY <2>6, OthersKeep DEF PollSockets, TypeOK
  <2>7. CASE PollTimeout
    <3>1. 0 \in Latest..MaxBack
      BY DelayAssumption DEF Latest
    <3> QED
      BY <2>7, <3>1, OthersKeep DEF PollTimeout, TypeOK
  <2>8. CASE FireDueEnds
    BY <2>8, OthersKeep DEF FireDueEnds, AfterPass, TypeOK
  <2>9. ASSUME NEW s \in Socket, NEW more \in BOOLEAN, DispatchThrows(s, more)
        PROVE  IInv'
    BY <2>9, OthersKeep DEF DispatchThrows, TypeOK
  <2>10. CASE UNCHANGED vars
    BY <2>10, OthersKeep DEF vars, TypeOK
  <2> QED
    BY <2>1, <2>2, <2>3, <2>4, <2>5, <2>6, <2>7, <2>8, <2>9, <2>10,
       DispatchKeeps, FireKeeps DEF Next, DispatchAny
<1> QED
  BY InitInv, <1>1, PTL DEF Spec

-----------------------------------------------------------------------------
\* Each variable of the loop keeps its type.
THEOREM TypeCorrect == Spec => []TypeOK
<1>1. IInv => TypeOK
  BY DEF IInv
<1> QED
  BY <1>1, InvCorrect, PTL

\* fire_due, which pops whatever is on top after a callback that added timers,
\* loses no timer and fires none twice, for every number of timers and all
\* delays longer than the clock's corrections.
THEOREM TimersAreKept == Spec => []TimersKept
<1>1. IInv => TimersKept
  BY DEF IInv
<1> QED
  BY <1>1, InvCorrect, PTL

-----------------------------------------------------------------------------
\* A pass of fire_due.  Its now and the deadlines move away from the clock
\* alike, and what a callback adds is due behind both.
LEMMA ShiftedDue ==
  ASSUME IInv, NEW n \in Int, pc = "timers",
         queued' = Shifted(n), now' = NowShifted(n)
  PROVE  DueTimers' \subseteq DueTimers
<1>1. /\ now \in Int /\ now' = now + n
      /\ \A e \in queued : e.left \in Int
  BY DelayAssumption
     DEF NowShifted, IInv, TypeOK, Entry, Left, Latest, Farthest
<1>2. \A f \in queued' : \E e \in queued :
        f = [timer |-> e.timer, left |-> e.left + n]
  BY DEF Shifted
<1>3. ASSUME NEW f \in queued', f.left <= now'
      PROVE  \E e \in queued : e.timer = f.timer /\ e.left <= now
  BY <1>1, <1>2, <1>3
<1> QED
  BY <1>3 DEF DueTimers, TimersOf, IsDue

LEMMA FiredDue ==
  ASSUME IInv, FireAny
  PROVE  DueTimers' \subseteq DueTimers
<1> PICK e \in queued, N \in SUBSET Timer, d \in Delay, C \in SUBSET owed :
      Fire(e, N, d, C)
  BY DEF FireAny
<1>1. /\ queued' \subseteq queued \cup Entries(N, d)
      /\ now' = now
  BY DEF Fire
<1>2. \A a \in Entries(N, d) : a.left = d
  BY EntriesType
<1>3. ~(d <= now)
  BY DelayAssumption DEF Delay, IInv, TypeOK, Latest
<1> QED
  BY <1>1, <1>2, <1>3 DEF DueTimers, TimersOf, IsDue

\* A pass of fire_due fires none but the timers that were due when it read the
\* clock, so it ends however late it is and whatever its callbacks add.
THEOREM PassesShrink == Spec => PassShrinks
<1>1. IInv /\ [Next]_vars
        => [pc = "timers" /\ pc' = "timers" => DueTimers' \subseteq DueTimers]_vars
  <2> SUFFICES ASSUME IInv, [Next]_vars, pc = "timers", pc' = "timers"
               PROVE  DueTimers' \subseteq DueTimers
    OBVIOUS
  <2>1. CASE Tick
    BY <2>1, ShiftedDue DEF Tick
  <2>2. ASSUME NEW n \in 1..MaxBack, StepBack(n)
        PROVE  DueTimers' \subseteq DueTimers
    <3> n \in Int
      BY DelayAssumption
    <3> QED
      BY <2>2, ShiftedDue DEF StepBack
  <2>3. CASE UNCHANGED <<queued, now>>
    BY <2>3 DEF DueTimers, TimersOf, IsDue
  <2> QED
    BY <2>1, <2>2, <2>3, FiredDue
       DEF Next, vars, Arrive, Hush, Run, PollSockets, PollTimeout, DispatchAny,
           Dispatch, DispatchThrows, FireDueEnds
<1> QED
  BY <1>1, InvCorrect, PTL DEF Spec, PassShrinks
=============================================================================
