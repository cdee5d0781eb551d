------------------------------- MODULE Reactor -------------------------------
(***************************************************************************)
(* The event loop and its timer queue (zmq-poll-wrapper/reactor.hpp,       *)
(* timer.hpp).  One pass polls the sockets until the first deadline; it    *)
(* dispatches the sockets that became readable or, only when none did,     *)
(* fires the timers that are due.                                          *)
(*                                                                         *)
(* Deadlines are points of the system's wall clock (universal_time).  Only *)
(* their distance from the present matters, so a queued timer is recorded  *)
(* with the time left to its deadline: the clock's tick lowers it, a step  *)
(* back of the clock raises it.                                            *)
(***************************************************************************)
EXTENDS Integers

CONSTANTS
  Timer,     \* the timer objects; one that left the queue stands for a new one
  Socket,    \* the sockets given to reactor::add
  Internal,  \* the reactor's own subscriber, for shutdown()
  MinDelay,  \* the shortest waiting time given to a timer
  MaxDelay,  \* the longest
  MaxBack    \* how far the clock is set back while timers fire

ASSUME SocketAssumption == Internal \in Socket
ASSUME DelayAssumption ==
  /\ MinDelay \in Nat /\ MaxDelay \in Nat /\ MaxBack \in Nat
  /\ MaxBack < MinDelay /\ MinDelay <= MaxDelay

VARIABLES
  pc,        \* where operator() is
  stop,      \* m_stop_requested
  open,      \* whether peers still send and the clock is still corrected
  readable,  \* the sockets with a message to read
  revents,   \* the sockets the last poll reported and not yet dispatched
  queued,    \* timer_queue: [timer, left]
  inactive,  \* the timers that were set_inactive
  now,       \* the now of fire_due, as a distance from the clock
  owed       \* history: timers added, not yet fired and not set inactive

vars == <<pc, stop, open, readable, revents, queued, inactive, now, owed>>

Latest == -MaxDelay            \* bound: the loop is not further behind
Farthest == MaxDelay + MaxBack \* bound: the clock is not set back beyond it
Delay == MinDelay..MaxDelay
Left == Latest..Farthest
Entry == [timer : Timer, left : Left]

TypeOK ==
  /\ pc \in {"poll", "sockets", "timers", "stopped"}
  /\ stop \in BOOLEAN
  /\ open \in BOOLEAN
  /\ readable \subseteq Socket
  /\ revents \subseteq Socket
  /\ queued \subseteq Entry
  /\ inactive \subseteq Timer
  /\ now \in Latest..MaxBack
  /\ owed \subseteq Timer

Init ==
  /\ pc = "stopped"
  /\ stop = FALSE
  /\ open = TRUE
  /\ readable = {}
  /\ revents = {}
  /\ queued = {}
  /\ inactive = {}
  /\ now = 0
  /\ owed = {}

TimersOf(Q) == {e.timer : e \in Q}
\* The entries a priority_queue may have at its top.
Tops(Q) == {e \in Q : \A f \in Q : e.left <= f.left}
\* The comparison of is_due the wrong way round.
IsDueFlipped(e) == e.left > now
\* A fire_due that reads the clock anew for each timer.
IsDueByTheClock(e) == e.left <= 0
IsDue(e) == e.left <= now

-----------------------------------------------------------------------------
\* The world outside: the clock, the peers, the loop's owner.
Shifted(n) == {[timer |-> e.timer, left |-> e.left + n] : e \in queued}

\* fire_due reads the clock once; from then on its now moves away from it.
NowShifted(n) == IF pc = "timers" THEN now + n ELSE now

Tick ==
  /\ \A e \in queued : e.left > Latest
  /\ NowShifted(-1) >= Latest
  /\ queued' = Shifted(-1)
  /\ now' = NowShifted(-1)
  /\ UNCHANGED <<pc, stop, open, readable, revents, inactive, owed>>

StepBack(n) ==
  /\ open
  /\ \A e \in queued : e.left + n <= Farthest
  /\ NowShifted(n) <= MaxBack
  /\ queued' = Shifted(n)
  /\ now' = NowShifted(n)
  /\ UNCHANGED <<pc, stop, open, readable, revents, inactive, owed>>

\* A message for socket s; for Internal, somebody's call of shutdown().
Arrive(s) ==
  /\ open
  /\ readable' = readable \cup {s}
  /\ UNCHANGED <<pc, stop, open, revents, queued, inactive, now, owed>>

Hush ==
  /\ open' = FALSE
  /\ UNCHANGED <<pc, stop, readable, revents, queued, inactive, now, owed>>

\* run(), called again after the loop was stopped.
Run ==
  /\ pc = "stopped"
  /\ pc' = "poll"
  /\ stop' = FALSE
  /\ UNCHANGED <<open, readable, revents, queued, inactive, now, owed>>

-----------------------------------------------------------------------------
\* Waiting times taken in another unit than the clock's.
EntriesMicroseconds(N, d) == {[timer |-> t, left |-> 1000 * d] : t \in N}
\* reactor::add for the timers of a set N of new entries.
Entries(N, d) == {[timer |-> t, left |-> d] : t \in N}

\* poll returned a positive number: some socket is readable.
PollSockets ==
  /\ pc = "poll"
  /\ readable # {}
  /\ revents' = readable
  /\ pc' = "sockets"
  /\ UNCHANGED <<stop, open, readable, queued, inactive, now, owed>>

\* poll returned 0: no socket is readable and the first deadline has passed.
PollTimeout ==
  /\ pc = "poll"
  /\ readable = {}
  /\ \E e \in queued : e.left <= 0
  /\ now' = 0
  /\ pc' = "timers"
  /\ UNCHANGED <<stop, open, readable, revents, queued, inactive, owed>>

AfterPass(stopping) == IF stopping THEN "stopped" ELSE "poll"

\* The callback of socket s reads one message (others may be waiting behind
\* it); it may add timers and set timers inactive.  The rest of the pass is
\* dispatched even when the callback is the one that requests the stop.
Dispatch(s, N, d, C, more) ==
  /\ pc = "sockets"
  /\ s \in revents
  /\ N \cap TimersOf(queued) = {}
  /\ C \subseteq owed
  /\ revents' = revents \ {s}
  /\ readable' = IF more THEN readable ELSE readable \ {s}
  /\ stop' = (stop \/ s = Internal)
  /\ queued' = queued \cup Entries(N, d)
  /\ inactive' = (inactive \ N) \cup C
  /\ owed' = (owed \cup N) \ C
  /\ pc' = IF revents' = {} THEN AfterPass(stop') ELSE "sockets"
  /\ UNCHANGED <<open, now>>

\* The callback reads its message and throws, as the hub's handlers may: the
\* exception leaves run().  The rest of the pass is not dispatched; sockets
\* that still have messages are reported again when the loop is run again.
DispatchThrows(s, more) ==
  /\ pc = "sockets"
  /\ s \in revents \ {Internal}
  /\ readable' = IF more THEN readable ELSE readable \ {s}
  /\ revents' = {}
  /\ pc' = "stopped"
  /\ UNCHANGED <<stop, open, queued, inactive, now, owed>>

\* A pop that takes an entry the callback has just added.
PopsAdded(e, A) == IF A = {} THEN {e} ELSE A
\* queue.pop() after the callback of e added the entries A: e is still the
\* top unless one of A comes before it.
Popped(e, A) ==
  IF \E a \in A : a.left < e.left THEN Tops(A) ELSE {e}

\* One round of fire_due: fire the top if active, then pop.  The callback may
\* add timers and set others inactive, even ones that are due in this pass.
Fire(e, N, d, C) ==
  LET A == Entries(N, d) IN
  /\ pc = "timers"
  /\ e \in Tops(queued)
  /\ IsDue(e)
  /\ N \cap TimersOf(queued) = {}
  /\ C \subseteq owed \ {e.timer}
  /\ e.timer \in inactive => N = {} /\ C = {}
  /\ \E p \in Popped(e, A) : queued' = (queued \cup A) \ {p}
  /\ inactive' = (inactive \ ({e.timer} \cup N)) \cup C
  /\ owed' = (owed \ ({e.timer} \cup C)) \cup N
  /\ UNCHANGED <<pc, stop, open, readable, revents, now>>

FireDueEnds ==
  /\ pc = "timers"
  /\ \A e \in Tops(queued) : ~IsDue(e)
  /\ pc' = AfterPass(stop)
  /\ UNCHANGED <<stop, open, readable, revents, queued, inactive, now, owed>>

\* Only while the peers send is there another message behind the one read.
DispatchAny ==
  \E s \in Socket, more \in BOOLEAN :
    /\ more => open
    /\ \/ DispatchThrows(s, more)
       \/ \E N \in SUBSET Timer, d \in Delay, C \in SUBSET owed :
            Dispatch(s, N, d, C, more)
FireAny ==
  \E e \in queued, N \in SUBSET Timer, d \in Delay, C \in SUBSET owed :
    Fire(e, N, d, C)

Next ==
  \/ Tick
  \/ \E n \in 1..MaxBack : StepBack(n)
  \/ \E s \in Socket : Arrive(s)
  \/ Hush
  \/ Run
  \/ PollSockets
  \/ PollTimeout
  \/ DispatchAny
  \/ FireAny
  \/ FireDueEnds

\* Time passes, the loop's thread runs, and its owner runs a stopped loop.
Fairness ==
  /\ WF_vars(Tick)
  /\ WF_vars(PollSockets \/ PollTimeout)
  /\ WF_vars(DispatchAny)
  /\ WF_vars(FireAny \/ FireDueEnds)
  /\ WF_vars(Run)

Spec == Init /\ [][Next]_vars /\ Fairness

-----------------------------------------------------------------------------
\* The queue holds exactly the timers still owed and the ones set inactive:
\* none is popped before it fired and none fires twice, although fire_due
\* pops whatever is on top after the callback added timers of its own.  It
\* takes MaxBack < MinDelay: a clock set back further breaks it.
TimersKept == owed = TimersOf(queued) \ inactive

\* While fire_due runs, no timer becomes due that was not due when it read the
\* clock: neither time that passes, nor a correction of the clock, nor a timer
\* a callback adds keeps the loop from its sockets.
DueTimers == TimersOf({e \in queued : IsDue(e)})
PassShrinks ==
  [][pc = "timers" /\ pc' = "timers" => DueTimers' \subseteq DueTimers]_vars

\* Once the peers stop sending and the clock is no longer corrected, every
\* timer fires or is set inactive, stops and restarts of the loop included.
EveryTimerFires ==
  <>~open => \A t \in Timer : t \in owed ~> t \notin owed

\* deadline_timer's "return how long we have to wait until this event fires"
\* and fire_due's "fires all events which are due currently": in a loop that
\* is not stopped a timer fires however busy the sockets are.
TimerFiresInTraffic ==
  <>[](pc # "stopped") => \A t \in Timer : t \in owed ~> t \notin owed
=============================================================================
