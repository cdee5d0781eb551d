---------------------------- MODULE Registration ----------------------------
(***************************************************************************)
(* The hub's engine tracker (controller/hub.cpp, controller/engine_set.hpp)*)
(* driven by the registration queries of engines, by the heart monitor's   *)
(* callbacks and by the reactor's timers.                                  *)
(*                                                                         *)
(* Every handler runs to its end on the reactor's thread, so each is one   *)
(* action.  A timer is enabled from the moment it is added: when it fires, *)
(* relative to the beats, is left open.  The environment owns the engines: *)
(* a heart may answer or fall silent at any time, any two names may ask to *)
(* be registered together.                                                 *)
(***************************************************************************)
EXTENDS HeartMonitor, Naturals

CONSTANTS
  Queue,  \* the queue names (ROUTER identities) engines ask for
  MaxId   \* bound: next_id() hands out 0..MaxId-1

ASSUME MaxIdAssumption == MaxId \in Nat

VARIABLES
  nextId,         \* the counter behind engine_tracker::next_id()
  incoming,       \* m_tracker.incoming_registrations
  engines,        \* m_tracker.engines
  deadEngines,    \* m_tracker.dead_engines: queue names
  purgeTimers,    \* the connectors whose deletion_callback is armed
  strandedTimers, \* the ids _handle_stranded_msgs is scheduled for
  acked,          \* the ids whose engine was sent ACK
  announced       \* the ids a subscriber of the notifier takes as registered

trackerVars == <<nextId, incoming, engines, deadEngines, purgeTimers,
                 strandedTimers, acked, announced>>
vars == <<hearts, responses, onProbation, trackerVars>>

Connector == [id : 0..(MaxId - 1), queue : Queue, heartbeat : Heart]
Id == 0..(MaxId - 1)

TypeOK ==
  /\ MonitorTypeOK
  /\ nextId \in 0..MaxId
  /\ incoming \subseteq Connector
  /\ engines \subseteq Connector
  /\ deadEngines \subseteq Queue
  /\ purgeTimers \subseteq Connector
  /\ strandedTimers \subseteq Id
  /\ acked \subseteq Id
  /\ announced \subseteq Id

Init ==
  /\ MonitorInit
  /\ nextId = 0
  /\ incoming = {}
  /\ engines = {}
  /\ deadEngines = {}
  /\ purgeTimers = {}
  /\ strandedTimers = {}
  /\ acked = {}
  /\ announced = {}

Ids(E) == {ec.id : ec \in E}
WithHeart(E, H) == {ec \in E : ec.heartbeat \in H}

-----------------------------------------------------------------------------
\* Finishing that forgets to revoke the deletion timer.
FinishKeepsTimer(E) ==
  /\ engines' = engines \cup E
  /\ purgeTimers' = purgeTimers
  /\ acked' = acked \cup Ids(E)

\* finish_registration for each connector of E: the entry stays in incoming.
\* The multi_index refuses a second element with the same id.
Finish(E) ==
  /\ engines' = engines \cup E
  /\ purgeTimers' = purgeTimers \ E
  /\ acked' = acked \cup Ids(E)

\* A check that only looks at the engines whose registration is finished.
NameTakenByEngine(q, h) ==
  \E ec \in engines : ec.queue = q \/ ec.heartbeat = h
\* The four lookups of register_engine.
NameTaken(q, h) ==
  \E ec \in engines \cup incoming : ec.queue = q \/ ec.heartbeat = h

\* A register_engine that leaves the announcement to handle_new_heart.
RegisterSilently(q, h) ==
  LET ec == [id |-> nextId, queue |-> q, heartbeat |-> h] IN
  /\ nextId < MaxId
  /\ nextId' = nextId + 1
  /\ IF NameTaken(q, h)
       THEN UNCHANGED <<incoming, engines, purgeTimers, acked>>
       ELSE /\ incoming' = incoming \cup {ec}
            /\ IF Alive(h)
                 THEN Finish({ec})
                 ELSE /\ purgeTimers' = purgeTimers \cup {ec}
                      /\ UNCHANGED <<engines, acked>>
  /\ UNCHANGED <<monitorVars, deadEngines, strandedTimers, announced>>
\* register_engine.  An id is consumed even when the request is rejected, and
\* a rejected engine gets no answer.
RegisterEngine(q, h) ==
  LET ec == [id |-> nextId, queue |-> q, heartbeat |-> h] IN
  /\ nextId < MaxId
  /\ nextId' = nextId + 1
  /\ \/ /\ NameTaken(q, h)
        /\ UNCHANGED <<incoming, engines, purgeTimers, acked, announced>>
     \/ /\ ~NameTaken(q, h)
        /\ Alive(h)
        /\ incoming' = incoming \cup {ec}
        /\ Finish({ec})
        /\ announced' = announced \cup {ec.id}
     \/ /\ ~NameTaken(q, h)
        /\ ~Alive(h)
        /\ incoming' = incoming \cup {ec}
        /\ purgeTimers' = purgeTimers \cup {ec}
        /\ UNCHANGED <<engines, acked, announced>>
  /\ UNCHANGED <<monitorVars, deadEngines, strandedTimers>>

\* A deletion timer that looks its registration up among the engines.
PurgeLooksInEngines(t) ==
  /\ t \in purgeTimers
  /\ purgeTimers' = purgeTimers \ {t}
  /\ engines' = engines \ WithHeart(engines, {t.heartbeat})
  /\ UNCHANGED <<monitorVars, nextId, incoming, deadEngines, strandedTimers,
                 acked, announced>>
\* An armed deletion timer fires: _purge_stalled_registration(t.heartbeat)
\* erases the first entry with that heart name.
PurgeStalledRegistration(t) ==
  /\ t \in purgeTimers
  /\ purgeTimers' = purgeTimers \ {t}
  /\ \/ \E ec \in WithHeart(incoming, {t.heartbeat}) :
          incoming' = incoming \ {ec}
     \/ /\ WithHeart(incoming, {t.heartbeat}) = {}
        /\ UNCHANGED incoming
  /\ UNCHANGED <<monitorVars, nextId, engines, deadEngines, strandedTimers,
                 acked, announced>>

\* heartmonitor::handle_pong, the reactor's other socket.
HandlePong(h) ==
  /\ RecordPong(h)
  /\ UNCHANGED trackerVars

\* An unregistration that files the heart's name among the dead queues.
UnregisterMarksHeart(E) ==
  /\ deadEngines' = deadEngines \cup {ec.heartbeat : ec \in E}
  /\ strandedTimers' = strandedTimers \cup Ids(E)
\* _unregister_engine for each connector of E: marked dead, its messages
\* scheduled as stranded, but left in engines.
Unregister(E) ==
  /\ deadEngines' = deadEngines \cup {ec.queue : ec \in E}
  /\ strandedTimers' = strandedTimers \cup Ids(E)

\* A callback that looks a new heart up among the finished registrations.
BeatLooksInEngines ==
  LET new == WithHeart(engines, NewHearts)
      failed == WithHeart(engines, HeartFailures) IN
  /\ MonitorBeat
  /\ Finish(new)
  /\ Unregister(failed)
  /\ announced' = (announced \cup Ids(new)) \ Ids(failed)
  /\ UNCHANGED <<nextId, incoming>>
\* A finished registration that takes its queue off the dead ones.
BeatRevives ==
  LET new == WithHeart(incoming, NewHearts)
      failed == WithHeart(engines, HeartFailures) IN
  /\ MonitorBeat
  /\ Finish(new)
  /\ deadEngines' = (deadEngines \ {ec.queue : ec \in new})
                      \cup {ec.queue : ec \in failed}
  /\ strandedTimers' = strandedTimers \cup Ids(failed)
  /\ announced' = (announced \cup Ids(new)) \ Ids(failed)
  /\ UNCHANGED <<nextId, incoming>>
\* heartmonitor::beat with the hub's callbacks: handle_new_heart finishes the
\* registration found under the heart's name, whatever became of it before;
\* handle_heart_failure runs _unregister_engine.
Beat ==
  LET new == WithHeart(incoming, NewHearts)
      failed == WithHeart(engines, HeartFailures) IN
  /\ MonitorBeat
  /\ Finish(new)
  /\ Unregister(failed)
  /\ announced' = (announced \cup Ids(new)) \ Ids(failed)
  /\ UNCHANGED <<nextId, incoming>>

\* unregister_engine, the engine's own request: nothing but the erasure.
UnregisterEngine(q) ==
  /\ \E ec \in engines : ec.queue = q /\ engines' = engines \ {ec}
  /\ UNCHANGED <<monitorVars, nextId, incoming, deadEngines, purgeTimers,
                 strandedTimers, acked, announced>>

\* The timer of _handle_stranded_msgs, which only reads the tracker.
HandleStrandedMsgs(id) ==
  /\ id \in strandedTimers
  /\ strandedTimers' = strandedTimers \ {id}
  /\ UNCHANGED <<monitorVars, nextId, incoming, engines, deadEngines,
                 purgeTimers, acked, announced>>

\* purge_results(eids) erases the engines themselves.
PurgeEngines(I) ==
  /\ engines' = {ec \in engines : ec.id \notin I}
  /\ UNCHANGED <<monitorVars, nextId, incoming, deadEngines, purgeTimers,
                 strandedTimers, acked, announced>>

Next ==
  \/ \E q \in Queue, h \in Heart : RegisterEngine(q, h)
  \/ \E t \in purgeTimers : PurgeStalledRegistration(t)
  \/ \E h \in Heart : HandlePong(h)
  \/ Beat
  \/ \E q \in Queue : UnregisterEngine(q)
  \/ \E id \in strandedTimers : HandleStrandedMsgs(id)
  \/ \E I \in SUBSET Id : PurgeEngines(I)

\* The reactor runs its timers; engines and clients may stop asking.
Fairness ==
  /\ WF_vars(Beat)
  /\ \A t \in Connector : WF_vars(PurgeStalledRegistration(t))

Spec == Init /\ [][Next]_vars /\ Fairness
SafetySpec == Init /\ [][Next]_vars

-----------------------------------------------------------------------------
\* No two registrations, finished or waiting, share a queue or a heart name,
\* so the lookups by name in the callbacks and in unregister_engine find the
\* one engine they mean (hub.cpp checks four indices, none of them unique).
NamesUnique ==
  \A e, f \in engines \cup incoming :
    e.queue = f.queue \/ e.heartbeat = f.heartbeat => e = f

\* A deletion timer is armed for exactly the registrations still waiting for
\* their heart: none for a finished one (it would erase the entry of a
\* registered engine) and one for each waiting one (it would wait for ever).
PurgeOnlyWaiting ==
  purgeTimers = {ec \in incoming : ec.id \notin acked}

\* The failure of every engine that is registered and not marked dead will be
\* noticed: the monitor counts its heart among the beating ones, through
\* failure, revival, unregistration and repeated registration.
LiveEngineMonitored ==
  \A ec \in engines : ec.queue \notin deadEngines => ec.heartbeat \in hearts

\* A subscriber of the notifier that keeps count of the two notifications knows
\* every engine that is registered and not marked dead, by the id it has now:
\* whichever handler finished the registration, and whatever failures were
\* announced before or with it.
LiveEngineAnnounced ==
  \A ec \in engines : ec.queue \notin deadEngines => ec.id \in announced

\* _handle_stranded_msgs fires long after the failure that scheduled it, and
\* looks its engine up by id.  Whoever left, revived, was purged or registered
\* since: what it finds is an engine still taken for dead, or none.
StrandedFindsDead ==
  \A id \in strandedTimers, ec \in engines :
    ec.id = id => ec.queue \in deadEngines

\* Every beat without an answer takes an engine one strike further: a live one
\* is on probation after it, one on probation is marked dead by it, whichever
\* way and however often its registration came about.
SilenceCounts ==
  [][Beat =>
       \A ec \in engines :
         ec.queue \notin deadEngines /\ ec.heartbeat \notin responses
           => IF ec.heartbeat \in onProbation
                THEN ec.queue \in deadEngines'
                ELSE ec.heartbeat \in onProbation']_vars

\* A registration that waits for its heart is in the end finished or purged.
WaitingResolved ==
  \A ec \in Connector :
    ec \in incoming /\ ec.id \notin acked
      ~> ec \notin incoming \/ ec.id \in acked

\* An engine whose heart falls silent for good ends up marked dead, unless it
\* was unregistered or purged.
FailureNoticed ==
  \A h \in Heart :
    <>[](h \notin responses)
      => <>[](\A ec \in engines :
                ec.heartbeat = h => ec.queue \in deadEngines)

\* What the second half of test engine_init expects: an engine that was
\* unregistered stays so.  Only a new registration puts an engine in engines.
RegisteredOnce ==
  [][\A ec \in engines' \ engines : ec.id \notin acked]_vars

\* What _unregister_engine's comment promises: one way to "unregister an engine
\* (due to its own request or due to heart failure)".  For either reason the
\* engine leaves the hub's table and is announced as gone in the same step.
UnregistrationComplete ==
  [][\A q \in Queue : UnregisterEngine(q) \/ Beat =>
       \A ec \in engines :
         ec.id \in announced => (ec \in engines' <=> ec.id \in announced')]_vars
=============================================================================
