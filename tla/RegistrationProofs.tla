-------------------------- MODULE RegistrationProofs --------------------------
(***************************************************************************)
(* Registration for any hearts, queues and number of requests: its types   *)
(* and the safety properties of the engine tracker.                        *)
(***************************************************************************)
EXTENDS Registration, TLAPS

-----------------------------------------------------------------------------
\* The inductive invariant: beside the properties, where ids come from, that
\* they identify registrations, and that a registered engine keeps its entry
\* in incoming (finish_registration never erases it), so that uniqueness in
\* incoming is uniqueness everywhere.
IdsHandedOut ==
  /\ \A ec \in incoming : ec.id < nextId
  /\ \A id \in acked : id < nextId

IdsUnique == \A e, f \in incoming : e.id = f.id => e = f

EnginesFinished ==
  /\ engines \subseteq incoming
  /\ Ids(engines) \subseteq acked

IInv ==
  /\ TypeOK
  /\ IdsHandedOut
  /\ IdsUnique
  /\ EnginesFinished
  /\ NamesUnique
  /\ PurgeOnlyWaiting
  /\ LiveEngineMonitored

\* The entry of a request has the next id and the names it asks for.
LEMMA NewConnector ==
  ASSUME TypeOK, nextId < MaxId, NEW q \in Queue, NEW h \in Heart
  PROVE  /\ [id |-> nextId, queue |-> q, heartbeat |-> h] \in Connector
         /\ nextId \in Id
         /\ nextId + 1 \in 0..MaxId
BY MaxIdAssumption DEF TypeOK, Connector, Id

\* The ids of connectors are ids.
LEMMA IdsType ==
  ASSUME NEW E \in SUBSET Connector
  PROVE  Ids(E) \subseteq Id
BY DEF Ids, Id, Connector

-----------------------------------------------------------------------------
LEMMA InitInv == Init => IInv
BY MaxIdAssumption
   DEF Init, MonitorInit, IInv, TypeOK, MonitorTypeOK, IdsHandedOut, IdsUnique,
       EnginesFinished, NamesUnique, PurgeOnlyWaiting, LiveEngineMonitored, Ids

LEMMA NextType == TypeOK /\ [Next]_vars => TypeOK'
<1> SUFFICES ASSUME TypeOK, [Next]_vars
             PROVE  TypeOK'
  OBVIOUS
<1> USE DEF TypeOK, MonitorTypeOK
<1>1. ASSUME NEW q \in Queue, NEW h \in Heart, RegisterEngine(q, h)
      PROVE  TypeOK'
  <2> DEFINE ec == [id |-> nextId, queue |-> q, heartbeat |-> h]
  <2>1. ec \in Connector /\ nextId \in Id /\ nextId + 1 \in 0..MaxId
    BY <1>1, NewConnector DEF RegisterEngine
  <2>2. Ids({ec}) \subseteq Id
    BY <2>1, IdsType
  <2> QED
    BY <1>1, <2>1, <2>2 DEF RegisterEngine, Finish, monitorVars
<1>2. ASSUME NEW t \in purgeTimers, PurgeStalledRegistration(t)
      PROVE  TypeOK'
  BY <1>2 DEF PurgeStalledRegistration, monitorVars
<1>3. ASSUME NEW h \in Heart, HandlePong(h)
      PROVE  TypeOK'
  BY <1>3 DEF HandlePong, RecordPong, trackerVars
<1>4. CASE Beat
  <2>1. MonitorTypeOK'
    BY <1>4 DEF Beat, MonitorBeat, NewHearts, HeartFailures, MissedBeats,
                GoodHearts
  <2>2. WithHeart(incoming, NewHearts) \in SUBSET Connector
    BY DEF WithHeart
  <2>3. WithHeart(engines, HeartFailures) \in SUBSET Connector
    BY DEF WithHeart
  <2>4. \A ec \in WithHeart(engines, HeartFailures) : ec.queue \in Queue
    BY <2>3 DEF Connector
  <2>5. /\ Ids(WithHeart(incoming, NewHearts)) \subseteq Id
        /\ Ids(WithHeart(engines, HeartFailures)) \subseteq Id
    BY <2>2, <2>3, IdsType
  <2> QED
    BY <1>4, <2>1, <2>2, <2>4, <2>5 DEF Beat, Finish, Unregister
<1>5. ASSUME NEW q \in Queue, UnregisterEngine(q)
      PROVE  TypeOK'
  BY <1>5 DEF UnregisterEngine, monitorVars
<1>6. ASSUME NEW id \in strandedTimers, HandleStrandedMsgs(id)
      PROVE  TypeOK'
  BY <1>6 DEF HandleStrandedMsgs, monitorVars
<1>7. ASSUME NEW I \in SUBSET Id, PurgeEngines(I)
      PROVE  TypeOK'
  BY <1>7 DEF PurgeEngines, monitorVars
<1>8. CASE UNCHANGED vars
  BY <1>8 DEF vars, trackerVars
<1> QED
  BY <1>1, <1>2, <1>3, <1>4, <1>5, <1>6, <1>7, <1>8 DEF Next

\* Every variable of the engine tracker keeps its type, next_id()'s counter
\* included.
THEOREM TypeCorrect == Spec => []TypeOK
<1>1. Init => TypeOK
  BY InitInv DEF IInv
<1> QED
  BY <1>1, NextType, PTL DEF Spec

-----------------------------------------------------------------------------
\* Requests whose names are free enter incoming with a fresh id.
LEMMA RegisterKeeps ==
  ASSUME IInv, NEW q \in Queue, NEW h \in Heart, RegisterEngine(q, h)
  PROVE  IInv'
<1> DEFINE ec == [id |-> nextId, queue |-> q, heartbeat |-> h]
<1> USE DEF IInv
<1>1. TypeOK'
  BY NextType DEF Next
<1>2. ec.id = nextId /\ nextId \in Nat /\ nextId' = nextId + 1
  BY DEF RegisterEngine, TypeOK
<1>3. Ids({ec}) = {nextId}
  BY DEF Ids
<1> HIDE DEF ec
<1>4. CASE NameTaken(q, h)
  <2> UNCHANGED <<incoming, engines, purgeTimers, acked, hearts, deadEngines>>
    BY <1>4 DEF RegisterEngine, monitorVars
  <2>1. IdsHandedOut'
    BY <1>2 DEF IdsHandedOut, TypeOK, Connector, Id
  <2> QED
    BY <1>1, <2>1 DEF IdsUnique, EnginesFinished, NamesUnique,
                      PurgeOnlyWaiting, LiveEngineMonitored
<1>5. CASE ~NameTaken(q, h)
  <2>1. /\ incoming' = incoming \cup {ec}
        /\ UNCHANGED <<hearts, deadEngines>>
        /\ \/ /\ Alive(h)
              /\ engines' = engines \cup {ec}
              /\ purgeTimers' = purgeTimers \ {ec}
              /\ acked' = acked \cup {nextId}
           \/ /\ purgeTimers' = purgeTimers \cup {ec}
              /\ UNCHANGED <<engines, acked>>
    BY <1>3, <1>5 DEF RegisterEngine, Finish, monitorVars, ec
  <2>2. ec.queue = q /\ ec.heartbeat = h
    BY DEF ec
  <2>3. \A e \in incoming : e.id # nextId /\ e.id \in Nat
    BY <1>2 DEF IdsHandedOut, TypeOK, Connector
  <2>4. nextId \notin acked /\ acked \subseteq Nat
    BY <1>2 DEF IdsHandedOut, TypeOK, Id
  <2>5. IdsHandedOut'
    <3>1. \A e \in incoming' : e.id < nextId'
      BY <1>2, <2>1, <2>3 DEF IdsHandedOut
    <3>2. acked' \subseteq acked \cup {nextId}
      BY <2>1
    <3>3. \A id \in acked : id \in Nat /\ id < nextId
      BY <2>4 DEF IdsHandedOut
    <3>4. \A id \in acked' : id < nextId'
      BY <1>2, <3>2, <3>3
    <3> QED
      BY <3>1, <3>4 DEF IdsHandedOut
  <2>6. IdsUnique'
    BY <1>2, <2>1, <2>3 DEF IdsUnique
  <2>7. EnginesFinished'
    BY <1>2, <2>1 DEF EnginesFinished, Ids
  <2>8. NamesUnique'
    BY <1>5, <2>1, <2>2 DEF NamesUnique, NameTaken
  <2>9. PurgeOnlyWaiting'
    BY <1>2, <2>1, <2>3, <2>4 DEF PurgeOnlyWaiting
  <2>10. LiveEngineMonitored'
    BY <2>1, <2>2 DEF LiveEngineMonitored, Alive
  <2> QED
    BY <1>1, <2>5, <2>6, <2>7, <2>8, <2>9, <2>10
<1> QED
  BY <1>4, <1>5

\* A deletion timer erases the entry it was armed for and no other.
LEMMA PurgeKeeps ==
  ASSUME IInv, NEW t \in purgeTimers, PurgeStalledRegistration(t)
  PROVE  IInv'
<1> USE DEF IInv
<1>1. TypeOK'
  BY NextType DEF Next
<1>2. t \in incoming /\ t.id \notin acked
  BY DEF PurgeOnlyWaiting
<1>3. WithHeart(incoming, {t.heartbeat}) = {t}
  BY <1>2 DEF WithHeart, NamesUnique
<1>4. /\ incoming' = incoming \ {t}
      /\ purgeTimers' = purgeTimers \ {t}
      /\ UNCHANGED <<hearts, nextId, engines, deadEngines, acked>>
  BY <1>3 DEF PurgeStalledRegistration, monitorVars
<1>5. t \notin engines
  BY <1>2 DEF EnginesFinished, Ids
<1> QED
  BY <1>1, <1>4, <1>5
     DEF IdsHandedOut, IdsUnique, EnginesFinished, NamesUnique,
         PurgeOnlyWaiting, LiveEngineMonitored

\* A beat finishes the registrations of new hearts, again if it must, and
\* marks the engines of failed ones.
LEMMA BeatKeeps ==
  ASSUME IInv, Beat
  PROVE  IInv'
<1> DEFINE new == WithHeart(incoming, NewHearts)
           failed == WithHeart(engines, HeartFailures)
<1> USE DEF IInv
<1>1. TypeOK'
  BY NextType DEF Next
<1>2. /\ hearts' = (hearts \cup NewHearts) \ HeartFailures
      /\ engines' = engines \cup new
      /\ purgeTimers' = purgeTimers \ new
      /\ acked' = acked \cup Ids(new)
      /\ deadEngines' = deadEngines \cup {ec.queue : ec \in failed}
      /\ UNCHANGED <<nextId, incoming>>
  BY DEF Beat, Finish, Unregister, MonitorBeat
<1>3. new \subseteq incoming
  BY DEF WithHeart
<1>4. IdsHandedOut'
  BY <1>2, <1>3 DEF IdsHandedOut, Ids
<1>5. IdsUnique' /\ EnginesFinished'
  BY <1>2, <1>3 DEF IdsUnique, EnginesFinished, Ids
<1>6. NamesUnique'
  BY <1>2, <1>3 DEF NamesUnique, EnginesFinished
<1>7. PurgeOnlyWaiting'
  <2>1. \A ec \in incoming : ec.id \in Ids(new) <=> ec \in new
    BY <1>3 DEF IdsUnique, Ids
  <2> QED
    BY <1>2, <1>3, <2>1 DEF PurgeOnlyWaiting
<1>8. LiveEngineMonitored'
  <2> SUFFICES ASSUME NEW ec \in engines', ec.queue \notin deadEngines'
               PROVE  ec.heartbeat \in hearts'
    BY DEF LiveEngineMonitored
  <2>1. NewHearts \cap HeartFailures = {}
    BY DEF NewHearts, HeartFailures, MissedBeats, GoodHearts
  <2>2. CASE ec \in new
    BY <1>2, <2>1, <2>2 DEF WithHeart
  <2>3. CASE ec \in engines
    <3>1. ec.heartbeat \in hearts
      BY <1>2, <2>3 DEF LiveEngineMonitored
    <3>2. ec.heartbeat \notin HeartFailures
      BY <1>2, <2>3 DEF WithHeart
    <3> QED
      BY <1>2, <3>1, <3>2
  <2> QED
    BY <1>2, <2>2, <2>3
<1> QED
  BY <1>1, <1>4, <1>5, <1>6, <1>7, <1>8

\* Steps that at most erase engines disturb nothing.
LEMMA EraseKeeps ==
  ASSUME IInv, TypeOK', engines' \subseteq engines,
         UNCHANGED <<hearts, nextId, incoming, deadEngines, purgeTimers, acked>>
  PROVE  IInv'
BY DEF IInv, IdsHandedOut, IdsUnique, EnginesFinished, NamesUnique,
       PurgeOnlyWaiting, LiveEngineMonitored, Ids

LEMMA NextInv == IInv /\ [Next]_vars => IInv'
<1> SUFFICES ASSUME IInv, [Next]_vars
             PROVE  IInv'
  OBVIOUS
<1>0. TypeOK'
  BY NextType DEF IInv
<1>1. ASSUME NEW h \in Heart, HandlePong(h)
      PROVE  IInv'
  BY <1>0, <1>1, EraseKeeps DEF HandlePong, RecordPong, trackerVars
<1>2. ASSUME NEW q \in Queue, UnregisterEngine(q)
      PROVE  IInv'
  BY <1>0, <1>2, EraseKeeps DEF UnregisterEngine, monitorVars
<1>3. ASSUME NEW id \in strandedTimers, HandleStrandedMsgs(id)
      PROVE  IInv'
  BY <1>0, <1>3, EraseKeeps DEF HandleStrandedMsgs, monitorVars
<1>4. ASSUME NEW I \in SUBSET Id, PurgeEngines(I)
      PROVE  IInv'
  BY <1>0, <1>4, EraseKeeps DEF PurgeEngines, monitorVars
<1>5. CASE UNCHANGED vars
  BY <1>0, <1>5, EraseKeeps DEF vars, trackerVars
<1> QED
  BY <1>1, <1>2, <1>3, <1>4, <1>5, RegisterKeeps, PurgeKeeps, BeatKeeps
     DEF Next

LEMMA InvCorrect == Spec => []IInv
  BY InitInv, NextInv, PTL DEF Spec

-----------------------------------------------------------------------------
\* register_engine's four lookups keep queue and heart names unique over
\* finished and waiting registrations, though no index of engine_set is.
THEOREM NamesAreUnique == Spec => []NamesUnique
<1>1. IInv => NamesUnique
  BY DEF IInv
<1> QED
  BY <1>1, InvCorrect, PTL

\* Exactly the registrations that still wait for their heart have an armed
\* deletion timer.
THEOREM PurgesOnlyWaiting == Spec => []PurgeOnlyWaiting
<1>1. IInv => PurgeOnlyWaiting
  BY DEF IInv
<1> QED
  BY <1>1, InvCorrect, PTL

\* Every engine that is registered and not marked dead has a heart the
\* monitor watches.
THEOREM LiveEnginesAreMonitored == Spec => []LiveEngineMonitored
<1>1. IInv => LiveEngineMonitored
  BY DEF IInv
<1> QED
  BY <1>1, InvCorrect, PTL

-----------------------------------------------------------------------------
\* What subscribers know.  With IInv the property is inductive: an id names one
\* engine, so a failure announced by the beat takes back no other's.
LEMMA BeatAnnounces ==
  ASSUME IInv, LiveEngineAnnounced, Beat
  PROVE  LiveEngineAnnounced'
<1> DEFINE new == WithHeart(incoming, NewHearts)
           failed == WithHeart(engines, HeartFailures)
<1>1. /\ engines' = engines \cup new
      /\ deadEngines' = deadEngines \cup {ec.queue : ec \in failed}
      /\ announced' = (announced \cup Ids(new)) \ Ids(failed)
  BY DEF Beat, Finish, Unregister
<1>2. new \subseteq incoming /\ failed \subseteq incoming
  BY DEF WithHeart, IInv, EnginesFinished
<1> SUFFICES ASSUME NEW ec \in engines', ec.queue \notin deadEngines'
             PROVE  ec.id \in announced'
  BY DEF LiveEngineAnnounced
<1>3. ec.id \in announced \cup Ids(new)
  BY <1>1 DEF LiveEngineAnnounced, Ids
<1>4. ec.id \notin Ids(failed)
  <2>1. ec \in incoming /\ ec \notin failed
    BY <1>1, <1>2 DEF IInv, EnginesFinished
  <2> QED
    BY <1>2, <2>1 DEF IInv, IdsUnique, Ids
<1> QED
  BY <1>1, <1>3, <1>4

LEMMA NextAnnounces ==
  IInv /\ LiveEngineAnnounced /\ [Next]_vars => LiveEngineAnnounced'
<1> SUFFICES ASSUME IInv, LiveEngineAnnounced, [Next]_vars
             PROVE  LiveEngineAnnounced'
  OBVIOUS
<1>1. ASSUME NEW q \in Queue, NEW h \in Heart, RegisterEngine(q, h)
      PROVE  LiveEngineAnnounced'
  BY <1>1 DEF RegisterEngine, Finish, LiveEngineAnnounced
<1>2. CASE engines' \subseteq engines /\ UNCHANGED <<deadEngines, announced>>
  BY <1>2 DEF LiveEngineAnnounced
<1> QED
  BY <1>1, <1>2, BeatAnnounces
     DEF Next, vars, trackerVars, PurgeStalledRegistration, HandlePong,
         UnregisterEngine, HandleStrandedMsgs, PurgeEngines

\* Every engine that is registered and not marked dead was announced under its
\* id, and not taken back since.
THEOREM LiveEnginesAreAnnounced == Spec => []LiveEngineAnnounced
<1>1. Init => LiveEngineAnnounced
  BY DEF Init, LiveEngineAnnounced
<1> QED
  BY <1>1, InvCorrect, NextAnnounces, PTL DEF Spec

\* The stranded timers.  Their ids were handed out before, so no registration
\* to come has one of them; an entry that has one stays in incoming with its
\* queue marked dead, also when a beat finishes it again.
StrandedInv ==
  \A id \in strandedTimers :
    /\ id < nextId
    /\ \A ec \in incoming : ec.id = id => ec.queue \in deadEngines

\* A new registration has an id no timer is scheduled for.
LEMMA RegisterStrands ==
  ASSUME IInv, StrandedInv, NEW q \in Queue, NEW h \in Heart,
         RegisterEngine(q, h)
  PROVE  StrandedInv'
<1> DEFINE ec == [id |-> nextId, queue |-> q, heartbeat |-> h]
<1>1. ec.id = nextId /\ nextId \in Nat
  BY DEF IInv, TypeOK
<1>2. /\ nextId' = nextId + 1
      /\ UNCHANGED <<deadEngines, strandedTimers>>
      /\ incoming' = incoming \/ incoming' = incoming \cup {ec}
  BY DEF RegisterEngine
<1> HIDE DEF ec
<1> SUFFICES ASSUME NEW id \in strandedTimers
             PROVE  /\ id < nextId'
                    /\ \A c \in incoming' : c.id = id => c.queue \in deadEngines
  BY <1>2 DEF StrandedInv
<1>3. id < nextId /\ id \in Nat
  BY DEF StrandedInv, IInv, TypeOK, Id
<1>4. \A c \in incoming : c.id = id => c.queue \in deadEngines
  BY DEF StrandedInv
<1> QED
  BY <1>1, <1>2, <1>3, <1>4

\* A beat schedules timers for engines whose queue it marks dead; their ids
\* name no other entry.
LEMMA BeatStrands ==
  ASSUME IInv, StrandedInv, Beat
  PROVE  StrandedInv'
<1> DEFINE failed == WithHeart(engines, HeartFailures)
<1>1. /\ deadEngines' = deadEngines \cup {ec.queue : ec \in failed}
      /\ strandedTimers' = strandedTimers \cup Ids(failed)
      /\ UNCHANGED <<nextId, incoming>>
  BY DEF Beat, Unregister
<1>2. failed \subseteq incoming
  BY DEF WithHeart, IInv, EnginesFinished
<1> HIDE DEF failed
<1> SUFFICES ASSUME NEW id \in strandedTimers'
             PROVE  /\ id < nextId
                    /\ \A c \in incoming : c.id = id => c.queue \in deadEngines'
  BY <1>1 DEF StrandedInv
<1>3. CASE id \in strandedTimers
  BY <1>1, <1>3 DEF StrandedInv
<1>4. CASE id \in Ids(failed)
  <2>1. PICK ec \in failed : ec.id = id
    BY <1>4 DEF Ids
  <2>2. id < nextId
    BY <1>2, <2>1 DEF IInv, IdsHandedOut
  <2>3. \A c \in incoming : c.id = id => c = ec
    BY <1>2, <2>1 DEF IInv, IdsUnique
  <2> QED
    BY <1>1, <2>1, <2>2, <2>3
<1> QED
  BY <1>1, <1>3, <1>4

LEMMA NextStrands == IInv /\ StrandedInv /\ [Next]_vars => StrandedInv'
<1> SUFFICES ASSUME IInv, StrandedInv, [Next]_vars
             PROVE  StrandedInv'
  OBVIOUS
<1>1. CASE /\ incoming' \subseteq incoming
           /\ strandedTimers' \subseteq strandedTimers
           /\ UNCHANGED <<nextId, deadEngines>>
  BY <1>1 DEF StrandedInv
<1>2. ASSUME NEW t \in purgeTimers, PurgeStalledRegistration(t)
      PROVE  StrandedInv'
  BY <1>1, <1>2 DEF PurgeStalledRegistration
<1>3. ASSUME NEW h \in Heart, HandlePong(h)
      PROVE  StrandedInv'
  BY <1>1, <1>3 DEF HandlePong, trackerVars
<1>4. ASSUME NEW q \in Queue, UnregisterEngine(q)
      PROVE  StrandedInv'
  BY <1>1, <1>4 DEF UnregisterEngine
<1>5. ASSUME NEW id \in strandedTimers, HandleStrandedMsgs(id)
      PROVE  StrandedInv'
  BY <1>1, <1>5 DEF HandleStrandedMsgs
<1>6. ASSUME NEW I \in SUBSET Id, PurgeEngines(I)
      PROVE  StrandedInv'
  BY <1>1, <1>6 DEF PurgeEngines
<1>7. CASE UNCHANGED vars
  BY <1>1, <1>7 DEF vars, trackerVars
<1> QED
  BY <1>2, <1>3, <1>4, <1>5, <1>6, <1>7, RegisterStrands, BeatStrands DEF Next

\* With IInv the timers' invariant says that a registered engine with such an
\* id is one taken for dead.
LEMMA StrandedEngines == IInv /\ StrandedInv => StrandedFindsDead
BY DEF IInv, EnginesFinished, StrandedInv, StrandedFindsDead

\* However late it fires, the timer of _handle_stranded_msgs finds an engine
\* still taken for dead, or none.
THEOREM StrandedTimersFindDead == Spec => []StrandedFindsDead
<1>1. Init => StrandedInv
  BY DEF Init, StrandedInv
<1> QED
  BY <1>1, InvCorrect, NextStrands, StrandedEngines, PTL DEF Spec

\* Since the heart of a live engine is a beating one for the monitor, its
\* silence is a missed beat, and the second one a failure.
THEOREM SilenceIsCounted == Spec => SilenceCounts
<1>1. IInv
        => [Beat =>
              \A ec \in engines :
                ec.queue \notin deadEngines /\ ec.heartbeat \notin responses
                  => IF ec.heartbeat \in onProbation
                       THEN ec.queue \in deadEngines'
                       ELSE ec.heartbeat \in onProbation']_vars
  <2> SUFFICES ASSUME IInv, Beat, NEW ec \in engines,
                      ec.queue \notin deadEngines, ec.heartbeat \notin responses
               PROVE  IF ec.heartbeat \in onProbation
                        THEN ec.queue \in deadEngines'
                        ELSE ec.heartbeat \in onProbation'
    OBVIOUS
  <2>1. ec.heartbeat \in MissedBeats
    BY DEF IInv, LiveEngineMonitored, MissedBeats, GoodHearts
  <2>2. CASE ec.heartbeat \in onProbation
    <3>1. ec \in WithHeart(engines, HeartFailures)
      BY <2>1, <2>2 DEF WithHeart, HeartFailures
    <3> QED
      BY <2>2, <3>1 DEF Beat, Unregister
  <2>3. CASE ec.heartbeat \notin onProbation
    <3>1. ec.heartbeat \notin HeartFailures
      BY <2>3 DEF HeartFailures
    <3> QED
      BY <2>1, <2>3, <3>1 DEF Beat, MonitorBeat, MissedBeats
  <2> QED
    BY <2>2, <2>3
<1> QED
  BY <1>1, InvCorrect, PTL DEF SilenceCounts
=============================================================================
