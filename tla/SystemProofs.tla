---------------------------- MODULE SystemProofs ----------------------------
(***************************************************************************)
(* System for any names, number of requests, interval and lateness of the  *)
(* loop: its types, what registered() says, and that the registration      *)
(* timeout never hits a healthy engine when it is longer than two          *)
(* intervals and the lateness together.                                    *)
(***************************************************************************)
EXTENDS System, RegistrationProofs

-----------------------------------------------------------------------------
\* The inductive invariant.  Every step of System is one of Registration or
\* leaves its variables alone, so IInv carries over.

\* The entries of an engine carry its name twice; the one with the id this
\* life was given is its own.
NamesDerived == \A ec \in incoming : ec.queue = ec.heartbeat
MineIsOwn ==
  /\ \A e \in Engine : mine[e] # NoId => mine[e] < nextId
  /\ \A ec \in incoming, e \in Engine : mine[e] = ec.id => ec.queue = e

\* What was accepted stays in incoming.
AcceptedHeld == \A id \in acked : \E ec \in incoming : ec.id = id

\* A message carries a life not later than the present one; the request of
\* this life is under way until the hub takes an id for it.
MessagesSent ==
  /\ \A m \in requests \cup departures : m.life <= life[m.engine]
  /\ \A m \in requests : m.life = life[m.engine] => mine[m.engine] = NoId
RegisteredAcked == \A e \in Engine : registered[e] => mine[e] \in acked

\* Only a life the hub had accepted and that is over sends a departure, and
\* its entry, which stays, is not the one of a later life.
DepartureOf(m, ec) ==
  /\ ec.queue = m.engine
  /\ ec.id \in acked
  /\ m.life # life[m.engine] => ec.id # mine[m.engine]
DeparturesAccepted ==
  \A m \in departures :
    /\ m.life = life[m.engine] => ~up[m.engine]
    /\ \E ec \in incoming : DepartureOf(m, ec)

\* A running engine has a running heart, and a prompt heart that was pinged
\* has answered or is about to.
HeartRuns == \A e \in Engine : up[e] => heart[e] # "off"
PingAnswered ==
  \A e \in Engine : prompt[e] /\ heart[e] = "beating"
                      => "current" \in answers[e] \/ e \in responses

\* The entries that wait are unknown to the monitor; unarmed deadlines are
\* at their start.
WaitingUnknown == \A t \in purgeTimers : t.heartbeat \notin hearts
UnarmedFull == \A id \in Id : id \notin Ids(purgeTimers) => purgeIn[id] = Timeout

\* The race: before the first ping a whole interval and the loop's lateness
\* lie between the next beat and the purge; after it, the next beat, which
\* finishes the registration, still comes first.
RaceWon ==
  \A e \in Engine :
    up[e] /\ prompt[e] /\ Own(e) \in purgeTimers
      => /\ purgeIn[mine[e]] > toBeat
         /\ heart[e] = "started" => purgeIn[mine[e]] > toBeat + Interval + Drift

Links ==
  /\ NamesDerived
  /\ MineIsOwn
  /\ AcceptedHeld
  /\ MessagesSent
  /\ RegisteredAcked
  /\ DeparturesAccepted
  /\ HeartRuns
  /\ PingAnswered
  /\ WaitingUnknown
  /\ UnarmedFull

SysInv == IInv /\ SysTypeOK /\ Links

-----------------------------------------------------------------------------
LEMMA Numbers ==
  /\ Interval \in Nat /\ Interval > 0 /\ Floor \in Nat /\ Drift \in Nat
  /\ MaxId \in Nat
  /\ Timeout \in Nat /\ Timeout >= 2 * Interval
  /\ NoId \notin Id
BY SystemAssumption, MaxIdAssumption DEF Timeout, NoId, Id

LEMMA Names == Queue = Engine /\ Heart = Engine
BY SystemAssumption DEF Engine

\* The steps of the engines and of time leave the hub alone; the others are
\* its handlers.
LEMMA StepOfRegistration ==
  ASSUME SysTypeOK, [SysNext]_sysVars
  PROVE  [Next]_vars
<1>1. ASSUME NEW m \in requests, HandleRequest(m)
      PROVE  Next
  <2>1. m.engine \in Queue /\ m.engine \in Heart
    BY Names DEF SysTypeOK, Message
  <2> QED
    BY <1>1, <2>1 DEF HandleRequest, Next
<1>2. ASSUME NEW m \in departures, HandleDeparture(m)
      PROVE  [Next]_vars
  <2>1. m.engine \in Queue
    BY Names DEF SysTypeOK, Message
  <2> QED
    BY <1>2, <2>1 DEF HandleDeparture, Next
<1>3. ASSUME NEW e \in Engine, NEW a \in {"current", "last"}, HandleAnswer(e, a)
      PROVE  Next
  BY <1>3, Names DEF HandleAnswer, Next
<1>4. CASE BeatFires
  BY <1>4 DEF BeatFires, Next
<1>5. ASSUME NEW t \in purgeTimers, PurgeFires(t)
      PROVE  Next
  BY <1>5 DEF PurgeFires, Next
<1>6. ASSUME NEW id \in strandedTimers, StrandedFires(id)
      PROVE  Next
  BY <1>6 DEF StrandedFires, Next
<1>7. ASSUME NEW I \in SUBSET Id, PurgeResults(I)
      PROVE  Next
  BY <1>7 DEF PurgeResults, Next
<1>8. ASSUME NEW e \in Engine, \/ Run(e) \/ DispatchRegistration(e)
                               \/ Shutdown(e) \/ HeartStops(e) \/ Crash(e)
      PROVE  UNCHANGED vars
  BY <1>8 DEF Run, DispatchRegistration, Shutdown, HeartStops, Crash
<1>9. CASE Tick \/ UNCHANGED sysVars
  BY <1>9 DEF Tick, sysVars
<1> QED
  BY <1>1, <1>2, <1>3, <1>4, <1>5, <1>6, <1>7, <1>8, <1>9 DEF SysNext

-----------------------------------------------------------------------------
LEMMA SysInitInv == SysInit => SysInv /\ RaceWon
<1> SUFFICES ASSUME SysInit
             PROVE  SysInv /\ RaceWon
  OBVIOUS
<1> USE DEF SysInit
<1>1. IInv
  BY InitInv
<1>2. /\ incoming = {} /\ acked = {} /\ purgeTimers = {} /\ hearts = {}
      /\ TypeOK
  BY <1>1 DEF Init, MonitorInit, IInv
<1>3. SysTypeOK
  BY <1>2, Numbers DEF SysTypeOK
<1> QED
  BY <1>1, <1>2, <1>3, Numbers
     DEF SysInv, Links, RaceWon, NamesDerived, MineIsOwn, AcceptedHeld, MessagesSent,
         RegisteredAcked, DeparturesAccepted, HeartRuns, PingAnswered,
         WaitingUnknown, UnarmedFull

LEMMA SysNextType ==
  ASSUME SysTypeOK, TypeOK', [SysNext]_sysVars
  PROVE  SysTypeOK'
<1> USE Numbers DEF SysTypeOK
<1>1. ASSUME NEW e \in Engine, Run(e)
      PROVE  SysTypeOK'
  BY <1>1 DEF Run, timeVars, Message
<1>2. ASSUME NEW e \in Engine, DispatchRegistration(e)
      PROVE  SysTypeOK'
  BY <1>2 DEF DispatchRegistration, messageVars, timeVars
<1>3. ASSUME NEW e \in Engine, Shutdown(e)
      PROVE  SysTypeOK'
  BY <1>3 DEF Shutdown, LogOff, timeVars, Message
<1>4. ASSUME NEW e \in Engine, HeartStops(e) \/ Crash(e)
      PROVE  SysTypeOK'
  BY <1>4 DEF HeartStops, Crash, messageVars, timeVars
<1>5. ASSUME NEW m \in requests, HandleRequest(m)
      PROVE  SysTypeOK'
  <2>1. nextId \in Id
    BY <1>5 DEF HandleRequest, RegisterEngine, TypeOK, Id
  <2> QED
    BY <1>5, <2>1 DEF HandleRequest, timeVars
<1>6. ASSUME NEW m \in departures, HandleDeparture(m)
      PROVE  SysTypeOK'
  BY <1>6 DEF HandleDeparture, engineVars, timeVars
<1>7. ASSUME NEW I \in SUBSET Id, PurgeResults(I)
      PROVE  SysTypeOK'
  BY <1>7 DEF PurgeResults, engineVars, messageVars, timeVars
<1>8. ASSUME NEW e \in Engine, NEW a \in {"current", "last"}, HandleAnswer(e, a)
      PROVE  SysTypeOK'
  BY <1>8 DEF HandleAnswer, engineVars, timeVars
<1>9. CASE BeatFires
  <2>1. /\ toBeat' = Interval
        /\ answers' \in [Engine -> SUBSET {"current", "last"}]
        /\ heart' \in [Engine -> {"off", "started", "beating"}]
    BY <1>9 DEF BeatFires, NextAnswers
  <2>2. purgeIn' \in [Id -> (-Drift)..Timeout]
    BY <1>9 DEF BeatFires
  <2> QED
    BY <1>9, <2>1, <2>2 DEF BeatFires
<1>10. ASSUME NEW t \in purgeTimers, PurgeFires(t)
       PROVE  SysTypeOK'
  <2>1. purgeIn' = [purgeIn EXCEPT ![t.id] = Timeout]
    BY <1>10 DEF PurgeFires
  <2>2. Timeout \in (-Drift)..Timeout
    OBVIOUS
  <2>3. purgeIn' \in [Id -> (-Drift)..Timeout]
    BY <2>1, <2>2
  <2> QED
    BY <1>10, <2>3 DEF PurgeFires, engineVars, messageVars
<1>11. ASSUME NEW id \in strandedTimers, StrandedFires(id)
       PROVE  SysTypeOK'
  BY <1>11 DEF StrandedFires, engineVars, messageVars, timeVars
<1>12. CASE Tick
  BY <1>12 DEF Tick, engineVars, messageVars
<1>13. CASE UNCHANGED sysVars
  BY <1>13 DEF sysVars, engineVars, messageVars, timeVars
<1> QED
  BY <1>1, <1>2, <1>3, <1>4, <1>5, <1>6, <1>7, <1>8, <1>9, <1>10, <1>11,
     <1>12, <1>13 DEF SysNext

-----------------------------------------------------------------------------
\* Facts about Registration alone.

\* A deletion timer erases the entry it was armed for.
LEMMA PurgeErasesOne ==
  ASSUME IInv, NEW t \in purgeTimers, PurgeStalledRegistration(t)
  PROVE  /\ t \in incoming /\ t.id \notin acked
         /\ incoming' = incoming \ {t}
         /\ purgeTimers' = purgeTimers \ {t}
         /\ UNCHANGED <<hearts, responses, nextId, engines, deadEngines, acked>>
<1>1. t \in incoming /\ t.id \notin acked
  BY DEF IInv, PurgeOnlyWaiting
<1>2. WithHeart(incoming, {t.heartbeat}) = {t}
  BY <1>1 DEF WithHeart, NamesUnique, IInv
<1> QED
  BY <1>1, <1>2 DEF PurgeStalledRegistration, monitorVars

\* An accepted entry is never erased, and stays accepted.
LEMMA AcceptedStays ==
  ASSUME IInv, [Next]_vars
  PROVE  /\ \A ec \in incoming : ec.id \in acked => ec \in incoming'
         /\ acked \subseteq acked'
<1>1. ASSUME NEW q \in Queue, NEW h \in Heart, RegisterEngine(q, h)
      PROVE  incoming \subseteq incoming' /\ acked \subseteq acked'
  BY <1>1 DEF RegisterEngine, Finish
<1>2. ASSUME NEW t \in purgeTimers, PurgeStalledRegistration(t)
      PROVE  /\ \A ec \in incoming : ec.id \in acked => ec \in incoming'
             /\ acked \subseteq acked'
  BY <1>2, PurgeErasesOne
<1>3. CASE Beat
  BY <1>3 DEF Beat, Finish
<1>4. CASE UNCHANGED <<incoming, acked>>
  BY <1>4
<1> QED
  BY <1>1, <1>2, <1>3, <1>4
     DEF Next, vars, trackerVars, HandlePong, UnregisterEngine,
         HandleStrandedMsgs, PurgeEngines

\* What a request adds: nothing, an accepted entry, or a waiting one of a
\* heart the monitor does not know; the id it takes is new.
LEMMA RequestAdds ==
  ASSUME IInv, NEW q \in Queue, NEW h \in Heart, RegisterEngine(q, h)
  PROVE  LET ec == [id |-> nextId, queue |-> q, heartbeat |-> h] IN
         /\ nextId \in Id /\ nextId < MaxId /\ nextId' = nextId + 1
         /\ UNCHANGED <<hearts, responses>>
         /\ \A f \in incoming \cup purgeTimers : f.id \in Nat /\ f.id < nextId
         /\ \/ UNCHANGED <<incoming, purgeTimers, acked>>
            \/ /\ incoming' = incoming \cup {ec}
               /\ acked' = acked \cup {nextId}
               /\ UNCHANGED purgeTimers
            \/ /\ incoming' = incoming \cup {ec}
               /\ purgeTimers' = purgeTimers \cup {ec}
               /\ h \notin hearts
               /\ UNCHANGED acked
<1> DEFINE ec == [id |-> nextId, queue |-> q, heartbeat |-> h]
<1>1. nextId \in Nat /\ nextId < MaxId /\ nextId' = nextId + 1 /\ nextId \in Id
  BY MaxIdAssumption DEF RegisterEngine, IInv, TypeOK, Id
<1>2. \A f \in incoming \cup purgeTimers : f.id \in Nat /\ f.id < nextId
  BY DEF IInv, TypeOK, Connector, IdsHandedOut, PurgeOnlyWaiting
<1>3. purgeTimers \ {ec} = purgeTimers
  BY <1>1, <1>2
<1>4. Ids({ec}) = {nextId}
  BY DEF Ids
<1> QED
  BY <1>1, <1>2, <1>3, <1>4 DEF RegisterEngine, Finish, Alive, monitorVars

-----------------------------------------------------------------------------
\* The steps preserve Links.  First the engines' own.
LEMMA RunLinks ==
  ASSUME SysInv, NEW e \in Engine, Run(e)
  PROVE  Links'
<1> USE DEF SysInv, Links
<1>1. /\ UNCHANGED <<incoming, acked, purgeTimers, hearts, responses, nextId,
                     departures, answers, purgeIn>>
      /\ life' = [life EXCEPT ![e] = @ + 1]
      /\ up' = [up EXCEPT ![e] = TRUE]
      /\ heart' = [heart EXCEPT ![e] = "started"]
      /\ registered' = [registered EXCEPT ![e] = FALSE]
      /\ mine' = [mine EXCEPT ![e] = NoId]
      /\ requests' = requests \cup {[engine |-> e, life |-> life[e] + 1]}
      /\ \A f \in Engine \ {e} : prompt'[f] = prompt[f]
  BY DEF Run, vars, trackerVars, timeVars, SysTypeOK
<1>2. \A m \in requests \cup departures : m \in Message /\ m.engine \in Engine
                                             /\ m.life \in Nat
  BY DEF SysTypeOK, Message
<1>3. /\ life \in [Engine -> Nat] /\ mine \in [Engine -> Id \cup {NoId}]
      /\ up \in [Engine -> BOOLEAN] /\ registered \in [Engine -> BOOLEAN]
      /\ DOMAIN heart = Engine
  BY DEF SysTypeOK
<1>4. \A ec \in incoming : ec.id \in Id
  BY DEF SysTypeOK, TypeOK, Connector, Id
<1>5. NamesDerived' /\ AcceptedHeld' /\ WaitingUnknown' /\ UnarmedFull'
  BY <1>1 DEF NamesDerived, AcceptedHeld, WaitingUnknown, UnarmedFull, Ids
<1>6. MineIsOwn'
  BY <1>1, <1>3, <1>4, Numbers DEF MineIsOwn
<1>7. MessagesSent'
  BY <1>1, <1>2, <1>3 DEF MessagesSent
<1>8. RegisteredAcked' /\ HeartRuns'
  BY <1>1, <1>3 DEF RegisteredAcked, HeartRuns
<1>9. PingAnswered'
  BY <1>1, <1>3 DEF PingAnswered
<1>10. DeparturesAccepted'
  <2> SUFFICES ASSUME NEW m \in departures
               PROVE  /\ m.life = life'[m.engine] => ~up'[m.engine]
                      /\ \E ec \in incoming : DepartureOf(m, ec)'
    BY <1>1 DEF DeparturesAccepted
  <2>1. CASE m.engine = e
    <3>1. m.life # life'[e]
      BY <1>1, <1>2, <1>3, <2>1 DEF MessagesSent
    <3>2. \A ec \in incoming : ec.id # mine'[e]
      BY <1>1, <1>3, <1>4, Numbers
    <3> QED
      BY <1>1, <2>1, <3>1, <3>2 DEF DeparturesAccepted, DepartureOf
  <2>2. CASE m.engine # e
    BY <1>1, <1>2, <1>3, <2>2 DEF DeparturesAccepted, DepartureOf
  <2> QED
    BY <2>1, <2>2
<1> QED
  BY <1>5, <1>6, <1>7, <1>8, <1>9, <1>10

LEMMA EngineLinks ==
  ASSUME SysInv, NEW e \in Engine,
         \/ DispatchRegistration(e) \/ Shutdown(e) \/ HeartStops(e) \/ Crash(e)
  PROVE  Links'
<1> USE DEF SysInv, Links
<1>1. UNCHANGED <<incoming, acked, purgeTimers, hearts, responses, nextId,
                  life, prompt, mine, requests, answers, purgeIn>>
  BY DEF DispatchRegistration, Shutdown, HeartStops, Crash, vars, trackerVars,
         messageVars, timeVars
<1>2. \A m \in requests \cup departures : m \in Message /\ m.engine \in Engine
  BY DEF SysTypeOK, Message
<1>3. /\ DOMAIN up = Engine /\ DOMAIN heart = Engine
      /\ DOMAIN registered = Engine
      /\ life \in [Engine -> Nat]
  BY DEF SysTypeOK
<1>4. /\ \/ heart' = heart
         \/ ~up'[e] /\ heart' = [heart EXCEPT ![e] = "off"]
      /\ up' = up \/ up' = [up EXCEPT ![e] = FALSE]
  BY <1>3 DEF DispatchRegistration, Shutdown, HeartStops, Crash
<1>5. NamesDerived' /\ AcceptedHeld' /\ WaitingUnknown' /\ UnarmedFull'
      /\ MineIsOwn'
  BY <1>1 DEF NamesDerived, AcceptedHeld, WaitingUnknown, UnarmedFull, Ids,
              MineIsOwn
<1>6. HeartRuns' /\ PingAnswered'
  BY <1>1, <1>3, <1>4 DEF HeartRuns, PingAnswered
<1>7. RegisteredAcked'
  <2>1. \/ registered' = registered
        \/ registered' = [registered EXCEPT ![e] = TRUE] /\ mine[e] \in acked
    BY DEF DispatchRegistration, Shutdown, HeartStops, Crash
  <2> QED
    BY <1>1, <1>3, <2>1 DEF RegisteredAcked
<1>8. /\ UNCHANGED <<incoming, acked, life, mine, requests>>
      /\ \A f \in Engine : up'[f] => up[f]
      /\ \A m \in departures : m.engine \in Engine
  BY <1>1, <1>2, <1>3, <1>4
<1>11. CASE departures' = departures
  <2>1. MessagesSent'
    BY <1>8, <1>11 DEF MessagesSent
  <2>2. DeparturesAccepted'
    BY <1>8, <1>11 DEF DeparturesAccepted, DepartureOf
  <2> QED
    BY <1>5, <1>6, <1>7, <2>1, <2>2
<1>9. CASE Shutdown(e) /\ registered[e]
  <2>1. PICK m : /\ m = [engine |-> e, life |-> life[e]]
                 /\ departures' = departures \cup {m}
                 /\ ~up'[e]
    BY <1>3, <1>9 DEF Shutdown, LogOff
  <2>2. m.engine = e /\ m.life = life[e] /\ life[e] \in Nat
    BY <1>3, <2>1
  <2>3. PICK ec \in incoming : ec.id = mine[e] /\ mine[e] \in acked
    BY <1>9 DEF RegisteredAcked, AcceptedHeld
  <2>4. DepartureOf(m, ec)'
    BY <1>8, <2>2, <2>3 DEF MineIsOwn, DepartureOf
  <2>5. MessagesSent'
    BY <1>8, <2>1, <2>2 DEF MessagesSent
  <2>6. \A d \in departures : \E f \in incoming' : DepartureOf(d, f)'
    BY <1>8 DEF DeparturesAccepted, DepartureOf
  <2>7. \A d \in departures : d.life = life'[d.engine] => ~up'[d.engine]
    BY <1>8 DEF DeparturesAccepted
  <2>8. DeparturesAccepted'
    BY <1>8, <2>1, <2>2, <2>4, <2>6, <2>7 DEF DeparturesAccepted
  <2> QED
    BY <1>5, <1>6, <1>7, <2>5, <2>8
<1>10. departures' = departures \/ (Shutdown(e) /\ registered[e])
  <2>1. ~registered[e] => LogOff(e) = departures
    BY DEF LogOff
  <2> QED
    BY <2>1 DEF DispatchRegistration, Shutdown, HeartStops, Crash, messageVars
<1> QED
  BY <1>9, <1>10, <1>11

-----------------------------------------------------------------------------
\* The hub's handlers.

\* The steps that touch none of the linked state, but for departures that
\* are read.
LEMMA QuietLinks ==
  ASSUME SysInv, departures' \subseteq departures,
         UNCHANGED <<incoming, acked, purgeTimers, hearts, responses, nextId>>,
         UNCHANGED <<engineVars, requests, answers, purgeIn>>
  PROVE  Links'
<1> USE DEF SysInv, Links, engineVars
<1>1. NamesDerived' /\ MineIsOwn' /\ AcceptedHeld' /\ RegisteredAcked'
  BY DEF NamesDerived, MineIsOwn, AcceptedHeld, RegisteredAcked
<1>2. HeartRuns' /\ PingAnswered' /\ WaitingUnknown' /\ UnarmedFull'
  BY DEF HeartRuns, PingAnswered, WaitingUnknown, UnarmedFull
<1>3. MessagesSent' /\ DeparturesAccepted'
  BY DEF MessagesSent, DeparturesAccepted, DepartureOf
<1> QED
  BY <1>1, <1>2, <1>3

LEMMA AnswerLinks ==
  ASSUME SysInv, NEW e \in Engine, NEW a \in {"current", "last"}, HandleAnswer(e, a)
  PROVE  Links'
<1> USE DEF SysInv, Links
<1>1. /\ UNCHANGED <<incoming, acked, purgeTimers, hearts, nextId, purgeIn>>
      /\ UNCHANGED <<life, up, prompt, heart, registered, mine, requests, departures>>
      /\ responses' = responses \cup {e}
      /\ answers' = [answers EXCEPT ![e] = @ \ {a}]
      /\ DOMAIN answers = Engine
  BY DEF HandleAnswer, HandlePong, RecordPong, trackerVars, engineVars,
         timeVars, SysTypeOK
<1>2. NamesDerived' /\ MineIsOwn' /\ AcceptedHeld' /\ RegisteredAcked'
  BY <1>1 DEF NamesDerived, MineIsOwn, AcceptedHeld, RegisteredAcked
<1>3. HeartRuns' /\ WaitingUnknown' /\ UnarmedFull'
  BY <1>1 DEF HeartRuns, WaitingUnknown, UnarmedFull
<1>4. MessagesSent' /\ DeparturesAccepted'
  BY <1>1 DEF MessagesSent, DeparturesAccepted, DepartureOf
<1>5. PingAnswered'
  BY <1>1 DEF PingAnswered
<1> QED
  BY <1>2, <1>3, <1>4, <1>5

LEMMA BeatLinks ==
  ASSUME SysInv, BeatFires
  PROVE  Links'
<1> DEFINE new == WithHeart(incoming, NewHearts)
<1> USE DEF SysInv, Links
<1>1. /\ UNCHANGED <<incoming, nextId>>
      /\ UNCHANGED <<life, up, prompt, registered, mine, requests, departures>>
      /\ hearts' \subseteq hearts \cup NewHearts
      /\ purgeTimers' = purgeTimers \ new
      /\ acked' = acked \cup Ids(new)
      /\ answers' = NextAnswers
      /\ heart' = [e \in Engine |-> IF heart[e] = "off" THEN "off" ELSE "beating"]
      /\ purgeIn' = [id \in Id |-> IF id \in Ids(purgeTimers') THEN purgeIn[id]
                                                               ELSE Timeout]
  BY DEF BeatFires, Beat, Finish, MonitorBeat
<1>2. NamesDerived' /\ MineIsOwn'
  BY <1>1 DEF NamesDerived, MineIsOwn
<1>3. AcceptedHeld' /\ RegisteredAcked'
  BY <1>1 DEF AcceptedHeld, RegisteredAcked, Ids, WithHeart
<1>4. HeartRuns'
  BY <1>1 DEF HeartRuns
<1>5. PingAnswered'
  BY <1>1 DEF PingAnswered, NextAnswers
<1>6. WaitingUnknown'
  <2> SUFFICES ASSUME NEW t \in purgeTimers'
               PROVE  t.heartbeat \notin hearts'
    BY DEF WaitingUnknown
  <2>1. t \in purgeTimers /\ t \in incoming /\ t \notin new
    BY <1>1 DEF IInv, PurgeOnlyWaiting
  <2>2. t.heartbeat \notin NewHearts
    BY <2>1 DEF WithHeart
  <2> QED
    BY <1>1, <2>1, <2>2 DEF WaitingUnknown
<1>7. UnarmedFull'
  BY <1>1 DEF UnarmedFull
<1>8. MessagesSent'
  BY <1>1 DEF MessagesSent
<1>9. DeparturesAccepted'
  BY <1>1 DEF DeparturesAccepted, DepartureOf
<1> QED
  BY <1>2, <1>3, <1>4, <1>5, <1>6, <1>7, <1>8, <1>9

LEMMA PurgeLinks ==
  ASSUME SysInv, NEW t \in purgeTimers, PurgeFires(t)
  PROVE  Links'
<1> USE DEF SysInv, Links
<1>1. /\ t \in incoming /\ t.id \notin acked
      /\ incoming' = incoming \ {t}
      /\ purgeTimers' = purgeTimers \ {t}
      /\ UNCHANGED <<hearts, responses, nextId, acked>>
  BY PurgeErasesOne DEF PurgeFires
<1>2. /\ UNCHANGED <<life, up, prompt, heart, registered, mine, requests>>
      /\ UNCHANGED <<departures, answers>>
      /\ purgeIn' = [purgeIn EXCEPT ![t.id] = Timeout]
      /\ DOMAIN purgeIn = Id
  BY DEF PurgeFires, engineVars, messageVars, SysTypeOK
<1>3. NamesDerived' /\ MineIsOwn'
  BY <1>1, <1>2 DEF NamesDerived, MineIsOwn
<1>4. AcceptedHeld' /\ RegisteredAcked'
  BY <1>1, <1>2 DEF AcceptedHeld, RegisteredAcked
<1>5. HeartRuns' /\ PingAnswered' /\ WaitingUnknown' /\ MessagesSent'
  BY <1>1, <1>2 DEF HeartRuns, PingAnswered, WaitingUnknown, MessagesSent
<1>6. UnarmedFull'
  <2> SUFFICES ASSUME NEW id \in Id, id \notin Ids(purgeTimers')
               PROVE  purgeIn'[id] = Timeout
    BY DEF UnarmedFull
  <2>1. id = t.id \/ id \notin Ids(purgeTimers)
    BY <1>1 DEF Ids
  <2> QED
    BY <1>2, <2>1 DEF UnarmedFull
<1>7. DeparturesAccepted'
  <2> SUFFICES ASSUME NEW m \in departures
               PROVE  \E ec \in incoming' : DepartureOf(m, ec)'
    BY <1>2 DEF DeparturesAccepted
  <2>1. PICK ec \in incoming : DepartureOf(m, ec)
    BY DEF DeparturesAccepted
  <2>2. ec # t
    BY <1>1, <2>1 DEF DepartureOf
  <2> QED
    BY <1>1, <1>2, <2>1, <2>2 DEF DepartureOf
<1> QED
  BY <1>3, <1>4, <1>5, <1>6, <1>7

LEMMA TickLinks ==
  ASSUME SysInv, Tick
  PROVE  Links'
<1> USE DEF SysInv, Links
<1>1. /\ UNCHANGED <<incoming, acked, purgeTimers, hearts, responses, nextId>>
      /\ UNCHANGED <<life, up, prompt, heart, registered, mine>>
      /\ UNCHANGED <<requests, departures, answers>>
      /\ purgeIn' = [id \in Id |-> IF id \in Ids(purgeTimers) THEN purgeIn[id] - 1
                                                              ELSE Timeout]
  BY DEF Tick, vars, trackerVars, engineVars, messageVars
<1>2. NamesDerived' /\ MineIsOwn' /\ AcceptedHeld' /\ RegisteredAcked'
  BY <1>1 DEF NamesDerived, MineIsOwn, AcceptedHeld, RegisteredAcked
<1>3. HeartRuns' /\ PingAnswered' /\ WaitingUnknown'
  BY <1>1 DEF HeartRuns, PingAnswered, WaitingUnknown
<1>4. UnarmedFull'
  BY <1>1 DEF UnarmedFull, Ids
<1>5. MessagesSent' /\ DeparturesAccepted'
  BY <1>1 DEF MessagesSent, DeparturesAccepted, DepartureOf
<1> QED
  BY <1>2, <1>3, <1>4, <1>5

\* What a request does to the variables Links speaks of.
LEMMA RequestEffect ==
  ASSUME SysInv, NEW m \in requests, HandleRequest(m)
  PROVE  LET ec == [id |-> nextId, queue |-> m.engine, heartbeat |-> m.engine] IN
         /\ m \in Message /\ m.engine \in Engine
         /\ nextId \in Id /\ nextId # NoId /\ nextId' = nextId + 1
         /\ UNCHANGED <<hearts, responses>>
         /\ UNCHANGED <<life, up, prompt, heart, registered, departures, answers>>
         /\ UNCHANGED timeVars
         /\ \A f \in incoming \cup purgeTimers : f.id \in Nat /\ f.id < nextId
         /\ \/ UNCHANGED <<incoming, purgeTimers, acked>>
            \/ /\ incoming' = incoming \cup {ec}
               /\ acked' = acked \cup {nextId}
               /\ UNCHANGED purgeTimers
            \/ /\ incoming' = incoming \cup {ec}
               /\ purgeTimers' = purgeTimers \cup {ec}
               /\ m.engine \notin hearts
               /\ UNCHANGED acked
<1>1. m \in Message /\ m.engine \in Queue /\ m.engine \in Heart
  BY Names DEF SysInv, SysTypeOK, Message
<1>2. RegisterEngine(m.engine, m.engine)
  BY DEF HandleRequest
<1>3. IInv /\ MaxId \in Nat
  BY Numbers DEF SysInv
<1>4. m.engine \in Engine
  BY <1>1, Names
<1>5. nextId # NoId
  <2>1. nextId \in Nat /\ nextId < MaxId
    BY <1>2, <1>3 DEF IInv, TypeOK, RegisterEngine
  <2> QED
    BY <1>3, <2>1 DEF NoId
<1>6. /\ UNCHANGED <<life, up, prompt, heart, registered, departures, answers>>
      /\ UNCHANGED timeVars
  BY DEF HandleRequest
<1> HIDE DEF HandleRequest
<1> QED
  BY <1>1, <1>2, <1>3, <1>4, <1>5, <1>6, RequestAdds

LEMMA RequestLinks ==
  ASSUME SysInv, NEW m \in requests, HandleRequest(m)
  PROVE  Links'
<1> USE DEF SysInv, Links
<1> PICK ec : ec = [id |-> nextId, queue |-> m.engine, heartbeat |-> m.engine]
  OBVIOUS
<1>1. ec.id = nextId /\ ec.queue = m.engine /\ ec.heartbeat = m.engine
  OBVIOUS
<1>2. /\ m \in Message /\ m.engine \in Engine
      /\ nextId \in Nat /\ nextId \in Id /\ nextId # NoId /\ nextId' = nextId + 1
      /\ UNCHANGED <<hearts, responses>>
      /\ UNCHANGED <<life, up, prompt, heart, registered, departures, answers>>
      /\ UNCHANGED <<toBeat, purgeIn>>
      /\ \A f \in incoming \cup purgeTimers : f.id \in Nat /\ f.id < nextId
  BY RequestEffect DEF timeVars, Id
<1>3. /\ \/ incoming' = incoming
         \/ incoming' = incoming \cup {ec}
      /\ incoming \subseteq incoming'
      /\ acked \subseteq acked'
      /\ \/ purgeTimers' = purgeTimers
         \/ /\ purgeTimers' = purgeTimers \cup {ec}
            /\ ec.heartbeat \notin hearts
  BY RequestEffect
<1>4. \/ acked' = acked
      \/ acked' = acked \cup {ec.id} /\ ec \in incoming'
  BY RequestEffect
<1>5. /\ requests' = requests \ {m}
      /\ mine' = [e \in Engine |-> IF m = [engine |-> e, life |-> life[e]]
                                     THEN nextId ELSE mine[e]]
  BY DEF HandleRequest
<1>6. \A e \in Engine : \/ mine'[e] = mine[e]
                         \/ /\ mine'[e] = nextId /\ m.engine = e
                            /\ m.life = life[e] /\ mine[e] = NoId
  BY <1>5 DEF MessagesSent
<1>7. mine \in [Engine -> Id \cup {NoId}] /\ NoId \notin Id /\ acked \subseteq Id
  BY Numbers DEF SysTypeOK, TypeOK
<1>8. NamesDerived'
  BY <1>1, <1>3 DEF NamesDerived
<1>9. MineIsOwn'
  <2>1. ASSUME NEW e \in Engine, mine'[e] # NoId
        PROVE  mine'[e] < nextId'
    <3>1. CASE mine'[e] = mine[e]
      <4>1. mine[e] \in Nat /\ mine[e] < nextId
        BY <1>7, <2>1, <3>1 DEF MineIsOwn, Id
      <4> QED
        BY <1>2, <3>1, <4>1
    <3>2. CASE mine'[e] = nextId
      BY <1>2, <3>2
    <3> QED
      BY <1>6, <3>1, <3>2
  <2>2. ASSUME NEW f \in incoming', NEW e \in Engine, mine'[e] = f.id
        PROVE  f.queue = e
    <3>1. CASE f \in incoming
      <4>1. f.id # nextId
        BY <1>2, <3>1
      <4>2. mine[e] = f.id
        BY <1>6, <2>2, <4>1
      <4> QED
        BY <3>1, <4>2 DEF MineIsOwn
    <3>2. CASE f = ec
      <4>1. mine[e] # nextId
        BY <1>2, <1>7 DEF MineIsOwn, Id
      <4> QED
        BY <1>1, <1>6, <2>2, <3>2, <4>1
    <3> QED
      BY <1>3, <2>2, <3>1, <3>2
  <2> QED
    BY <2>1, <2>2 DEF MineIsOwn
<1>10. AcceptedHeld'
  <2> SUFFICES ASSUME NEW id \in acked'
               PROVE  \E f \in incoming' : f.id = id
    BY DEF AcceptedHeld
  <2>1. CASE id \in acked
    BY <1>3, <2>1 DEF AcceptedHeld
  <2>2. CASE id \notin acked
    BY <1>4, <2>2
  <2> QED
    BY <2>1, <2>2
<1>11. MessagesSent'
  <2>1. \A l \in requests \cup departures : l \in Message /\ l.engine \in Engine
    BY DEF SysTypeOK, Message
  <2>2. ASSUME NEW l \in requests', l.life = life[l.engine]
        PROVE  mine'[l.engine] = NoId
    <3>1. l \in requests /\ l # m
      BY <1>5
    <3>2. l = [engine |-> l.engine, life |-> life[l.engine]]
      BY <2>1, <2>2, <3>1 DEF Message
    <3>3. mine'[l.engine] = mine[l.engine]
      BY <1>5, <2>1, <3>1, <3>2
    <3> QED
      BY <2>2, <3>1, <3>3 DEF MessagesSent
  <2> QED
    BY <1>2, <1>5, <2>2 DEF MessagesSent
<1>12. RegisteredAcked'
  <2> SUFFICES ASSUME NEW e \in Engine, registered[e]
               PROVE  mine'[e] \in acked'
    BY <1>2 DEF RegisteredAcked
  <2>1. mine[e] \in acked
    BY DEF RegisteredAcked
  <2> QED
    BY <1>3, <1>6, <1>7, <2>1
<1>13. DeparturesAccepted'
  <2> SUFFICES ASSUME NEW l \in departures
               PROVE  /\ l.life = life[l.engine] => ~up[l.engine]
                      /\ \E f \in incoming' : DepartureOf(l, f)'
    BY <1>2 DEF DeparturesAccepted
  <2>1. l.engine \in Engine
    BY DEF SysTypeOK, Message
  <2>2. PICK f \in incoming : DepartureOf(l, f)
    BY DEF DeparturesAccepted
  <2>3. f.id # nextId
    BY <1>2
  <2>4. DepartureOf(l, f)'
    BY <1>2, <1>3, <1>6, <2>1, <2>2, <2>3 DEF DepartureOf
  <2> QED
    BY <1>3, <2>2, <2>4 DEF DeparturesAccepted
<1>14. HeartRuns' /\ PingAnswered'
  BY <1>2 DEF HeartRuns, PingAnswered
<1>15. WaitingUnknown'
  BY <1>2, <1>3 DEF WaitingUnknown
<1>16. UnarmedFull'
  BY <1>2, <1>3 DEF UnarmedFull, Ids
<1> QED
  BY <1>8, <1>9, <1>10, <1>11, <1>12, <1>13, <1>14, <1>15, <1>16

LEMMA SysNextInv == SysInv /\ [SysNext]_sysVars => SysInv'
<1> SUFFICES ASSUME SysInv, [SysNext]_sysVars
             PROVE  SysInv'
  OBVIOUS
<1>1. IInv' /\ SysTypeOK'
  <2>1. IInv'
    BY StepOfRegistration, NextInv DEF SysInv
  <2> QED
    BY <2>1, SysNextType DEF SysInv, IInv
<1>2. ASSUME NEW m \in departures, HandleDeparture(m)
      PROVE  Links'
  BY <1>2, QuietLinks
     DEF HandleDeparture, UnregisterEngine, monitorVars, vars, trackerVars, timeVars
<1>3. ASSUME NEW I \in SUBSET Id, PurgeResults(I)
      PROVE  Links'
  BY <1>3, QuietLinks
     DEF PurgeResults, PurgeEngines, monitorVars, messageVars, timeVars
<1>4. ASSUME NEW id \in strandedTimers, StrandedFires(id)
      PROVE  Links'
  BY <1>4, QuietLinks
     DEF StrandedFires, HandleStrandedMsgs, monitorVars, messageVars, timeVars
<1>5. ASSUME UNCHANGED sysVars
      PROVE  Links'
  BY <1>5, QuietLinks DEF sysVars, vars, trackerVars, messageVars, timeVars
<1>6. Links'
  BY <1>2, <1>3, <1>4, <1>5, RunLinks, EngineLinks, RequestLinks, AnswerLinks,
     BeatLinks, PurgeLinks, TickLinks DEF SysNext
<1> QED
  BY <1>1, <1>6 DEF SysInv

LEMMA SysInvCorrect == SysSafetySpec => []SysInv
<1>1. SysInit => SysInv
  BY SysInitInv
<1> QED
  BY <1>1, SysNextInv, PTL DEF SysSafetySpec

-----------------------------------------------------------------------------
\* Every variable of the engines, the messages and the clock keeps its type.
THEOREM SysTypeCorrect == SysSafetySpec => []SysTypeOK
<1>1. SysInv => SysTypeOK
  BY DEF SysInv
<1> QED
  BY <1>1, SysInvCorrect, PTL

\* An engine that runs and takes itself for registered has the one
\* registration the hub holds under its name, accepted and with the id taken
\* for the request of its present life.
THEOREM RegistrationIsOwn == SysSafetySpec => []RegisteredIsOwn
<1>1. SysInv => RegisteredIsOwn
  <2> SUFFICES ASSUME SysInv, NEW e \in Engine, Serving(e)
               PROVE  /\ mine[e] \in acked
                      /\ {ec \in incoming : ec.queue = e} = {Own(e)}
    BY DEF RegisteredIsOwn
  <2>1. mine[e] \in acked
    BY DEF SysInv, Links, RegisteredAcked, Serving
  <2>2. PICK ec \in incoming : ec.id = mine[e]
    BY <2>1 DEF SysInv, Links, AcceptedHeld
  <2>3. ec.queue = e /\ ec.heartbeat = e
    BY <2>2 DEF SysInv, Links, MineIsOwn, NamesDerived
  <2>4. ec = Own(e)
    BY <2>2, <2>3 DEF Own, SysInv, SysTypeOK, TypeOK, Connector
  <2>5. \A f \in incoming : f.queue = e => f = ec
    BY <2>2, <2>3 DEF SysInv, IInv, NamesUnique
  <2> QED
    BY <2>1, <2>2, <2>3, <2>4, <2>5
<1> QED
  BY <1>1, SysInvCorrect, PTL

\* An accepted registration is never erased from incoming: no purge, departure
\* or failure frees its names.
THEOREM AcceptedNamesAreKept == SysSafetySpec => AcceptedNameKept
<1>1. SysInv /\ [SysNext]_sysVars
        => [\A ec \in incoming : ec.id \in acked => ec \in incoming']_sysVars
  BY StepOfRegistration, AcceptedStays DEF SysInv
<1> QED
  BY <1>1, SysInvCorrect, PTL DEF SysSafetySpec, AcceptedNameKept

\* Whatever engines, messages and the clock do, the tracker sees a behaviour of
\* Registration, so all that holds of Registration's steps holds here.
THEOREM SystemImplementsRegistration == SysSafetySpec => SafetySpec
<1>1. SysInit => Init
  BY DEF SysInit
<1>2. SysInv /\ [SysNext]_sysVars => [Next]_vars
  BY StepOfRegistration DEF SysInv
<1> QED
  BY <1>1, <1>2, SysInvCorrect, PTL DEF SysSafetySpec, SafetySpec

\* The tracker's five safety properties hold among real engines: unique names,
\* timers for the waiting, a monitored heart and an announcement for each live
\* engine, and a dead engine or none for each late failure timer.
THEOREM TrackerIsSafe ==
  SysSafetySpec => [](/\ NamesUnique /\ PurgeOnlyWaiting
                      /\ LiveEngineMonitored /\ LiveEngineAnnounced
                      /\ StrandedFindsDead)
<1>1. SysInit => LiveEngineAnnounced /\ StrandedInv
  BY DEF SysInit, Init, LiveEngineAnnounced, StrandedInv
<1>2. SysInv /\ LiveEngineAnnounced /\ [SysNext]_sysVars => LiveEngineAnnounced'
  BY StepOfRegistration, NextAnnounces DEF SysInv
<1>3. SysInv /\ StrandedInv /\ [SysNext]_sysVars => StrandedInv'
  BY StepOfRegistration, NextStrands DEF SysInv
<1>4. SysInv /\ StrandedInv => /\ NamesUnique /\ PurgeOnlyWaiting
                               /\ LiveEngineMonitored /\ StrandedFindsDead
  BY StrandedEngines DEF SysInv, IInv
<1> QED
  BY <1>1, <1>2, <1>3, <1>4, SysInvCorrect, PTL DEF SysSafetySpec

-----------------------------------------------------------------------------
\* What the first life of a name finds: no answer under way and nothing the
\* monitor knows, until the first heart is pinged.
Unpinged(e) == life[e] = 0 \/ (life[e] = 1 /\ heart[e] = "started")
NothingLeftOver ==
  \A e \in Engine :
    /\ life[e] = 0 => heart[e] = "off"
    /\ Unpinged(e) => answers[e] = {} /\ e \notin hearts \cup responses

LEMMA NothingLeftOverInv ==
  SysInv /\ NothingLeftOver /\ [SysNext]_sysVars => NothingLeftOver'
<1> SUFFICES ASSUME SysInv, NothingLeftOver, [SysNext]_sysVars, NEW e \in Engine
             PROVE  /\ life'[e] = 0 => heart'[e] = "off"
                    /\ Unpinged(e)'
                         => answers'[e] = {} /\ e \notin hearts' \cup responses'
  BY DEF NothingLeftOver
<1>1. /\ life \in [Engine -> Nat]
      /\ heart \in [Engine -> {"off", "started", "beating"}]
      /\ answers \in [Engine -> SUBSET {"current", "last"}]
  BY DEF SysInv, SysTypeOK
<1>2. /\ life[e] = 0 => heart[e] = "off"
      /\ Unpinged(e) => answers[e] = {} /\ e \notin hearts \cup responses
  BY DEF NothingLeftOver
<1>3. ASSUME NEW f \in Engine, Run(f)
      PROVE  (life'[e] = 0 => heart'[e] = "off") /\ (Unpinged(e)' => Unpinged(e))
  <2>1. CASE e = f
    BY <1>1, <1>3, <2>1 DEF Run, Unpinged
  <2>2. CASE e # f
    BY <1>1, <1>2, <1>3, <2>2 DEF Run, Unpinged
  <2> QED
    BY <2>1, <2>2
<1>4. ASSUME NEW f \in Engine, HeartStops(f) \/ Crash(f)
      PROVE  (life'[e] = 0 => heart'[e] = "off") /\ (Unpinged(e)' => Unpinged(e))
  BY <1>1, <1>2, <1>4 DEF HeartStops, Crash, Unpinged
<1>5. ASSUME NEW f \in Engine, Run(f) \/ HeartStops(f) \/ Crash(f)
      PROVE  UNCHANGED <<answers, hearts, responses>>
  BY <1>5 DEF Run, HeartStops, Crash, vars, monitorVars, messageVars
<1>6. ASSUME NEW f \in Engine, NEW a \in {"current", "last"}, HandleAnswer(f, a)
      PROVE  /\ UNCHANGED <<life, heart, hearts>>
             /\ Unpinged(e) => answers'[e] = {} /\ e \notin responses'
  <2>1. a \in answers[f]
    BY <1>6 DEF HandleAnswer
  <2>2. Unpinged(e) => e # f
    BY <1>2, <2>1
  <2> QED
    BY <1>1, <1>2, <1>6, <2>2
       DEF HandleAnswer, HandlePong, RecordPong, engineVars
<1>7. CASE BeatFires
  <2>1. /\ life' = life
        /\ heart' = [f \in Engine |-> IF heart[f] = "off" THEN "off" ELSE "beating"]
        /\ answers' = NextAnswers
        /\ hearts' = (hearts \cup NewHearts) \ HeartFailures
        /\ responses' = {}
    BY <1>7 DEF BeatFires, Beat, MonitorBeat
  <2>2. Unpinged(e)' => life[e] = 0
    BY <2>1 DEF Unpinged
  <2>3. life[e] = 0 => heart[e] = "off" /\ answers[e] = {}
                       /\ e \notin hearts \cup NewHearts
    BY <1>2 DEF Unpinged, NewHearts
  <2> QED
    BY <2>1, <2>2, <2>3 DEF NextAnswers
<1>8. CASE UNCHANGED <<life, heart, answers, hearts, responses>>
  BY <1>2, <1>8 DEF Unpinged
<1>9. \/ UNCHANGED <<life, heart, answers, hearts, responses>>
      \/ BeatFires
      \/ \E f \in Engine : Run(f) \/ HeartStops(f) \/ Crash(f)
      \/ \E f \in Engine, a \in {"current", "last"} : HandleAnswer(f, a)
  BY DEF SysNext, sysVars, vars, trackerVars, monitorVars, engineVars, messageVars,
         DispatchRegistration, Shutdown, HandleRequest, RegisterEngine,
         HandleDeparture, UnregisterEngine, PurgeResults, PurgeEngines,
         PurgeFires, PurgeStalledRegistration, StrandedFires,
         HandleStrandedMsgs, Tick
<1> QED
  BY <1>2, <1>3, <1>4, <1>5, <1>6, <1>7, <1>8, <1>9 DEF Unpinged

\* A prompt heart that was pinged is never among those that missed a beat, and
\* the first heart of a name is not known before it is pinged; so a beat marks
\* the engine of a prompt heart dead only before that heart's first ping and
\* only in a later life.
THEOREM OnlyPastFailsPrompt == SysSafetySpec => PromptFailedByPastOnly
<1>1. SysInv /\ NothingLeftOver /\ [SysNext]_sysVars
        => [\A e \in Engine :
              up[e] /\ prompt[e] /\ e \in deadEngines' \ deadEngines
                => life[e] > 1 /\ heart[e] = "started"]_sysVars
  <2> SUFFICES ASSUME SysInv, NothingLeftOver, [SysNext]_sysVars, NEW e \in Engine,
                      up[e], prompt[e], e \in deadEngines', e \notin deadEngines
               PROVE  life[e] > 1 /\ heart[e] = "started"
    OBVIOUS
  <2>1. ASSUME BeatFires
        PROVE  life[e] > 1 /\ heart[e] = "started"
    <3>1. PICK ec \in WithHeart(engines, HeartFailures) : ec.queue = e
      BY <2>1 DEF BeatFires, Beat, Unregister
    <3>2. ec \in incoming /\ ec.heartbeat \in HeartFailures
      BY <3>1 DEF WithHeart, SysInv, IInv, EnginesFinished
    <3>3. e \in HeartFailures
      BY <3>1, <3>2 DEF SysInv, Links, NamesDerived
    <3>4. e \in hearts /\ e \notin responses
      BY <3>3 DEF HeartFailures, MissedBeats, GoodHearts
    <3>5. heart[e] # "beating"
      BY <2>1, <3>4 DEF SysInv, Links, PingAnswered, BeatFires, PromptAnswered
    <3>6. heart[e] = "started"
      BY <3>5 DEF SysInv, SysTypeOK, Links, HeartRuns
    <3>7. life[e] \in Nat /\ life[e] # 0 /\ life[e] # 1
      BY <3>4, <3>6 DEF SysInv, SysTypeOK, NothingLeftOver, Unpinged
    <3> QED
      BY <3>6, <3>7
  <2>2. BeatFires \/ UNCHANGED deadEngines
    BY DEF SysNext, sysVars, vars, trackerVars, Run, DispatchRegistration, Shutdown,
           HeartStops, Crash, HandleRequest, RegisterEngine, HandleDeparture,
           UnregisterEngine, PurgeResults, PurgeEngines, HandleAnswer, HandlePong,
           PurgeFires, PurgeStalledRegistration, StrandedFires,
           HandleStrandedMsgs, Tick
  <2> QED
    BY <2>1, <2>2
<1>2. SysInit => NothingLeftOver
  BY DEF SysInit, Init, MonitorInit, NothingLeftOver
<1> QED
  BY <1>1, <1>2, NothingLeftOverInv, SysInvCorrect, PTL
     DEF SysSafetySpec, PromptFailedByPastOnly

\* The registration of a serving engine leaves the hub's table by a client's
\* purge_request only: a departure of an earlier life finds no entry of it.
THEOREM ServingIsKept == SysSafetySpec => ServingKept
<1>1. SysInv /\ [SysNext]_sysVars
        => [\A e \in Engine :
              Serving(e) /\ up'[e] /\ registered'[e] /\ Own(e) \in engines
                => Own(e) \in engines' \/ \E I \in SUBSET Id : PurgeResults(I)]_sysVars
  <2> SUFFICES ASSUME SysInv, [SysNext]_sysVars, NEW e \in Engine,
                      Serving(e), NEW ec \in engines, ec = Own(e),
                      ec \notin engines',
                      \A I \in SUBSET Id : ~PurgeResults(I)
               PROVE  FALSE
    OBVIOUS
  <2>1. ec.queue = e /\ ec.id = mine[e] /\ ec \in incoming
    BY DEF Own, SysInv, IInv, EnginesFinished
  <2>2. ASSUME NEW m \in departures, HandleDeparture(m)
        PROVE  FALSE
    <3>1. m.engine = e
      <4>1. PICK f \in engines : f.queue = m.engine /\ engines' = engines \ {f}
        BY <2>2 DEF HandleDeparture, UnregisterEngine, vars, trackerVars
      <4> QED
        BY <2>1, <4>1
    <3>2. m.life # life[e]
      BY <3>1 DEF Serving, SysInv, Links, DeparturesAccepted
    <3>3. PICK f \in incoming : f.queue = e /\ f.id # mine[e]
      BY <3>1, <3>2 DEF SysInv, Links, DeparturesAccepted, DepartureOf
    <3> QED
      BY <2>1, <3>3 DEF SysInv, IInv, NamesUnique
  <2>3. CASE engines \subseteq engines'
    BY <2>3
  <2> QED
    BY <2>2, <2>3
       DEF SysNext, sysVars, vars, trackerVars, Run, DispatchRegistration, Shutdown,
           HeartStops, Crash, HandleRequest, RegisterEngine, Finish, HandleAnswer,
           HandlePong, BeatFires, Beat, PurgeFires, PurgeStalledRegistration,
           StrandedFires, HandleStrandedMsgs, Tick
<1> QED
  BY <1>1, SysInvCorrect, PTL DEF SysSafetySpec, ServingKept

\* A prompt heart that was pinged has answered by the next beat, and nothing
\* but the beat makes a heart known: the entry that waits for it is found.
THEOREM SecondBeatDoesRegister == SysSafetySpec => SecondBeatRegisters
<1>1. SysInv
        => [\A e \in Engine :
              BeatFires /\ up[e] /\ prompt[e] /\ heart[e] = "beating"
                /\ Own(e) \in incoming
                  => mine[e] \in acked']_sysVars
  <2> SUFFICES ASSUME SysInv, NEW e \in Engine, BeatFires, prompt[e],
                      heart[e] = "beating", Own(e) \in incoming
               PROVE  mine[e] \in acked'
    OBVIOUS
  <2>1. acked' = acked \cup Ids(WithHeart(incoming, NewHearts))
    BY DEF BeatFires, Beat, Finish
  <2>2. Own(e).id = mine[e] /\ Own(e).heartbeat = e
    BY DEF Own
  <2>3. e \in responses
    BY DEF SysInv, Links, PingAnswered, BeatFires, PromptAnswered
  <2>4. CASE mine[e] \notin acked
    <3>1. Own(e) \in purgeTimers
      BY <2>2, <2>4 DEF SysInv, IInv, PurgeOnlyWaiting
    <3>2. e \notin hearts
      BY <2>2, <3>1 DEF SysInv, Links, WaitingUnknown
    <3>3. Own(e) \in WithHeart(incoming, NewHearts)
      BY <2>2, <2>3, <3>2 DEF WithHeart, NewHearts, GoodHearts
    <3> QED
      BY <2>1, <2>2, <3>3 DEF Ids
  <2> QED
    BY <2>1, <2>4
<1> QED
  BY <1>1, SysInvCorrect, PTL DEF SysSafetySpec, SecondBeatRegisters

-----------------------------------------------------------------------------
\* The race of the registration timeout against the heart's second beat.
LEMMA RequestRace ==
  ASSUME SysInv, RaceWon, Timeout > 2 * Interval + Drift,
         NEW m \in requests, HandleRequest(m)
  PROVE  RaceWon'
<1> PICK ec : ec = [id |-> nextId, queue |-> m.engine, heartbeat |-> m.engine]
  OBVIOUS
<1>1. /\ UNCHANGED <<up, prompt, heart, toBeat, purgeIn>>
      /\ nextId \in Id
      /\ \A f \in purgeTimers : f.id # nextId
      /\ purgeTimers' \subseteq purgeTimers \cup {ec}
  BY RequestEffect DEF timeVars, Id
<1>2. \A e \in Engine : mine'[e] = mine[e] \/ mine'[e] = nextId
  BY DEF HandleRequest
<1> SUFFICES ASSUME NEW e \in Engine, up[e], prompt[e], Own(e)' \in purgeTimers'
             PROVE  /\ purgeIn[mine'[e]] > toBeat
                    /\ heart[e] = "started"
                         => purgeIn[mine'[e]] > toBeat + Interval + Drift
  BY <1>1 DEF RaceWon
<1>3. CASE mine'[e] = nextId
  <2>1. purgeIn[nextId] = Timeout
    BY <1>1 DEF SysInv, Links, UnarmedFull, Ids
  <2>2. toBeat \in Int /\ toBeat <= Interval
    BY Numbers DEF SysInv, SysTypeOK
  <2> QED
    BY <1>3, <2>1, <2>2, Numbers
<1>4. CASE mine'[e] = mine[e] /\ mine[e] # nextId
  <2>1. Own(e) \in purgeTimers
    BY <1>1, <1>4 DEF Own
  <2> QED
    BY <1>4, <2>1 DEF RaceWon
<1> QED
  BY <1>2, <1>3, <1>4

LEMMA BeatRace ==
  ASSUME SysInv, RaceWon, BeatFires
  PROVE  RaceWon'
<1>1. /\ UNCHANGED <<up, prompt, mine>>
      /\ toBeat' = Interval
      /\ purgeTimers' = purgeTimers \ WithHeart(incoming, NewHearts)
      /\ heart' = [e \in Engine |-> IF heart[e] = "off" THEN "off" ELSE "beating"]
      /\ purgeIn' = [id \in Id |-> IF id \in Ids(purgeTimers') THEN purgeIn[id]
                                                               ELSE Timeout]
  BY DEF BeatFires, Beat, Finish
<1> SUFFICES ASSUME NEW e \in Engine, up[e], prompt[e], Own(e) \in purgeTimers'
             PROVE  purgeIn'[mine[e]] > Interval /\ heart'[e] # "started"
  BY <1>1 DEF RaceWon, Own
<1>2. /\ Own(e) \in purgeTimers /\ Own(e) \in incoming
      /\ Own(e) \notin WithHeart(incoming, NewHearts)
      /\ Own(e) \in Connector
  BY <1>1 DEF SysInv, IInv, PurgeOnlyWaiting, TypeOK
<1>3. Own(e).heartbeat = e /\ Own(e).id = mine[e] /\ mine[e] \in Id
  BY <1>2 DEF Own, Connector, Id
<1>4. e \notin hearts /\ e \notin NewHearts
  BY <1>2, <1>3 DEF SysInv, Links, WaitingUnknown, WithHeart
<1>5. heart[e] = "started"
  <2>1. e \notin responses
    BY <1>4 DEF NewHearts, GoodHearts
  <2>2. heart[e] # "off"
    BY DEF SysInv, Links, HeartRuns
  <2>3. heart[e] # "beating"
    BY <2>1, <2>2 DEF SysInv, Links, PingAnswered, BeatFires, PromptAnswered
  <2> QED
    BY <2>2, <2>3 DEF SysInv, SysTypeOK
<1>6. purgeIn[mine[e]] > toBeat + Interval + Drift
  BY <1>2, <1>5 DEF RaceWon
<1>7. toBeat \in Int /\ toBeat + Drift >= 0 /\ purgeIn[mine[e]] \in Int
  BY <1>3, Numbers DEF SysInv, SysTypeOK
<1>8. purgeIn'[mine[e]] = purgeIn[mine[e]]
  BY <1>1, <1>3 DEF Ids
<1> QED
  BY <1>1, <1>6, <1>7, <1>8, Numbers

LEMMA PurgeRace ==
  ASSUME SysInv, RaceWon, NEW t \in purgeTimers, PurgeFires(t)
  PROVE  RaceWon'
<1>1. /\ t \in incoming /\ purgeTimers' = purgeTimers \ {t}
      /\ UNCHANGED <<up, prompt, heart, mine, toBeat>>
      /\ purgeIn' = [purgeIn EXCEPT ![t.id] = Timeout]
  BY PurgeErasesOne DEF PurgeFires, engineVars, SysInv
<1> SUFFICES ASSUME NEW e \in Engine, up[e], prompt[e], Own(e) \in purgeTimers \ {t}
             PROVE  purgeIn'[mine[e]] = purgeIn[mine[e]]
  BY <1>1 DEF RaceWon, Own
<1>2. Own(e).id = mine[e] /\ Own(e) \in incoming
  BY DEF Own, SysInv, IInv, PurgeOnlyWaiting
<1>3. mine[e] # t.id
  BY <1>1, <1>2 DEF SysInv, IInv, IdsUnique
<1>4. mine[e] \in Id
  BY <1>2 DEF SysInv, IInv, TypeOK, Connector, Id
<1> QED
  BY <1>1, <1>3, <1>4 DEF SysInv, SysTypeOK

LEMMA TickRace ==
  ASSUME SysInv, RaceWon, Tick
  PROVE  RaceWon'
<1>1. /\ UNCHANGED <<up, prompt, heart, mine, purgeTimers>>
      /\ toBeat' = toBeat - 1
      /\ purgeIn' = [id \in Id |-> IF id \in Ids(purgeTimers) THEN purgeIn[id] - 1
                                                              ELSE Timeout]
  BY DEF Tick, vars, trackerVars, engineVars
<1> SUFFICES ASSUME NEW e \in Engine, up[e], prompt[e], Own(e) \in purgeTimers
             PROVE  /\ purgeIn'[mine[e]] = purgeIn[mine[e]] - 1
                    /\ purgeIn[mine[e]] \in Int /\ toBeat \in Int
  BY <1>1, Numbers DEF RaceWon, Own
<1>2. Own(e).id = mine[e] /\ Own(e) \in Connector
  BY DEF Own, SysInv, IInv, TypeOK
<1>3. mine[e] \in Id /\ mine[e] \in Ids(purgeTimers)
  BY <1>2 DEF Connector, Id, Ids
<1> QED
  BY <1>1, <1>3, Numbers DEF SysInv, SysTypeOK

LEMMA EngineRace ==
  ASSUME SysInv, RaceWon, NEW e \in Engine,
         \/ Run(e) \/ DispatchRegistration(e) \/ Shutdown(e) \/ HeartStops(e)
         \/ Crash(e)
  PROVE  RaceWon'
<1>1. UNCHANGED <<purgeTimers, toBeat, purgeIn>>
  BY DEF Run, DispatchRegistration, Shutdown, HeartStops, Crash, vars, trackerVars,
         timeVars
<1>2. CASE Run(e)
  <2>1. /\ mine' = [mine EXCEPT ![e] = NoId]
        /\ \A f \in Engine \ {e} : up'[f] = up[f] /\ prompt'[f] = prompt[f]
                                   /\ heart'[f] = heart[f] /\ mine'[f] = mine[f]
    BY <1>2 DEF Run, SysInv, SysTypeOK
  <2>2. Own(e)' \notin purgeTimers
    <3>1. Own(e)'.id = NoId
      BY <2>1 DEF Own, SysInv, SysTypeOK
    <3> QED
      BY <3>1, Numbers DEF SysInv, IInv, TypeOK, Connector, Id
  <2> QED
    BY <1>1, <2>1, <2>2 DEF RaceWon, Own
<1>3. CASE ~Run(e)
  <2>1. /\ UNCHANGED <<prompt, mine>>
        /\ \A f \in Engine : up'[f] => up[f] /\ heart'[f] = heart[f]
    BY <1>3 DEF DispatchRegistration, Shutdown, HeartStops, Crash, SysInv, SysTypeOK
  <2> QED
    BY <1>1, <2>1 DEF RaceWon, Own
<1> QED
  BY <1>2, <1>3

LEMMA QuietRace ==
  ASSUME RaceWon,
         UNCHANGED <<up, prompt, heart, mine, purgeTimers, toBeat, purgeIn>>
  PROVE  RaceWon'
BY DEF RaceWon, Own

LEMMA RaceInv ==
  ASSUME Timeout > 2 * Interval + Drift
  PROVE  SysInv /\ RaceWon /\ [SysNext]_sysVars => RaceWon'
<1> SUFFICES ASSUME SysInv, RaceWon, [SysNext]_sysVars
             PROVE  RaceWon'
  OBVIOUS
<1>1. ASSUME NEW m \in departures, HandleDeparture(m)
      PROVE  RaceWon'
  BY <1>1, QuietRace
     DEF HandleDeparture, UnregisterEngine, vars, trackerVars, engineVars, timeVars
<1>2. ASSUME NEW I \in SUBSET Id, PurgeResults(I)
      PROVE  RaceWon'
  BY <1>2, QuietRace DEF PurgeResults, PurgeEngines, engineVars, timeVars
<1>3. ASSUME NEW id \in strandedTimers, StrandedFires(id)
      PROVE  RaceWon'
  BY <1>3, QuietRace DEF StrandedFires, HandleStrandedMsgs, engineVars, timeVars
<1>4. ASSUME NEW e \in Engine, NEW a \in {"current", "last"}, HandleAnswer(e, a)
      PROVE  RaceWon'
  BY <1>4, QuietRace DEF HandleAnswer, HandlePong, trackerVars, engineVars, timeVars
<1>5. ASSUME UNCHANGED sysVars
      PROVE  RaceWon'
  BY <1>5, QuietRace DEF sysVars, vars, trackerVars, engineVars, timeVars
<1> QED
  BY <1>1, <1>2, <1>3, <1>4, <1>5, EngineRace, RequestRace, BeatRace, PurgeRace,
     TickRace DEF SysNext

\* When the timeout is longer than two intervals and the loop's lateness, the
\* registration of a running engine that answers each ping before the next is
\* never purged.
THEOREM PromptIsNeverPurged ==
  ASSUME Timeout > 2 * Interval + Drift
  PROVE  SysSafetySpec => PromptNeverPurged
<1>1. SysInv /\ RaceWon /\ [SysNext]_sysVars
        => [\A e \in Engine :
              up[e] /\ prompt[e] /\ Own(e) \in incoming
                => Own(e) \in incoming']_sysVars
  <2> SUFFICES ASSUME SysInv, RaceWon, [SysNext]_sysVars, NEW e \in Engine,
                      up[e], prompt[e], NEW ec \in incoming, ec = Own(e),
                      ec \notin incoming'
               PROVE  FALSE
    OBVIOUS
  <2>1. ASSUME NEW t \in purgeTimers, PurgeFires(t)
        PROVE  FALSE
    <3>1. t = ec
      BY <2>1, PurgeErasesOne DEF PurgeFires, SysInv
    <3>2. purgeIn[mine[e]] > toBeat
      BY <3>1 DEF RaceWon
    <3>3. purgeIn[t.id] <= toBeat
      BY <2>1 DEF PurgeFires, FiresNext
    <3>4. t.id = mine[e] /\ mine[e] \in Id
      BY <3>1 DEF Own, SysInv, IInv, TypeOK, Connector, Id
    <3>5. purgeIn[mine[e]] \in Int /\ toBeat \in Int
      BY <3>4, Numbers DEF SysInv, SysTypeOK
    <3> QED
      BY <3>2, <3>3, <3>4, <3>5
  <2>2. CASE incoming \subseteq incoming'
    BY <2>2
  <2> QED
    BY <2>1, <2>2
       DEF SysNext, sysVars, vars, trackerVars, Run, DispatchRegistration, Shutdown,
           HeartStops, Crash, HandleRequest, RegisterEngine, HandleDeparture,
           UnregisterEngine, PurgeResults, PurgeEngines, HandleAnswer, HandlePong,
           BeatFires, Beat, StrandedFires, HandleStrandedMsgs, Tick
<1>2. SysInit => RaceWon
  BY SysInitInv
<1>3. SysInv /\ RaceWon /\ [SysNext]_sysVars => RaceWon'
  BY RaceInv
<1> QED
  BY <1>1, <1>2, <1>3, SysInvCorrect, PTL DEF SysSafetySpec, PromptNeverPurged
=============================================================================
