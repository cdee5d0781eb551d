------------------------------- MODULE System -------------------------------
(***************************************************************************)
(* Engines (engine/engine.cpp) and the hub they register on, on one clock. *)
(* An engine and its heart carry the same name here: run() derives the     *)
(* queue's and the heart's name from the engine's.  Registration gives the *)
(* hub's handlers; this module adds the engine's loop and heart thread,    *)
(* the messages under way between them, and the time the two timers of the *)
(* hub take.                                                               *)
(*                                                                         *)
(* A name may be run again, by a new engine object, once the loop and the  *)
(* heart of the one before have ended; messages of an earlier life may     *)
(* still be under way then.  The REQ socket keeps request and reply in     *)
(* lock-step: it can send again exactly when the ACK was read, that is,    *)
(* when the engine is registered.                                          *)
(***************************************************************************)
EXTENDS Registration, Integers, FiniteSets

CONSTANTS
  Interval,  \* the heart monitor's interval
  Floor,     \* the 5000 of the hub's constructor
  Drift      \* how late the loop may fire a due timer

Engine == Queue

ASSUME SystemAssumption ==
  /\ Heart = Engine
  /\ Interval \in Nat \ {0}
  /\ Floor \in Nat
  /\ Drift \in Nat

\* A timeout of one beat for a heart that needs two.
TimeoutOneInterval == Interval
\* m_registration_timeout.
Timeout == IF Floor >= 2 * Interval THEN Floor ELSE 2 * Interval

VARIABLES
  life,        \* how often run() was called under this name
  up,          \* is the engine's loop running?
  prompt,      \* does the heart of this life answer each ping before the next?
  heart,       \* its heart thread: off, started (not pinged yet), beating
  registered,  \* m_registered
  mine,        \* the id the hub took for the request of this life, or NoId
  requests,    \* registration_request messages under way
  departures,  \* unregistration_request messages under way
  answers,     \* pongs under way that the monitor accepts, by ping
  toBeat,      \* time to the deadline of the beat timer
  purgeIn      \* time to the deadline of each armed deletion timer

engineVars == <<life, up, prompt, heart, registered, mine>>
messageVars == <<requests, departures, answers>>
timeVars == <<toBeat, purgeIn>>
sysVars == <<vars, engineVars, messageVars, timeVars>>

NoId == MaxId
Message == [engine : Engine, life : Nat]

SysTypeOK ==
  /\ TypeOK
  /\ life \in [Engine -> Nat]
  /\ up \in [Engine -> BOOLEAN]
  /\ prompt \in [Engine -> BOOLEAN]
  /\ heart \in [Engine -> {"off", "started", "beating"}]
  /\ registered \in [Engine -> BOOLEAN]
  /\ mine \in [Engine -> Id \cup {NoId}]
  /\ requests \subseteq Message
  /\ departures \subseteq Message
  /\ answers \in [Engine -> SUBSET {"current", "last"}]
  /\ toBeat \in (-Drift)..Interval
  /\ purgeIn \in [Id -> (-Drift)..Timeout]

SysInit ==
  /\ Init
  /\ life = [e \in Engine |-> 0]
  /\ up = [e \in Engine |-> FALSE]
  /\ prompt = [e \in Engine |-> FALSE]
  /\ heart = [e \in Engine |-> "off"]
  /\ registered = [e \in Engine |-> FALSE]
  /\ mine = [e \in Engine |-> NoId]
  /\ requests = {}
  /\ departures = {}
  /\ answers = [e \in Engine |-> {}]
  /\ toBeat = Interval
  /\ purgeIn = [id \in Id |-> Timeout]

-----------------------------------------------------------------------------
\* engine::run on a new engine object: the heart thread starts, a fresh REQ
\* socket sends the request, the loop begins.
Run(e) ==
  /\ ~up[e] /\ heart[e] = "off"
  /\ nextId + Cardinality(requests) < MaxId  \* bound: an id for each request
  /\ life' = [life EXCEPT ![e] = @ + 1]
  /\ up' = [up EXCEPT ![e] = TRUE]
  /\ \E p \in BOOLEAN : prompt' = [prompt EXCEPT ![e] = p]
  /\ heart' = [heart EXCEPT ![e] = "started"]
  /\ registered' = [registered EXCEPT ![e] = FALSE]
  /\ mine' = [mine EXCEPT ![e] = NoId]
  /\ requests' = requests \cup {[engine |-> e, life |-> life[e] + 1]}
  /\ UNCHANGED <<vars, departures, answers, timeVars>>

\* An engine that takes any message of the hub for its own ACK.
DispatchAnyAck(e) ==
  /\ up[e] /\ ~registered[e]
  /\ \E ec \in incoming : ec.queue = e /\ ec.id \in acked
  /\ registered' = [registered EXCEPT ![e] = TRUE]
  /\ UNCHANGED <<vars, life, up, prompt, heart, mine, messageVars, timeVars>>
\* engine::dispatch_registration reads the ACK.  The hub routes it to the
\* socket the request came from; that of an earlier life is gone.  A second
\* ACK finds no request open and is dropped by the REQ socket.
DispatchRegistration(e) ==
  /\ up[e] /\ ~registered[e]
  /\ mine[e] \in acked
  /\ registered' = [registered EXCEPT ![e] = TRUE]
  /\ UNCHANGED <<vars, life, up, prompt, heart, mine, messageVars, timeVars>>

\* A shutdown on a socket that may send at any time.
LogOffAlways(e) == departures \cup {[engine |-> e, life |-> life[e]]}
\* The unregistration_request: before the ACK the REQ socket refuses to send,
\* and the catch(...) passes over it.
LogOff(e) ==
  departures \cup
    {m \in {[engine |-> e, life |-> life[e]]} : registered[e]}

\* engine::shutdown: the loop ends; the heart's loop is told to.
Shutdown(e) ==
  /\ up[e]
  /\ up' = [up EXCEPT ![e] = FALSE]
  /\ departures' = LogOff(e)
  /\ UNCHANGED <<vars, life, prompt, heart, registered, mine, requests, answers,
                 timeVars>>

\* The heart thread reads the shutdown event and ends.
HeartStops(e) ==
  /\ ~up[e] /\ heart[e] # "off"
  /\ heart' = [heart EXCEPT ![e] = "off"]
  /\ UNCHANGED <<vars, life, up, prompt, registered, mine, messageVars,
                 timeVars>>

\* The engine's process ends without a word.
Crash(e) ==
  /\ up[e]
  /\ up' = [up EXCEPT ![e] = FALSE]
  /\ heart' = [heart EXCEPT ![e] = "off"]
  /\ UNCHANGED <<vars, life, prompt, registered, mine, messageVars, timeVars>>

-----------------------------------------------------------------------------
\* The hub's dispatch_query: register_engine, unregister_engine, the part of
\* purge_results that concerns engines.
HandleRequest(m) ==
  /\ m \in requests
  /\ requests' = requests \ {m}
  /\ RegisterEngine(m.engine, m.engine)
  /\ mine' = [e \in Engine |-> IF m = [engine |-> e, life |-> life[e]]
                                 THEN nextId ELSE mine[e]]
  /\ UNCHANGED <<life, up, prompt, heart, registered, departures, answers,
                 timeVars>>

HandleDeparture(m) ==
  /\ m \in departures
  /\ departures' = departures \ {m}
  /\ \/ UnregisterEngine(m.engine)
     \/ /\ \A ec \in engines : ec.queue # m.engine
        /\ UNCHANGED vars
  /\ UNCHANGED <<engineVars, requests, answers, timeVars>>

PurgeResults(I) ==
  /\ I \cap Ids(engines) # {}
  /\ PurgeEngines(I)
  /\ UNCHANGED <<engineVars, messageVars, timeVars>>

\* The monitor's handle_pong, with an answer to either of its last two pings.
HandleAnswer(e, a) ==
  /\ a \in answers[e]
  /\ answers' = [answers EXCEPT ![e] = @ \ {a}]
  /\ HandlePong(e)
  /\ UNCHANGED <<engineVars, requests, departures, timeVars>>

-----------------------------------------------------------------------------
\* fire_due fires what is due in the order of the deadlines.
FiresNext(left) ==
  /\ left <= 0
  /\ left <= toBeat
  /\ \A id \in Ids(purgeTimers) : left <= purgeIn[id]

\* What prompt means: no ping overtakes this life's answer to the one before.
PromptAnswered ==
  \A e \in Engine : prompt[e] /\ heart[e] = "beating"
                      => "current" \notin answers[e]

\* The new ping: answers to the one before are now answers to the last but
\* one, and every heart that runs is going to answer.
NextAnswers ==
  [e \in Engine |-> {a \in {"last"} : "current" \in answers[e]}
                      \cup {a \in {"current"} : heart[e] # "off"}]

\* heartmonitor::beat arms its timer again, counted from now, before it
\* looks at the responses.
BeatFires ==
  /\ FiresNext(toBeat)
  /\ PromptAnswered
  /\ Beat
  /\ toBeat' = Interval
  /\ answers' = NextAnswers
  /\ heart' = [e \in Engine |-> IF heart[e] = "off" THEN "off" ELSE "beating"]
  /\ purgeIn' = [id \in Id |-> IF id \in Ids(purgeTimers') THEN purgeIn[id]
                                                           ELSE Timeout]
  /\ UNCHANGED <<life, up, prompt, registered, mine, requests, departures>>

PurgeFires(t) ==
  /\ t \in purgeTimers
  /\ FiresNext(purgeIn[t.id])
  /\ PurgeStalledRegistration(t)
  /\ purgeIn' = [purgeIn EXCEPT ![t.id] = Timeout]
  /\ UNCHANGED <<engineVars, messageVars, toBeat>>

\* It only reads the tracker, so its time is left open.
StrandedFires(id) ==
  /\ HandleStrandedMsgs(id)
  /\ UNCHANGED <<engineVars, messageVars, timeVars>>

\* A loop that keeps an eye on the beat only.
TickBeatOnly ==
  /\ toBeat > -Drift
  /\ toBeat' = toBeat - 1
  /\ purgeIn' = [id \in Id |-> IF id \in Ids(purgeTimers) THEN purgeIn[id] - 1
                                                          ELSE Timeout]
  /\ UNCHANGED <<vars, engineVars, messageVars>>
\* Time passes while no timer is later than the loop may be.
Tick ==
  /\ toBeat > -Drift
  /\ \A id \in Ids(purgeTimers) : purgeIn[id] > -Drift
  /\ toBeat' = toBeat - 1
  /\ purgeIn' = [id \in Id |-> IF id \in Ids(purgeTimers) THEN purgeIn[id] - 1
                                                          ELSE Timeout]
  /\ UNCHANGED <<vars, engineVars, messageVars>>

SysNext ==
  \/ \E e \in Engine : Run(e) \/ DispatchRegistration(e) \/ Shutdown(e)
                         \/ HeartStops(e) \/ Crash(e)
  \/ \E m \in requests : HandleRequest(m)
  \/ \E m \in departures : HandleDeparture(m)
  \/ \E I \in SUBSET Id : PurgeResults(I)
  \/ \E e \in Engine, a \in {"current", "last"} : HandleAnswer(e, a)
  \/ BeatFires
  \/ \E t \in purgeTimers : PurgeFires(t)
  \/ \E id \in strandedTimers : StrandedFires(id)
  \/ Tick

\* Time passes and the hub fires its timers; what a running prompt engine
\* sends arrives, and so does the ACK.
HandleOwnRequest(e) ==
  /\ prompt[e]
  /\ \E m \in requests :
       m = [engine |-> e, life |-> life[e]] /\ HandleRequest(m)

SysFairness ==
  /\ WF_sysVars(Tick)
  /\ WF_sysVars(BeatFires)
  /\ \A t \in Connector : WF_sysVars(PurgeFires(t))
  /\ \A e \in Engine :
       /\ WF_sysVars(HandleOwnRequest(e))
       /\ WF_sysVars(prompt[e] /\ HandleAnswer(e, "current"))
       /\ WF_sysVars(prompt[e] /\ DispatchRegistration(e))

SysSafetySpec == SysInit /\ [][SysNext]_sysVars
SysSpec == SysSafetySpec /\ SysFairness

-----------------------------------------------------------------------------
Own(e) == [id |-> mine[e], queue |-> e, heartbeat |-> e]
Serving(e) == up[e] /\ registered[e]

\* "Revokable if heartbeat comes in time" (hub.cpp:198): the timeout leaves a
\* healthy engine time enough.  The registration of an engine that runs and
\* answers each ping is never purged, wherever between two beats it arrives
\* and however late the loop is.
PromptNeverPurged ==
  [][\A e \in Engine :
       up[e] /\ prompt[e] /\ Own(e) \in incoming
         => Own(e) \in incoming']_sysVars

\* The first beat after a prompt heart was pinged finishes the registration of
\* its engine, if that is with the hub by then: the answer the heart gave in
\* time is found under the name the registration was filed under.
SecondBeatRegisters ==
  [][\A e \in Engine :
       BeatFires /\ up[e] /\ prompt[e] /\ heart[e] = "beating"
         /\ Own(e) \in incoming
           => mine[e] \in acked']_sysVars

\* What an earlier life left behind can hurt a prompt engine at one moment only:
\* the first beat of a later life, which finds the old heart on probation under
\* the new one's name.  No answer still under way and no probation marks its
\* queue dead in its first life or after its heart was first pinged.
PromptFailedByPastOnly ==
  [][\A e \in Engine :
       up[e] /\ prompt[e] /\ e \in deadEngines' \ deadEngines
         => life[e] > 1 /\ heart[e] = "started"]_sysVars

\* An engine that believes to be registered and goes on running stays in the
\* hub's table under its own id: no departure of an earlier life, delivered
\* late, takes it out.  Only a client's purge_request does.
ServingKept ==
  [][\A e \in Engine :
       Serving(e) /\ up'[e] /\ registered'[e] /\ Own(e) \in engines
         => Own(e) \in engines' \/ \E I \in SUBSET Id : PurgeResults(I)]_sysVars

\* registered() speaks of this life: the id taken for it was accepted, and is
\* the one registration the hub holds under the engine's name.
RegisteredIsOwn ==
  \A e \in Engine :
    Serving(e) => /\ mine[e] \in acked
                  /\ {ec \in incoming : ec.queue = e} = {Own(e)}

\* A prompt engine that goes on running is registered, unless its name is
\* held by a registration of an earlier life.
PromptRegistered ==
  \A e \in Engine :
    up[e] /\ prompt[e] /\ mine[e] = NoId
      ~> \/ ~up[e] \/ registered[e]
         \/ \E ec \in incoming : ec.queue = e /\ ec.id # mine[e]

\* A name the hub has accepted once is never free again, whoever leaves or
\* fails: an engine that comes back under it is rejected, gets no reply and
\* waits for ever.
AcceptedNameKept ==
  [][\A ec \in incoming : ec.id \in acked => ec \in incoming']_sysVars

\* What the comment of handle_heart_failure says: it is called when a
\* "registered heart fails to respond to beat request".  An engine that runs,
\* is registered and answers every ping it is sent is not marked dead.
FailureMeansSilence ==
  [][\A e \in Engine :
       Serving(e) /\ prompt[e] => e \notin deadEngines' \ deadEngines]_sysVars
=============================================================================
