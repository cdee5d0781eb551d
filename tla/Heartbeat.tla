----------------------------- MODULE Heartbeat -----------------------------
(***************************************************************************)
(* The heart monitor together with the heart threads (struct heart) and    *)
(* the PUB/SUB and DEALER/ROUTER connections between them.                 *)
(*                                                                         *)
(* A ping is a timestamp; the monitor compares the timestamp a pong echoes *)
(* with those of its last two pings only.  So a ping or a pong in flight   *)
(* is a heart and an age: the number of beats since its ping was sent, 2   *)
(* standing for two or more.  Messages may take any time or never arrive.  *)
(* The hearts of Prompt are the ones whose answer to a ping the monitor    *)
(* handles before the second beat after that ping, and that stay up.       *)
(***************************************************************************)
EXTENDS HeartMonitor, Naturals

CONSTANT Prompt

ASSUME PromptAssumption == Prompt \subseteq Heart

VARIABLES
  up,        \* the hearts whose thread runs
  pings,     \* pings published and not yet read by a heart
  pongs,     \* pongs sent and not yet read by the monitor
  downBeats, \* history: beats since the heart stopped, 0 while it is up
  upBeats    \* history: beats since a prompt heart started

vars == <<hearts, responses, onProbation, up, pings, pongs, downBeats, upBeats>>

MaxAge == 2       \* "two or more beats old"
MaxDownBeats == 4 \* where the history variables saturate
MaxUpBeats == 3

Message == [heart : Heart, age : 0..MaxAge]

Older(n, max) == IF n < max THEN n + 1 ELSE max
Aged(msgs) == {[heart |-> m.heart, age |-> Older(m.age, MaxAge)] : m \in msgs}
Fresh(H) == {[heart |-> h, age |-> 0] : h \in H}

TypeOK ==
  /\ MonitorTypeOK
  /\ up \subseteq Heart
  /\ pings \subseteq Message
  /\ pongs \subseteq Message
  /\ downBeats \in [Heart -> 0..MaxDownBeats]
  /\ upBeats \in [Prompt -> 0..MaxUpBeats]

Init ==
  /\ MonitorInit
  /\ up = {}
  /\ pings = {}
  /\ pongs = {}
  /\ downBeats = [h \in Heart |-> MaxDownBeats]
  /\ upBeats = [h \in Prompt |-> 0]

-----------------------------------------------------------------------------
\* heart::operator(): connect, subscribe and enter the loop.
Start(h) ==
  /\ h \notin up
  /\ up' = up \cup {h}
  /\ downBeats' = [downBeats EXCEPT ![h] = 0]
  /\ UNCHANGED <<monitorVars, pings, pongs, upBeats>>

\* heart::shutdown, or the engine's process dies: queued pings go with it,
\* pongs already sent may still arrive.
Stop(h) ==
  /\ h \in up \ Prompt
  /\ up' = up \ {h}
  /\ pings' = {m \in pings : m.heart # h}
  /\ UNCHANGED <<monitorVars, pongs, downBeats, upBeats>>

\* heart::bumm echoes a ping.
Bumm(m) ==
  /\ m \in pings
  /\ m.heart \in up
  /\ pings' = pings \ {m}
  /\ pongs' = pongs \cup {m}
  /\ UNCHANGED <<monitorVars, up, downBeats, upBeats>>

\* A monitor that takes any pong, however old its ping.
AcceptsPongAnyAge(m) == m.age <= MaxAge
\* A monitor that compares with the current ping only.
AcceptsPongCurrentOnly(m) == m.age = 0
\* received == current || received == last
AcceptsPong(m) == m.age \in {0, 1}

HandlePong(m) ==
  /\ m \in pongs
  /\ pongs' = pongs \ {m}
  /\ IF AcceptsPong(m) THEN RecordPong(m.heart) ELSE UNCHANGED monitorVars
  /\ UNCHANGED <<up, pings, downBeats, upBeats>>

\* The deadline that makes a heart prompt: no answer to the ping before the
\* last is outstanding when the next beat is due.
PromptAnswered ==
  \A m \in pings \cup pongs : m.heart \in Prompt => m.age # 1

\* heartmonitor::beat as the reactor's timer runs it.  The ping is dropped
\* for a subscriber that is still connecting or whose queue is full.
Beat ==
  /\ PromptAnswered
  /\ MonitorBeat
  /\ \E missing \in SUBSET (up \ Prompt) :
       pings' = Aged(pings) \cup Fresh(up \ missing)
  /\ pongs' = Aged(pongs)
  /\ downBeats' = [h \in Heart |-> IF h \in up THEN 0
                                   ELSE Older(downBeats[h], MaxDownBeats)]
  /\ upBeats' = [h \in Prompt |-> IF h \in up THEN Older(upBeats[h], MaxUpBeats)
                                               ELSE 0]
  /\ UNCHANGED up

Next ==
  \/ \E h \in Heart : Start(h)
  \/ \E h \in Heart : Stop(h)
  \/ \E m \in pings : Bumm(m)
  \/ \E m \in pongs : HandlePong(m)
  \/ Beat

\* The beat timer re-arms itself; the hearts of Prompt answer.
Fairness ==
  /\ WF_vars(Beat)
  /\ \A h \in Prompt : \A a \in 0..MaxAge :
       LET m == [heart |-> h, age |-> a] IN
       WF_vars(Bumm(m)) /\ WF_vars(HandlePong(m))

Spec == Init /\ [][Next]_vars /\ Fairness

-----------------------------------------------------------------------------
\* A heart that answers every ping within two intervals is never declared
\* failed: handle_pong's acceptance of the last two timestamps and beat()'s
\* probation together tolerate an answer late by up to two intervals.
PromptHeartKept ==
  [][\A h \in Prompt : h \in hearts => h \in hearts']_vars

\* Four beats after its thread stopped a heart is out of m_hearts, whatever
\* pongs it had sent before: one beat may still count an answer to the last
\* ping, the next one an answer to that ping come late, then come probation
\* and failure.
StoppedHeartDropped ==
  \A h \in Heart : downBeats[h] = MaxDownBeats => h \notin hearts

\* Three beats after its thread started a prompt heart is in m_hearts: the
\* first one pings it, by the third the answer was taken, however late in its
\* two intervals it came.
PromptHeartInTime ==
  \A h \in Prompt : upBeats[h] = MaxUpBeats => h \in hearts

\* A prompt heart that is up is eventually, and from then on always, known.
PromptHeartFound ==
  \A h \in Prompt : [](h \in up => <>[](h \in hearts))

\* beat()'s set algebra implements the two-strike detector heart by heart.
ImplementsDetector == Detector!Spec
=============================================================================
