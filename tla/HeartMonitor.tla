---------------------------- MODULE HeartMonitor ----------------------------
(***************************************************************************)
(* The class heartmonitor (controller/heartmonitor.cpp): the three sets it *)
(* keeps, the pong handler and the periodic beat.  The module has no       *)
(* next-state relation of its own: Heartbeat composes it with the heart    *)
(* threads and the transport, Registration with the hub whose callbacks    *)
(* beat() runs.                                                            *)
(***************************************************************************)

CONSTANT Heart  \* the heart names

VARIABLES
  hearts,      \* m_hearts: the hearts believed to be beating
  responses,   \* m_responses: the hearts whose pong came in this interval
  onProbation  \* m_on_probation: hearts that missed the previous interval

monitorVars == <<hearts, responses, onProbation>>

MonitorTypeOK ==
  /\ hearts \subseteq Heart
  /\ responses \subseteq Heart
  /\ onProbation \subseteq hearts

MonitorInit ==
  /\ hearts = {}
  /\ responses = {}
  /\ onProbation = {}

\* A monitor that calls a heart alive before beat() has seen its answer.
AliveOnPong(h) == h \in hearts \cup responses
Alive(h) == h \in hearts

-----------------------------------------------------------------------------
\* The four sets beat() computes before it changes anything.

GoodHearts == hearts \cap responses
MissedBeats == hearts \ GoodHearts
\* A monitor that fails a heart at its first silent interval.
HeartFailuresNoProbation == MissedBeats
\* A monitor that fails a heart on probation although it answered.
HeartFailuresAnswered == onProbation \cap hearts
HeartFailures == onProbation \cap MissedBeats
NewHearts == responses \ GoodHearts

-----------------------------------------------------------------------------
\* A pong that carries the current or the previous ping's timestamp.
RecordPong(h) ==
  /\ responses' = responses \cup {h}
  /\ UNCHANGED <<hearts, onProbation>>

\* A beat that forgets to clear m_on_probation before refilling it.
MonitorBeatNoClear ==
  /\ hearts' = (hearts \cup NewHearts) \ HeartFailures
  /\ onProbation' = onProbation \cup (MissedBeats \cap hearts')
  /\ responses' = {}

\* A beat that clears m_on_probation after filling it.
MonitorBeatClearsLate ==
  /\ hearts' = (hearts \cup NewHearts) \ HeartFailures
  /\ onProbation' = {}
  /\ responses' = {}

\* A beat that refills m_on_probation with all missed beats, as if those that
\* were just declared failed still belonged to m_hearts.
MonitorBeatKeepsFailed ==
  /\ hearts' = (hearts \cup NewHearts) \ HeartFailures
  /\ onProbation' = MissedBeats
  /\ responses' = {}

\* What beat() does to the monitor's state.  The callbacks of new and failed
\* hearts run in between; the composing module adds what they do.
MonitorBeat ==
  /\ hearts' = (hearts \cup NewHearts) \ HeartFailures
  /\ onProbation' = MissedBeats \cap hearts'
  /\ responses' = {}

-----------------------------------------------------------------------------
\* The refinement mapping to the abstract failure detector.
DetectorStatus ==
  [h \in Heart |-> IF h \notin hearts THEN "unknown"
                   ELSE IF h \in onProbation THEN "suspect"
                   ELSE "alive"]

Detector == INSTANCE FailureDetector WITH status <- DetectorStatus,
                                          heard <- responses
=============================================================================
