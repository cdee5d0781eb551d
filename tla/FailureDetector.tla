--------------------------- MODULE FailureDetector ---------------------------
(***************************************************************************)
(* What gpf's heart monitor promises, one heart at a time: a two-strike    *)
(* failure detector.  A heart heard in an interval is alive at the end of  *)
(* it; an alive heart that stays silent for one interval is suspect; a     *)
(* suspect heart that stays silent for one more is dropped.                *)
(* HeartMonitor, whose beat() works on whole sets, implements this module. *)
(***************************************************************************)

CONSTANT Heart

VARIABLES
  status,  \* status[h]: what the monitor believes of h
  heard    \* the hearts heard since the last tick

fdVars == <<status, heard>>

Status == {"unknown", "alive", "suspect"}

\* The verdict on a heart at the end of an interval.
Verdict(s, wasHeard) ==
  IF wasHeard THEN "alive"
  ELSE IF s = "alive" THEN "suspect"
  ELSE "unknown"

Init ==
  /\ status = [h \in Heart |-> "unknown"]
  /\ heard = {}

Hear(h) ==
  /\ heard' = heard \cup {h}
  /\ UNCHANGED status

Tick ==
  /\ status' = [h \in Heart |-> Verdict(status[h], h \in heard)]
  /\ heard' = {}

Next ==
  \/ \E h \in Heart : Hear(h)
  \/ Tick

Spec == Init /\ [][Next]_fdVars
=============================================================================
