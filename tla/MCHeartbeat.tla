---------------------------- MODULE MCHeartbeat ----------------------------
(* Heartbeat on two hearts: one prompt, one that stops and restarts, loses *)
(* pings and answers as late as it likes.                                  *)
EXTENDS Heartbeat
CONSTANTS h1, h2
MCHeart == {h1, h2}
MCPrompt == {h1}
=============================================================================
