--------------------------- MODULE MCTaskTracker ---------------------------
(* TaskTracker on one message of the MUX queue and two of the Task queue,  *)
(* with two engines.                                                       *)
EXTENDS TaskTracker
CONSTANTS m1, t1, t2
MCMuxMsg == {m1}
MCTaskMsg == {t1, t2}
MCEid == {0, 1}
=============================================================================
