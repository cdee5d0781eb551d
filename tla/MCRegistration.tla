--------------------------- MODULE MCRegistration ---------------------------
(* Registration on two hearts and two queues.  Three requests let a name be*)
(* taken, waited for, purged and asked for again.                          *)
EXTENDS Registration
CONSTANTS h1, h2, q1, q2
MCHeart == {h1, h2}
MCQueue == {q1, q2}
=============================================================================
