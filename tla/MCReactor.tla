------------------------------ MODULE MCReactor ------------------------------
(* The loop with one socket beside its own, two timers, waiting times of 2  *)
(* and 3, and a clock that may be set back by 1 while timers fire.          *)
EXTENDS Reactor
CONSTANTS internal, s1, t1, t2
MCSocket == {internal, s1}
MCTimer == {t1, t2}
=============================================================================
