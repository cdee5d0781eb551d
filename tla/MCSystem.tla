------------------------------ MODULE MCSystem ------------------------------
(* System with one name, run up to three times, each time with a heart that *)
(* is prompt or answers as it likes.                                        *)
EXTENDS System
CONSTANT e1
MCEngine == {e1}
=============================================================================
