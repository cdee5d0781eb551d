-------------------------------- MODULE MCHub --------------------------------
(* The hub with one engine, which may register twice, fail, revive and      *)
(* leave, and one message in each queue.                                    *)
EXTENDS Hub
CONSTANTS h1, q1, m1, t1
MCHeart == {h1}
MCQueue == {q1}
MCMuxMsg == {m1}
MCTaskMsg == {t1}
=============================================================================
