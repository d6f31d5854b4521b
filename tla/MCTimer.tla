------------------------------ MODULE MCTimer ------------------------------
(* Two timers in the pool and one embedded one; the tick counter does not    *)
(* wrap within MaxTime.                                                      *)
EXTENDS Timer

MCCounts == {2, -1}
=============================================================================
