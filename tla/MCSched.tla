------------------------------ MODULE MCSched ------------------------------
(* Two SRT levels over the main loop: a state machine on each level and one  *)
(* without a queue.                                                          *)
EXTENDS Sched, TLC

CONSTANTS nrt, srt0, srt1, free

MCHome == nrt :> 0 @@ srt0 :> 1 @@ srt1 :> 2 @@ free :> NoQueue
MCQueueLen == [p \in Levels |-> 2]
=============================================================================
