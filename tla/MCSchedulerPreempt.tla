--------------------------- MODULE MCSchedulerPreempt ---------------------------
(* Instances of SchedulerPreempt for TLC: the processes at the start.      *)
EXTENDS SchedulerPreempt

CONSTANTS p1, p2, p3

Two == <<p1, p2>>
Three == <<p1, p2, p3>>
================================================================================
