------------------------------ MODULE MCScheduler ------------------------------
(* Instances of Scheduler for TLC.  PCB addresses are interchangeable.     *)
EXTENDS Scheduler

Symmetry == Permutations(Procs)
================================================================================
