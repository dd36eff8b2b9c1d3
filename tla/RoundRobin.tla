------------------------------ MODULE RoundRobin ------------------------------
(***************************************************************************)
(* What the scheduler of kernel/proc/process.c promises, without PCBs,     *)
(* pointers, quanta or saved contexts: one process runs, the others wait   *)
(* in a line, and whoever gives the CPU up goes to the end of the line.    *)
(* Module Scheduler is shown to implement this specification.              *)
(***************************************************************************)
EXTENDS Integers, Sequences, SequencesExt

CONSTANTS Procs, NULL

VARIABLES running,  (* the process that has the CPU, or NULL before start  *)
          ready     (* the processes that wait, first come first           *)

vars == <<running, ready>>

Init == running = NULL /\ ready = <<>>

(* A new process joins the line at its end. *)
Admit(p) ==
  /\ p # running
  /\ p \notin ToSet(ready)
  /\ ready' = Append(ready, p)
  /\ UNCHANGED running

(* A waiting process leaves for good; the others keep their order. *)
Retire(p) ==
  /\ p \in ToSet(ready)
  /\ ready' = RemoveFirst(ready, p)
  /\ UNCHANGED running

(* The first process gets the CPU. *)
Begin ==
  /\ running = NULL
  /\ ready # <<>>
  /\ running' = Head(ready)
  /\ ready' = Tail(ready)

(* The running process goes to the end of the line, the first one runs. *)
Rotate ==
  /\ running # NULL
  /\ running' = Head(Append(ready, running))
  /\ ready' = Tail(Append(ready, running))

Next == \/ \E p \in Procs : Admit(p)
        \/ \E p \in Procs : Retire(p)
        \/ Begin
        \/ Rotate

SafeSpec == Init /\ [][Next]_vars

Spec == SafeSpec /\ WF_vars(Rotate)
===============================================================================
