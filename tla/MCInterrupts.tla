----------------------------- MODULE MCInterrupts -----------------------------
(* Instances of Interrupts for TLC: the timer, the keyboard, and a line of *)
(* each controller with no handler of its own.                             *)
EXTENDS Interrupts

(* Stubs of ten bytes each, at an address that needs all three fields of   *)
(* a gate when a half word is 16.                                          *)
MCStubs == [v \in 0..47 |-> 300 + 10 * v]

SomeLines == {0, 1, 4, 12}
SomeNoisy == {4, 12}
TimerOnly == {0}
NoLines == {}
===============================================================================
