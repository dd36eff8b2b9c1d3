-------------------------------- MODULE KeyFifo --------------------------------
(***************************************************************************)
(* What readers of the keyboard may expect: the characters typed come out  *)
(* once each and in order.  At most Capacity of them are kept.             *)
(***************************************************************************)
EXTENDS Naturals, Sequences

CONSTANTS Chars, Capacity,
          Nothing            (* no character *)

VARIABLES queue,     (* typed and not yet read             *)
          returned   (* what the last read returned        *)

Init == queue = <<>> /\ returned = Nothing

Type ==
  /\ Len(queue) < Capacity
  /\ \E c \in Chars : queue' = Append(queue, c)
  /\ UNCHANGED returned

Read ==
  /\ queue # <<>>
  /\ returned' = Head(queue)
  /\ queue' = Tail(queue)

Spec == Init /\ [][Type \/ Read]_<<queue, returned>>
================================================================================
