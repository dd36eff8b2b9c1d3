------------------------------- MODULE Allocator -------------------------------
(***************************************************************************)
(* What a caller may assume of kmalloc and kfree: memory handed out is not *)
(* handed out again before it is freed.  How the memory is found is left   *)
(* open, and so is when an allocation fails.                               *)
(***************************************************************************)
EXTENDS Integers

VARIABLE allocated  (* the regions [ptr, size] in the hands of callers *)

Disjoint(a, b) == a.ptr + a.size <= b.ptr \/ b.ptr + b.size <= a.ptr

Init == allocated = {}

Allocate ==
  \E r \in allocated' \ allocated :
    /\ allocated' = allocated \union {r}
    /\ \A a \in allocated : Disjoint(a, r)

Release == \E r \in allocated : allocated' = allocated \ {r}

Next == Allocate \/ Release

Spec == Init /\ [][Next]_allocated
================================================================================
