------------------------------ MODULE ReadyQueue ------------------------------
(***************************************************************************)
(* The ready queue of kernel/proc/process.c: an intrusive doubly linked    *)
(* list threaded through the next and prev fields of the PCBs, with head   *)
(* and tail pointers in scheduler_t.  The three operations of the code are *)
(* functions from one queue record to the next, so that a handler that     *)
(* calls several of them (preempt_handler enqueues and then dequeues) is   *)
(* their composition.                                                      *)
(*                                                                         *)
(* Represents says what the pointers are for: walking them in either       *)
(* direction gives one FIFO sequence of PCBs.                              *)
(***************************************************************************)
EXTENDS Integers, Sequences, SequencesExt

(* An operator whose comment begins with Slip is what a plausible mistake  *)
(* in the code would make of the operator after it; no action uses it.     *)

CONSTANTS Procs,  (* the addresses kmalloc may return for a process_t      *)
          NULL    (* the null pointer                                      *)

ASSUME NullAssumption == NULL \notin Procs

Pointer == Procs \union {NULL}

(* ready_queue_head and _tail, and the next/prev field of every PCB. *)
Queue == [head : Pointer, tail : Pointer,
          next : [Procs -> Pointer], prev : [Procs -> Pointer]]

EmptyQueue == [head |-> NULL, tail |-> NULL,
               next |-> [p \in Procs |-> NULL],
               prev |-> [p \in Procs |-> NULL]]

(* Slip: the new element goes in front. *)
EnqueueFront(q, p) ==
  [head |-> p, tail |-> IF q.tail = NULL THEN p ELSE q.tail,
   next |-> [q.next EXCEPT ![p] = q.head],
   prev |-> [x \in Procs |-> IF x = q.head THEN p
                             ELSE IF x = p THEN NULL ELSE q.prev[x]]]

(* queue_enqueue(p): p becomes the only element, or goes behind the tail.  *)
(* p's next is cleared first: if p already is the tail, it ends up linked  *)
(* to itself, as in the code.                                              *)
Enqueue(q, p) ==
  IF q.tail = NULL
  THEN [q EXCEPT !.head = p, !.tail = p,
                 !.next = [@ EXCEPT ![p] = NULL],
                 !.prev = [@ EXCEPT ![p] = NULL]]
  ELSE [q EXCEPT !.tail = p,
                 !.next = [@ EXCEPT ![p] = NULL, ![q.tail] = p],
                 !.prev = [@ EXCEPT ![p] = q.tail]]

(* queue_dequeue(): the queue without its head.  The element returned is   *)
(* q.head; on an empty queue that is NULL and nothing changes.             *)
Dequeue(q) ==
  IF q.head = NULL THEN q
  ELSE LET first == q.next[q.head]
       IN  [q EXCEPT
              !.head = first,
              !.tail = IF first = NULL THEN NULL ELSE @,
              !.next = [@ EXCEPT ![q.head] = NULL],
              !.prev = [x \in Procs |->
                          IF x \in {q.head, first} THEN NULL ELSE @[x]]]

(* Slip: the tail pointer stays on the removed PCB. *)
UnlinkKeepTail(q, p) ==
  LET before == q.prev[p]
      after  == q.next[p]
  IN  [q EXCEPT
         !.next = IF before = NULL THEN @ ELSE [@ EXCEPT ![before] = after],
         !.prev = IF after = NULL THEN @ ELSE [@ EXCEPT ![after] = before],
         !.head = IF @ = p THEN after ELSE @]

(* The pointer surgery of process_kill(p): p's neighbours are joined and   *)
(* head and tail moved off p.  p's own fields keep their old values.       *)
Unlink(q, p) ==
  LET before == q.prev[p]
      after  == q.next[p]
  IN  [q EXCEPT
         !.next = IF before = NULL THEN @ ELSE [@ EXCEPT ![before] = after],
         !.prev = IF after = NULL THEN @ ELSE [@ EXCEPT ![after] = before],
         !.head = IF @ = p THEN after ELSE @,
         !.tail = IF @ = p THEN before ELSE @]

-------------------------------------------------------------------------------

(* No PCB occurs twice in s. *)
NoRepeats(s) == \A i, j \in DOMAIN s : s[i] = s[j] => i = j

(* The pointers of q hold exactly the sequence s, forwards and backwards. *)
Represents(q, s) ==
  /\ NoRepeats(s)
  /\ q.head = IF s = <<>> THEN NULL ELSE s[1]
  /\ q.tail = IF s = <<>> THEN NULL ELSE s[Len(s)]
  /\ \A i \in DOMAIN s :
       /\ q.next[s[i]] = IF i = Len(s) THEN NULL ELSE s[i + 1]
       /\ q.prev[s[i]] = IF i = 1 THEN NULL ELSE s[i - 1]
===============================================================================
