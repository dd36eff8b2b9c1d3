------------------------------- MODULE Scheduler -------------------------------
(***************************************************************************)
(* The process scheduler of kernel/proc/process.c with the two assembly    *)
(* routines that move the CPU from one process to another: irq_common_stub *)
(* (isr.asm), which resumes whatever stack preempt_handler returns, and    *)
(* context_switch_asm, which do_schedule and scheduler_start call.         *)
(*                                                                         *)
(* Granularity.  preempt_handler runs through an interrupt gate, so it is  *)
(* one step.  process_create, process_kill and do_schedule are one step    *)
(* each: this module is about callers that cannot be preempted inside the  *)
(* call - kernel_main before scheduler_start (the handler does nothing     *)
(* while current_process is NULL), or a process between disable_interrupts *)
(* and enable_interrupts.                                                  *)
(*                                                                         *)
(* Not kept: name, parent_pid, priority, wake_time, page_table, the        *)
(* total_ticks counters and need_reschedule, none of which is read by any  *)
(* decision of the scheduler.                                              *)
(***************************************************************************)
EXTENDS ReadyQueue, FiniteSets

CONSTANTS
  Boot,              (* the boot stack, on which kernel_main runs          *)
  Lost,              (* the CPU executes a stack it cannot interpret       *)
  MAX_PROCESSES,
  TIME_SLICE_TICKS,
  SliceMod,          (* time_slice_remaining is a uint32_t: 2^32           *)
  MaxPid,            (* bound: pids handed out stay below it               *)
  KillCurrent,       (* do callers pass current_process to process_kill?   *)
  CallSchedulerTick  (* does anybody call scheduler_tick?                  *)

ASSUME ConstAssumption ==
  /\ Boot \notin Pointer /\ Lost \notin Pointer /\ Boot # Lost
  /\ MAX_PROCESSES \in Nat
  /\ TIME_SLICE_TICKS \in Nat /\ TIME_SLICE_TICKS > 1
  /\ SliceMod \in Nat /\ SliceMod > TIME_SLICE_TICKS
  /\ MaxPid \in Nat \ {0}
  /\ KillCurrent \in BOOLEAN /\ CallSchedulerTick \in BOOLEAN

(* An operator whose comment begins with Slip is not used by any action:   *)
(* it is what a plausible mistake in the code would make of the operator   *)
(* after it, and the README says which property notices.                   *)

VARIABLES
  q,              (* the ready queue: head, tail and the PCBs' links       *)
  current,        (* scheduler.current_process                             *)
  next_pid,       (* scheduler.next_pid                                    *)
  process_count,  (* scheduler.process_count                               *)
  live,           (* the PCBs created and not killed                       *)
  pid,            (* proc->pid                                             *)
  state,          (* proc->state                                           *)
  slice,          (* proc->time_slice_remaining                            *)
  context,        (* what proc->registers and the saved stack will resume  *)
  cpu,            (* whose stack the CPU is executing on                   *)
  order           (* history: the queued PCBs, oldest first; no guard      *)
                  (* reads it                                              *)

vars == <<q, current, next_pid, process_count, live, pid, state, slice,
          context, cpu, order>>

pcbVars == <<pid, state, slice, context>>

(* "NONE" is the content of memory that never held a PCB; WAITING and      *)
(* SLEEPING are declared in process.h but nothing assigns them.            *)
States == {"NONE", "READY", "RUNNING", "TERMINATED"}

(* How a context was saved: "new" is the frame process_create builds,      *)
(* "irq" an interrupt frame that preempt_handler stored in registers.rsp,  *)
(* "call" the registers context_switch_asm stored, rip included.           *)
Context == [thread : Procs \union {Boot}, kind : {"new", "irq", "call"}]

(* irq_common_stub pops fifteen registers and irets: it needs a frame.     *)
ResumeFromIrq(c) == IF c.kind \in {"new", "irq"} THEN c.thread ELSE Lost

(* context_switch_asm loads the registers and jumps to the saved rip; for  *)
(* a PCB that the interrupt path saved, that rip is not where it was.      *)
(* (Where exactly it leaves the stack pointer: module ContextSwitch.)      *)
ResumeFromCall(c) == IF c.kind \in {"new", "call"} THEN c.thread ELSE Lost

--------------------------------------------------------------------------------

(* scheduler_init, on zeroed process memory. *)
Init ==
  /\ q = EmptyQueue
  /\ current = NULL
  /\ next_pid = 1
  /\ process_count = 0
  /\ live = {}
  /\ pid = [p \in Procs |-> 0]
  /\ state = [p \in Procs |-> "NONE"]
  /\ slice = [p \in Procs |-> 0]
  /\ context = [p \in Procs |-> [thread |-> p, kind |-> "new"]]
  /\ cpu = Boot
  /\ order = <<>>

(* The kernel's functions can be called: the CPU is on a good stack, and   *)
(* kernel_main is not inside scheduler_start or do_schedule.               *)
Callable == cpu # Lost /\ (cpu = Boot => current = NULL)

(* Slip: the limit is off by one. *)
RoomOffByOne == process_count <= MAX_PROCESSES

(* The limit: process_create gives up unless there is room for one more.   *)
Room == process_count < MAX_PROCESSES

(* Slip: the pid is derived from the number of processes. *)
CountAsPid == process_count + 1

(* The pid of the next process. *)
FreshPid == next_pid

(* Slip: the quantum is not refilled. *)
KeepOldSlice(s, p) == s

(* A full quantum for p. *)
Refill(s, p) == [s EXCEPT ![p] = TIME_SLICE_TICKS]

(* The CPU's stack and registers go into the PCB p. *)
Save(p, kind) == [context EXCEPT ![p] = [thread |-> cpu, kind |-> kind]]

(* The part of process_create up to the stack allocations: the limit, a    *)
(* PCB from kmalloc, a pid, and the fields.                                *)
NewPcb(p) ==
  /\ Callable
  /\ Room
  /\ p \notin live
  /\ next_pid < MaxPid
  /\ pid' = [pid EXCEPT ![p] = FreshPid]
  /\ next_pid' = next_pid + 1
  /\ state' = [state EXCEPT ![p] = "READY"]
  /\ slice' = Refill(slice, p)

(* process_create, when every allocation succeeds.  The limit reached or   *)
(* no PCB: it returns NULL and changes nothing.                            *)
process_create(p) ==
  /\ NewPcb(p)
  /\ context' = [context EXCEPT ![p] = [thread |-> p, kind |-> "new"]]
  /\ q' = Enqueue(q, p)
  /\ order' = Append(order, p)
  /\ live' = live \union {p}
  /\ process_count' = process_count + 1
  /\ UNCHANGED <<current, cpu>>

(* Slip: the process is counted before its stacks exist. *)
process_create_counts_early(p) ==
  /\ NewPcb(p)
  /\ process_count' = process_count + 1
  /\ UNCHANGED <<q, current, live, context, cpu, order>>

(* process_create, when one of the two stacks cannot be allocated: what    *)
(* was allocated is freed, the pid is not given back.                      *)
process_create_no_stack(p) ==
  /\ NewPcb(p)
  /\ UNCHANGED <<q, current, process_count, live, context, cpu, order>>

(* process_kill(p). *)
process_kill(p) ==
  /\ Callable
  /\ p \in live
  /\ p = current => KillCurrent
  /\ state' = [state EXCEPT ![p] = "TERMINATED"]
  /\ q' = Unlink(q, p)
  /\ order' = RemoveFirst(order, p)
  /\ live' = live \ {p}
  /\ process_count' = process_count - 1
  /\ UNCHANGED <<current, next_pid, pid, slice, context, cpu>>

(* scheduler_start, up to its call of context_switch_asm.  With an empty   *)
(* queue it returns.                                                       *)
scheduler_start ==
  /\ cpu = Boot /\ current = NULL
  /\ q.head # NULL
  /\ q' = Dequeue(q)
  /\ order' = Tail(order)
  /\ current' = q.head
  /\ state' = [state EXCEPT ![q.head] = "RUNNING"]
  /\ UNCHANGED <<next_pid, process_count, live, pid, slice, context, cpu>>

(* context_switch_asm(NULL, current), in scheduler_start or do_schedule:   *)
(* the boot stack is left for good, nothing is saved.                      *)
FirstSwitch ==
  /\ cpu = Boot /\ current # NULL
  /\ cpu' = ResumeFromCall(context[current])
  /\ UNCHANGED <<q, current, next_pid, process_count, live, pcbVars, order>>

(* The timer can interrupt scheduler_start or do_schedule on the boot      *)
(* stack between the last assignment and the loading of the new stack.  Those few instructions take far less     *)
(* than a 10 ms period: one tick at most, hence a fresh slice.             *)
TickPossible ==
  /\ current # NULL
  /\ cpu # Lost
  /\ cpu = Boot => slice[current] = TIME_SLICE_TICKS

(* Slip: every tick starts from a full quantum. *)
SliceRestarted == TIME_SLICE_TICKS - 1

(* What one tick leaves of the current process's quantum. *)
SliceAfterTick == (slice[current] - 1) % SliceMod

(* The current process, saved as kind says, goes to the tail and the head  *)
(* runs with a full quantum.  The head is never NULL: the queue has just   *)
(* been given an element.                                                  *)
RotateTo(next, kind) ==
  /\ next = Enqueue(q, current).head
  /\ q' = Dequeue(Enqueue(q, current))
  /\ order' = Tail(Append(order, current))
  /\ current' = next
  /\ state' = [state EXCEPT ![current] = "READY", ![next] = "RUNNING"]
  /\ context' = Save(current, kind)
  /\ UNCHANGED <<next_pid, process_count, live, pid>>

(* preempt_handler without a current process: back to the same stack. *)
IdleTick == cpu = Boot /\ current = NULL /\ UNCHANGED vars

(* preempt_handler inside the quantum: back to the same stack. *)
TickInSlice ==
  /\ TickPossible
  /\ SliceAfterTick # 0
  /\ slice' = [slice EXCEPT ![current] = SliceAfterTick]
  /\ UNCHANGED <<q, current, next_pid, process_count, live, pid, state,
                 context, cpu, order>>

(* preempt_handler at the end of the quantum: irq_common_stub continues on *)
(* the stack of the process at the head of the queue.                      *)
TickSwitch ==
  /\ TickPossible
  /\ SliceAfterTick = 0
  /\ \E next \in Procs :
       /\ RotateTo(next, "irq")
       /\ slice' = Refill([slice EXCEPT ![current] = 0], next)
       /\ cpu' = ResumeFromIrq(context'[next])

preempt_handler == IdleTick \/ TickInSlice \/ TickSwitch

(* scheduler_tick. *)
scheduler_tick ==
  /\ CallSchedulerTick
  /\ Callable
  /\ current # NULL
  /\ slice' = [slice EXCEPT ![current] = SliceAfterTick]
  /\ UNCHANGED <<q, current, next_pid, process_count, live, pid, state,
                 context, cpu, order>>

(* Slip: do_schedule gives the CPU up whatever is left of the quantum. *)
YieldAlways == Callable /\ current # NULL

(* do_schedule, called by the current process, when scheduler_pick_next    *)
(* does not keep it: it is not running any more or its quantum is used up. *)
(* Otherwise do_schedule returns at once and changes nothing.              *)
MustYield ==
  /\ Callable
  /\ current # NULL
  /\ state[current] # "RUNNING" \/ slice[current] = 0

(* Nobody else is ready: the process is picked again, no context switch. *)
YieldAlone ==
  /\ MustYield
  /\ Enqueue(q, current).head = current
  /\ q' = Dequeue(Enqueue(q, current))
  /\ order' = Tail(Append(order, current))
  /\ state' = [state EXCEPT ![current] = "RUNNING"]
  /\ slice' = Refill(slice, current)
  /\ UNCHANGED <<current, next_pid, process_count, live, pid, context, cpu>>

(* Another process is picked: context_switch_asm(current, next). *)
YieldSwitch ==
  /\ MustYield
  /\ \E next \in Procs \ {current} :
       /\ RotateTo(next, "call")
       /\ slice' = Refill(slice, next)
       /\ cpu' = ResumeFromCall(context'[next])

(* There is no current process yet: the head of the queue is picked with   *)
(* a full quantum, and context_switch_asm(NULL, next) leaves the boot      *)
(* stack: FirstSwitch.  With an empty queue do_schedule returns.           *)
PickFirst ==
  /\ cpu = Boot /\ current = NULL
  /\ q.head # NULL
  /\ q' = Dequeue(q)
  /\ order' = Tail(order)
  /\ current' = q.head
  /\ state' = [state EXCEPT ![q.head] = "RUNNING"]
  /\ slice' = Refill(slice, q.head)
  /\ UNCHANGED <<next_pid, process_count, live, pid, context, cpu>>

do_schedule == YieldAlone \/ YieldSwitch \/ PickFirst

Next ==
  \/ \E p \in Procs :
       process_create(p) \/ process_create_no_stack(p) \/ process_kill(p)
  \/ scheduler_start
  \/ FirstSwitch
  \/ preempt_handler
  \/ scheduler_tick
  \/ do_schedule

(* The PIT runs for ever and every process runs with RFLAGS.IF = 1, so     *)
(* ticks keep coming; the CPU does not stop inside scheduler_start.        *)
Fairness == WF_vars(preempt_handler) /\ WF_vars(FirstSwitch)

SafeSpec == Init /\ [][Next]_vars

Spec == SafeSpec /\ Fairness

--------------------------------------------------------------------------------

(* Type invariant. *)
TypeOK ==
  /\ q \in Queue
  /\ current \in Pointer
  /\ next_pid \in 1..MaxPid
  /\ process_count \in 0..MAX_PROCESSES
  /\ live \subseteq Procs
  /\ pid \in [Procs -> 0..MaxPid]
  /\ state \in [Procs -> States]
  /\ slice \in [Procs -> 0..(SliceMod - 1)]
  /\ context \in [Procs -> Context]
  /\ cpu \in Procs \union {Boot, Lost}
  /\ order \in Seq(Procs)

(* queue_enqueue, queue_dequeue and the unlinking in process_kill keep     *)
(* head, tail, next and prev consistent: followed in either direction they *)
(* give the queued PCBs in the order in which they were enqueued.          *)
QueueFaithful == Represents(q, order)

(* Between two calls no process is lost and none is in two places: every   *)
(* PCB that was created and not killed is the current one (RUNNING) or     *)
(* waits in the queue (READY), nothing else is in the queue, and           *)
(* process_count, which guards MAX_PROCESSES, counts exactly these PCBs.   *)
NoLostProcess ==
  /\ current = NULL \/ current \in live
  /\ ToSet(order) = live \ {current}
  /\ \A p \in live : state[p] = IF p = current THEN "RUNNING" ELSE "READY"
  /\ process_count = Cardinality(live)

(* Two processes alive at the same time have different pids, and none has  *)
(* pid 0, which scheduler_init reserves: also after creations that failed  *)
(* half-way and after kills.                                               *)
PidsUnique ==
  /\ \A p \in live : pid[p] \in 1..(next_pid - 1)
  /\ \A p, r \in live : pid[p] = pid[r] => p = r

(* The unsigned quantum never is 0 while its process runs, so the          *)
(* decrement in preempt_handler cannot wrap to 2^32 - 1 and hand the CPU   *)
(* to one process for more than a year.                                    *)
NoQuantumUnderflow ==
  /\ current # NULL => slice[current] \in 1..TIME_SLICE_TICKS
  /\ \A p \in ToSet(order) : slice[p] \in 0..TIME_SLICE_TICKS

(* Control is never lost: the CPU is on the boot stack or on the stack of  *)
(* current_process, and whoever can be resumed next holds a context of its *)
(* own that the way of resuming it understands.  The timer can pick any    *)
(* queued process and needs a frame; scheduler_start and do_schedule can   *)
(* pick one only while no process runs yet, or when the running process    *)
(* must yield, and need a context that the timer did not save.  The two    *)
(* ways of saving are never mixed, because nobody calls scheduler_tick:    *)
(* do_schedule then never finds the quantum of its caller used up.         *)
ContextsMatch ==
  /\ cpu \in {Boot, current}
  /\ \A p \in ToSet(order) : ResumeFromIrq(context[p]) = p
  /\ current = NULL \/ MustYield =>
       \A p \in ToSet(order) : ResumeFromCall(context[p]) = p
  /\ cpu = Boot /\ current # NULL => ResumeFromCall(context[current]) = current

(* A killed process never runs again: process_kill takes it off the ready  *)
(* queue, so that the queue holds processes that still exist.              *)
ReadyQueueIsLive == ToSet(order) \subseteq live

(* Some resume routine always understands what it finds on the stack.      *)
ControlNotLost == cpu # Lost

(* do_schedule is the cooperative switch: a process that calls it while    *)
(* another one is ready gives the CPU up.                                  *)
YieldGivesCpuUp == (current # NULL /\ cpu = current /\ order # <<>>) => MustYield

(* The scheduler is a round robin: current_process and the queue behave    *)
(* like the line of module RoundRobin.  With its fairness: as long as      *)
(* ticks keep coming, the CPU keeps being passed on.                       *)
RR == INSTANCE RoundRobin WITH running <- current, ready <- order

Refines == RR!Spec

(* No process starves: once the scheduler is started, a ready process gets *)
(* the CPU unless it is killed before.                                     *)
EventuallyRuns ==
  \A p \in Procs :
    (p \in live /\ state[p] = "READY" /\ current # NULL)
      ~> (current = p \/ p \notin live)
================================================================================
