--------------------------- MODULE SchedulerPreempt ---------------------------
(***************************************************************************)
(* process_create and process_kill (kernel/proc/process.c) called by       *)
(* running processes with interrupts enabled, one shared-memory access per *)
(* step, against the timer interrupt, which rotates the ready queue        *)
(* whenever a quantum ends: between any two of those accesses.  Module     *)
(* Scheduler has the same operations as single steps.                      *)
(*                                                                         *)
(* The code protects none of these accesses.  Two history variables record *)
(* what has gone wrong so far, so that the properties can say that nothing *)
(* else is ever needed for the harm: torn and overlapped.  No guard reads  *)
(* them.                                                                   *)
(*                                                                         *)
(* Kept: the accesses to the ready queue, next_pid and process_count, in   *)
(* the order of the statements, with the tail and the pid held in a        *)
(* register while they are used, as an -O2 build does.  Not kept: quanta   *)
(* (a quantum may end anywhere), saved contexts, the failure paths and the *)
(* heap's own races.                                                       *)
(***************************************************************************)
EXTENDS ReadyQueue, FiniteSets

CONSTANTS
  Started,        (* the processes at the start: the current one, then the *)
                  (* queue                                                 *)
  Creators,       (* the processes that call process_create                *)
  Killers,        (* the processes that call process_kill                  *)
  MAX_PROCESSES,
  MaxPid          (* bound: pids handed out stay below it                  *)

Labels == {"run", "pid", "nextpid", "enqueue", "link", "tail", "prev", "count",
           "unlink", "relink", "head", "killtail", "free"}

ASSUME PreemptAssumption ==
  /\ Started \in Seq(Procs) /\ Started # <<>> /\ NoRepeats(Started)
  /\ Creators \subseteq Procs /\ Killers \subseteq Procs
  /\ MAX_PROCESSES \in Nat /\ MaxPid \in Nat

(* An operator whose comment begins with Slip is what a plausible mistake  *)
(* in the code would make of the operator after it; no action uses it.     *)

VARIABLES
  q, current, next_pid, process_count,  (* scheduler_t and the PCB links   *)
  pid,        (* proc->pid                                                 *)
  live,       (* PCBs counted by process_create and not TERMINATED         *)
  pc,         (* where each process is in process_create or process_kill   *)
  arg,        (* the PCB it creates or kills                               *)
  reg,        (* the pid or the tail pointer it has read                   *)
  torn,       (* history: an update of the queue was cut short             *)
  overlapped  (* history: the PCBs whose creation read next_pid while      *)
              (* another creation was between reading and storing it       *)

history == <<torn, overlapped>>
vars == <<q, current, next_pid, process_count, pid, live, pc, arg, reg, history>>
shared == <<q, current, next_pid, process_count, pid, live>>

(* process_create has enqueued all of them but the first. *)
Linked ==
  LET linked[n \in 0 .. (Len(Started) - 1)] ==
        IF n = 0 THEN EmptyQueue ELSE Enqueue(linked[n - 1], Started[n + 1])
  IN  linked[Len(Started) - 1]

Init ==
  /\ q = Linked
  /\ current = Head(Started)
  /\ next_pid = Len(Started) + 1
  /\ process_count = Len(Started)
  /\ pid = [p \in Procs |-> IF p \in ToSet(Started)
                            THEN CHOOSE i \in DOMAIN Started : Started[i] = p
                            ELSE 0]
  /\ live = ToSet(Started)
  /\ pc = [p \in Procs |-> "run"]
  /\ arg = [p \in Procs |-> NULL]
  /\ reg = [p \in Procs |-> NULL]
  /\ torn = FALSE
  /\ overlapped = {}

(* The PCBs that calls in progress are about. *)
InCall == {arg[r] : r \in {r \in Procs : pc[r] # "run"}}

(* Half-way through an update of the ready queue: from the first access of *)
(* queue_enqueue to process_count++, and from the first of the four        *)
(* unlinking statements to the last.                                       *)
Updating == {"link", "tail", "prev", "count", "relink", "head", "killtail"}

(* Inside process_kill. *)
Killing == {"unlink", "relink", "head", "killtail", "free"}

(* The creations that have read next_pid and not yet stored it. *)
BetweenPids == {r \in Procs : pc[r] = "nextpid"}

(* The current process goes from one label to the next. *)
Step(from, to) ==
  /\ pc[current] = from
  /\ pc' = [pc EXCEPT ![current] = to]

-------------------------------------------------------------------------------

(* process_create: the limit is checked and kmalloc returns a PCB nobody   *)
(* uses.                                                                   *)
CreateBegin ==
  /\ current \in Creators
  /\ process_count < MAX_PROCESSES
  /\ next_pid + Cardinality(Creators) <= MaxPid
  /\ pc[current] = "run"
  /\ \E p \in Procs \ (live \union InCall \union {current}) :
       /\ arg' = [arg EXCEPT ![current] = p]
       /\ pc' = [pc EXCEPT ![current] = "pid", ![p] = "run"]
  /\ UNCHANGED <<shared, reg, history>>

(* proc->pid = scheduler.next_pid++: a load and a store. *)
CreateLoadPid ==
  /\ Step("pid", "nextpid")
  /\ reg' = [reg EXCEPT ![current] = next_pid]
  /\ overlapped' = IF BetweenPids = {} THEN overlapped \ {arg[current]}
                   ELSE overlapped \union {arg[r] : r \in BetweenPids \union {current}}
  /\ UNCHANGED <<shared, arg, torn>>

(* Slip: the next pid is taken from the number of processes. *)
CreateStoreCount ==
  /\ Step("nextpid", "enqueue")
  /\ next_pid' = process_count + 1
  /\ pid' = [pid EXCEPT ![arg[current]] = reg[current]]
  /\ UNCHANGED <<q, current, process_count, live, arg, reg, history>>

CreateStorePid ==
  /\ Step("nextpid", "enqueue")
  /\ next_pid' = reg[current] + 1
  /\ pid' = [pid EXCEPT ![arg[current]] = reg[current]]
  /\ UNCHANGED <<q, current, process_count, live, arg, reg, history>>

(* queue_enqueue: proc->next is cleared and the tail is read. *)
CreateLoadTail ==
  /\ Step("enqueue", "link")
  /\ q' = [q EXCEPT !.next[arg[current]] = NULL]
  /\ reg' = [reg EXCEPT ![current] = q.tail]
  /\ UNCHANGED <<current, next_pid, process_count, pid, live, arg, history>>

(* queue_enqueue: into an empty queue the new PCB goes as the head,        *)
(* otherwise behind the tail that was read.                                *)
CreateLink ==
  /\ Step("link", "tail")
  /\ q' = IF reg[current] = NULL
          THEN [q EXCEPT !.head = arg[current]]
          ELSE [q EXCEPT !.prev[arg[current]] = reg[current],
                         !.next[reg[current]] = arg[current]]
  /\ UNCHANGED <<current, next_pid, process_count, pid, live, arg, reg, history>>

(* queue_enqueue: the new PCB becomes the tail. *)
CreateSetTail ==
  /\ Step("tail", "prev")
  /\ q' = [q EXCEPT !.tail = arg[current]]
  /\ UNCHANGED <<current, next_pid, process_count, pid, live, arg, reg, history>>

(* queue_enqueue: into an empty queue, proc->prev is cleared last. *)
CreateClearPrev ==
  /\ Step("prev", "count")
  /\ q' = IF reg[current] = NULL THEN [q EXCEPT !.prev[arg[current]] = NULL] ELSE q
  /\ UNCHANGED <<current, next_pid, process_count, pid, live, arg, reg, history>>

(* process_count++ is one instruction; process_create returns. *)
CreateCount ==
  /\ Step("count", "run")
  /\ process_count' = process_count + 1
  /\ live' = live \union {arg[current]}
  /\ UNCHANGED <<q, current, next_pid, pid, arg, reg, history>>

process_create ==
  \/ CreateBegin \/ CreateLoadPid \/ CreateStorePid
  \/ CreateLoadTail \/ CreateLink \/ CreateSetTail \/ CreateClearPrev
  \/ CreateCount

-------------------------------------------------------------------------------

(* process_kill of another process that nobody else is killing: it is      *)
(* TERMINATED at once.  Whoever is killed inside process_kill, or calls it *)
(* while being killed, may never finish unlinking its own victim.          *)
KillBegin ==
  /\ current \in Killers
  /\ Step("run", "unlink")
  /\ \E v \in live \ {current} :
       /\ arg' = [arg EXCEPT ![current] = v]
       /\ live' = live \ {v}
       /\ torn' = (torn \/ pc[v] \in Killing \/ current \notin live)
  /\ UNCHANGED <<q, current, next_pid, process_count, pid, reg, overlapped>>

Victim == arg[current]

(* The four statements that unlink the victim. *)

KillPrevNext ==
  /\ Step("unlink", "relink")
  /\ q' = IF q.prev[Victim] = NULL THEN q
          ELSE [q EXCEPT !.next[q.prev[Victim]] = q.next[Victim]]
  /\ UNCHANGED <<current, next_pid, process_count, pid, live, arg, reg, history>>

(* Slip: the neighbour behind the victim still points back to it. *)
KillNextPrevForgotten ==
  /\ Step("relink", "head")
  /\ UNCHANGED <<shared, arg, reg, history>>

KillNextPrev ==
  /\ Step("relink", "head")
  /\ q' = IF q.next[Victim] = NULL THEN q
          ELSE [q EXCEPT !.prev[q.next[Victim]] = q.prev[Victim]]
  /\ UNCHANGED <<current, next_pid, process_count, pid, live, arg, reg, history>>

KillHead ==
  /\ Step("head", "killtail")
  /\ q' = IF q.head = Victim THEN [q EXCEPT !.head = q.next[Victim]] ELSE q
  /\ UNCHANGED <<current, next_pid, process_count, pid, live, arg, reg, history>>

(* Slip: the tail pointer stays on the victim. *)
KillTailForgotten ==
  /\ Step("killtail", "free")
  /\ UNCHANGED <<shared, arg, reg, history>>

KillTail ==
  /\ Step("killtail", "free")
  /\ q' = IF q.tail = Victim THEN [q EXCEPT !.tail = q.prev[Victim]] ELSE q
  /\ UNCHANGED <<current, next_pid, process_count, pid, live, arg, reg, history>>

(* The PCB is freed and process_count decremented. *)
KillFree ==
  /\ Step("free", "run")
  /\ process_count' = process_count - 1
  /\ UNCHANGED <<q, current, next_pid, pid, live, arg, reg, history>>

process_kill ==
  \/ KillBegin \/ KillPrevNext \/ KillNextPrev
  \/ KillHead \/ KillTail \/ KillFree

-------------------------------------------------------------------------------

(* preempt_handler at the end of a quantum: the current process goes to    *)
(* the tail, and the head runs, unless the queue says there is none.       *)
preempt_handler ==
  LET e == Enqueue(q, current)
  IN  /\ q' = Dequeue(e)
      /\ current' = IF e.head = NULL THEN current ELSE e.head
      /\ torn' = (torn \/ pc[current] \in Updating)
      /\ UNCHANGED <<next_pid, process_count, pid, live, pc, arg, reg, overlapped>>

Next == process_create \/ process_kill \/ preempt_handler

Spec == Init /\ [][Next]_vars

-------------------------------------------------------------------------------

TypeOK ==
  /\ q \in Queue /\ current \in Procs /\ live \subseteq Procs
  /\ next_pid \in 1..MaxPid /\ process_count \in 0..Cardinality(Procs)
  /\ pid \in [Procs -> 0..MaxPid]
  /\ pc \in [Procs -> Labels] /\ arg \in [Procs -> Pointer]
  /\ reg \in [Procs -> Pointer \union 1..MaxPid]
  /\ torn \in BOOLEAN /\ overlapped \subseteq Procs

(* The PCBs met by following the next pointers from the head: the least    *)
(* set that has the head and the successors of its members.                *)
Walk == {p \in Procs :
           \A met \in SUBSET Procs :
             {q.head} \union {q.next[r] : r \in met} \subseteq met \union {NULL}
               => p \in met}

(* Whatever is interrupted where, every process stays known to the         *)
(* scheduler: it runs, or the queue leads to it.  In particular a process  *)
(* preempted inside process_create or process_kill (the timer handler puts *)
(* it at the tail of a list it was just changing) gets the CPU again.      *)
NobodyStranded == \A p \in live : p = current \/ p \in Walk

(* When process_create and process_kill calls have all returned, whatever  *)
(* their interleaving, the queue is a consistent list of exactly the       *)
(* processes that wait, and process_count their number plus one.           *)
QueueRestored ==
  (\A p \in live : pc[p] = "run") =>
    /\ \E s \in SetToSeqs(live \ {current}) : Represents(q, s)
    /\ process_count = Cardinality(live)

(* Two processes never have the same pid (process.h: "Next available PID"). *)
PidsUnique == \A p, r \in live : pid[p] = pid[r] => p = r

(* Nobody is stranded, except by a quantum that ends half-way through an   *)
(* update of the queue, or by a kill of a killer: with interrupts enabled, *)
(* wherever else a process is preempted in process_create or process_kill, *)
(* the queue leads to everybody, also half-way through an update.          *)
StrandedOnlyIfTorn == torn \/ NobodyStranded

(* Nor does anything but these leave the queue, or process_count, wrong    *)
(* once the calls have returned.                                           *)
RestoredUnlessTorn == torn \/ QueueRestored

(* Two processes share a pid only if one of them was created while another *)
(* creation was between reading and storing next_pid: whatever else is     *)
(* interrupted or torn, whoever is killed half-way through a creation, and *)
(* however far back a late store moves next_pid.                           *)
PidsRepeatOnlyIfOverlapped ==
  \A p, r \in live \ overlapped : pid[p] = pid[r] => p = r

(* MAX_PROCESSES is never exceeded, although process_create checks it long *)
(* before it counts the process.                                           *)
WithinLimit == process_count <= MAX_PROCESSES
===============================================================================
