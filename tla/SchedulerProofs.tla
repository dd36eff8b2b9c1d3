---------------------------- MODULE SchedulerProofs ----------------------------
(***************************************************************************)
(* Theorems about Scheduler, for any number of PCB addresses, any quantum  *)
(* and any limit of processes, when no process kills itself.               *)
(***************************************************************************)
EXTENDS Scheduler, ReadyQueueProofs, FiniteSetTheorems

(* The first inductive invariant.  It does not need CallSchedulerTick to   *)
(* be FALSE: whatever happens to the quanta, no process is lost.           *)
QueueInv ==
  /\ TypeOK
  /\ QueueFaithful
  /\ NoLostProcess
  /\ IsFiniteSet(live)

USE DEF States

(* scheduler_init establishes it. *)
LEMMA QueueInvInit == Init => QueueInv
  <1> SUFFICES ASSUME Init PROVE QueueInv
    OBVIOUS
  <1>1. TypeOK
    <2>1. order \in Seq(Procs)
      BY DEF Init
    <2> QED BY <2>1, ConstAssumption
        DEF Init, TypeOK, EmptyQueue, Queue, Pointer, Context
  <1>2. QueueFaithful
    BY DEF Init, QueueFaithful, Represents, NoRepeats, EmptyQueue
  <1>3. IsFiniteSet(live) /\ Cardinality(live) = 0
    BY FS_EmptySet DEF Init
  <1>4. NoLostProcess
    BY <1>3 DEF Init, NoLostProcess, ToSet
  <1> QED BY <1>1, <1>2, <1>3, <1>4 DEF QueueInv

(* process_create and its early exit. *)
LEMMA CreateQueueInv ==
  ASSUME QueueInv, NEW p \in Procs,
         process_create(p) \/ process_create_no_stack(p)
  PROVE  QueueInv'
  <1> USE DEF QueueInv
  <1>1. /\ p \notin live /\ p # current /\ p # NULL
        /\ process_count \in Nat /\ process_count < MAX_PROCESSES
        /\ p \notin ToSet(order)
    BY ConstAssumption, NullAssumption
       DEF process_create, process_create_no_stack, NewPcb, Room, TypeOK, NoLostProcess
  <1>2. /\ next_pid' \in 1..MaxPid
        /\ pid' \in [Procs -> 0..MaxPid]
        /\ state' = [state EXCEPT ![p] = "READY"]
        /\ state' \in [Procs -> States]
        /\ slice' \in [Procs -> 0..(SliceMod - 1)]
    <2>1. NewPcb(p)
      BY DEF process_create, process_create_no_stack
    <2>2. /\ next_pid \in 1..MaxPid /\ next_pid < MaxPid /\ MaxPid \in Nat
          /\ next_pid' = next_pid + 1
          /\ pid' = [pid EXCEPT ![p] = next_pid]
          /\ state' = [state EXCEPT ![p] = "READY"]
          /\ slice' = [slice EXCEPT ![p] = TIME_SLICE_TICKS]
      BY <2>1, ConstAssumption DEF NewPcb, FreshPid, Refill, TypeOK
    <2>3. next_pid' \in 1..MaxPid /\ next_pid \in 0..MaxPid
      BY <2>2
    <2>4. TIME_SLICE_TICKS \in 0..(SliceMod - 1)
      BY ConstAssumption
    <2> QED BY <2>2, <2>3, <2>4 DEF TypeOK
  <1>3. CASE process_create(p)
    <2>1. q' \in Queue /\ Represents(q', order') /\ order' \in Seq(Procs)
      BY <1>1, <1>3, EnqueueAppends DEF process_create, TypeOK, QueueFaithful
    <2>2. ToSet(order') = ToSet(order) \union {p}
      BY <1>3, AppendElements DEF process_create, TypeOK
    <2>3. /\ IsFiniteSet(live') /\ Cardinality(live') = Cardinality(live) + 1
      BY <1>1, <1>3, FS_AddElement DEF process_create
    <2>4. TypeOK'
      BY <1>1, <1>2, <1>3, <2>1, ConstAssumption DEF process_create, TypeOK, Context
    <2>5. NoLostProcess'
      BY <1>1, <1>2, <1>3, <2>2, <2>3 DEF process_create, NoLostProcess, TypeOK
    <2> QED BY <2>1, <2>3, <2>4, <2>5 DEF QueueFaithful
  <1>4. CASE process_create_no_stack(p)
    <2>1. TypeOK'
      BY <1>2, <1>4 DEF process_create_no_stack, TypeOK
    <2>2. NoLostProcess'
      BY <1>1, <1>2, <1>4 DEF process_create_no_stack, NoLostProcess, TypeOK
    <2> QED BY <1>4, <2>1, <2>2 DEF process_create_no_stack, QueueFaithful
  <1> QED BY <1>3, <1>4

(* process_kill of another process. *)
LEMMA KillQueueInv ==
  ASSUME QueueInv, ~KillCurrent, NEW p \in Procs, process_kill(p)
  PROVE  QueueInv'
  <1> USE DEF QueueInv
  <1>1. p \in live /\ p # current /\ p \in ToSet(order)
    BY DEF process_kill, NoLostProcess
  <1>2. PICK k \in 1..Len(order) : order[k] = p
    BY <1>1, LenProperties DEF ToSet, TypeOK
  <1>3. order \in Seq(Procs) /\ NoRepeats(order)
    BY DEF TypeOK, QueueFaithful, Represents
  <1>4. order' = RemoveAt(order, k) /\ q' = Unlink(q, order[k])
    BY <1>2, <1>3, RemoveFirstIsRemoveAt DEF process_kill
  <1>5. q' \in Queue /\ Represents(q', order')
    BY <1>4, UnlinkRemoves DEF TypeOK, QueueFaithful
  <1>6. order' \in Seq(Procs) /\ ToSet(order') = ToSet(order) \ {p}
    BY <1>2, <1>3, <1>4, RemoveAtShape, RemoveAtElements
  <1>7. /\ IsFiniteSet(live') /\ Cardinality(live') = Cardinality(live) - 1
        /\ Cardinality(live) > 0
    <2>1. IsFiniteSet(live \ {p}) /\ Cardinality(live \ {p}) = Cardinality(live) - 1
      BY <1>1, FS_RemoveElement
    <2>2. Cardinality(live \ {p}) \in Nat /\ Cardinality(live) \in Nat
      BY <2>1, FS_CardinalityType
    <2> QED BY <2>1, <2>2 DEF process_kill
  <1>8. TypeOK'
    <2>1. process_count' \in 0..MAX_PROCESSES
      <3>1. process_count' = Cardinality(live) - 1 /\ process_count = Cardinality(live)
        BY DEF process_kill, NoLostProcess
      <3>2. process_count \in 0..MAX_PROCESSES
        BY DEF TypeOK
      <3> QED BY <3>1, <3>2, <1>7, ConstAssumption
    <2> QED BY <2>1, <1>5, <1>6 DEF process_kill, TypeOK
  <1>9. NoLostProcess'
    BY <1>1, <1>6, <1>7 DEF process_kill, TypeOK, NoLostProcess
  <1> QED BY <1>5, <1>7, <1>8, <1>9 DEF QueueFaithful

(* scheduler_start and the first do_schedule: the head of the queue        *)
(* becomes the current process.                                            *)
LEMMA StartQueueInv ==
  ASSUME QueueInv, scheduler_start \/ PickFirst
  PROVE  QueueInv' /\ current' = Head(order) /\ order # <<>> /\ order' = Tail(order)
  <1> USE DEF QueueInv
  <1>0. q' = Dequeue(q) /\ order' = Tail(order)
    BY DEF scheduler_start, PickFirst
  <1>1. order \in Seq(Procs) /\ order # <<>> /\ NoRepeats(order)
    BY DEF scheduler_start, PickFirst, TypeOK, QueueFaithful, Represents
  <1>2. /\ q' \in Queue /\ Represents(q', order')
        /\ q.head = Head(order) /\ q.head \in Procs
    BY <1>0, <1>1, DequeueTakesHead DEF TypeOK, QueueFaithful
  <1>3. order' \in Seq(Procs) /\ ToSet(order') = ToSet(order) \ {q.head}
    BY <1>1, <1>2, <1>0, TailElements, HeadTailProperties
  <1>4. q.head \in live /\ live' = live
    <2>1. Head(order) \in ToSet(order)
      BY <1>1, EmptySeq, LenProperties DEF ToSet
    <2> QED BY <2>1, <1>2 DEF NoLostProcess, scheduler_start, PickFirst
  <1>5. TypeOK'
    <2>1. TIME_SLICE_TICKS \in 0..(SliceMod - 1)
      BY ConstAssumption
    <2>2. slice' \in [Procs -> 0..(SliceMod - 1)]
      BY <2>1, <1>2 DEF scheduler_start, PickFirst, Refill, TypeOK
    <2> QED BY <1>2, <1>3, <2>2 DEF scheduler_start, PickFirst, TypeOK, Pointer
  <1>6. NoLostProcess'
    BY <1>2, <1>3, <1>4, NullAssumption DEF scheduler_start, PickFirst, NoLostProcess, TypeOK
  <1> QED BY <1>1, <1>2, <1>4, <1>5, <1>6 DEF QueueFaithful, scheduler_start, PickFirst

(* Whoever rotates the queue - preempt_handler or do_schedule. *)
LEMMA RotateFacts ==
  ASSUME QueueInv, current # NULL
  PROVE  LET e == Enqueue(q, current)
         IN  /\ current \in live /\ current \in Procs
             /\ e.head = Head(Append(order, current))
             /\ e.head \in live /\ e.head \in Procs
             /\ Dequeue(e) \in Queue
             /\ Tail(Append(order, current)) \in Seq(Procs)
             /\ Represents(Dequeue(e), Tail(Append(order, current)))
             /\ ToSet(Tail(Append(order, current))) = live \ {e.head}
  <1>1. /\ current \in Procs /\ current \in live /\ current \notin ToSet(order)
        /\ order \in Seq(Procs) /\ q \in Queue /\ Represents(q, order)
        /\ ToSet(order) \union {current} = live
    BY DEF QueueInv, TypeOK, Pointer, NoLostProcess, QueueFaithful
  <1> QED BY <1>1, RotationRotates

(* The end of a quantum and the cooperative switch. *)
LEMMA RotateQueueInv ==
  ASSUME QueueInv, NEW next \in Procs, NEW kind \in {"irq", "call"},
         current # NULL, cpu # Lost, RotateTo(next, kind),
         slice' \in [Procs -> 0..(SliceMod - 1)],
         cpu' \in Procs \union {Boot, Lost}
  PROVE  QueueInv' /\ current' = Head(Append(order, current))
  <1> USE DEF QueueInv
  <1>1. /\ current \in live /\ current \in Procs
        /\ next = Head(Append(order, current)) /\ next \in live
        /\ q' \in Queue /\ order' \in Seq(Procs) /\ Represents(q', order')
        /\ ToSet(order') = live \ {next}
    BY RotateFacts DEF RotateTo
  <1>2. TypeOK'
    BY <1>1 DEF RotateTo, Save, TypeOK, Pointer, Context
  <1>3. NoLostProcess'
    BY <1>1, NullAssumption DEF RotateTo, NoLostProcess, TypeOK
  <1> QED BY <1>1, <1>2, <1>3 DEF RotateTo, QueueFaithful

(* A saved context resumes a process, the boot stack, or nothing good. *)
LEMMA ResumeType ==
  ASSUME NEW c \in Context
  PROVE  /\ ResumeFromIrq(c) \in Procs \union {Boot, Lost}
         /\ ResumeFromCall(c) \in Procs \union {Boot, Lost}
  BY DEF ResumeFromIrq, ResumeFromCall, Context

(* Every step of the program preserves the invariant. *)
LEMMA QueueInvNext ==
  ASSUME QueueInv, ~KillCurrent, [Next]_vars
  PROVE  QueueInv'
  <1> USE DEF QueueInv
  <1> DEFINE Typed == /\ slice' \in [Procs -> 0..(SliceMod - 1)]
                      /\ cpu' \in Procs \union {Boot, Lost}
  <1>1. ASSUME NEW p \in Procs,
               process_create(p) \/ process_create_no_stack(p) \/ process_kill(p)
        PROVE  QueueInv'
    BY <1>1, CreateQueueInv, KillQueueInv
  <1>2. CASE scheduler_start \/ PickFirst
    BY <1>2, StartQueueInv
  <1>3. CASE FirstSwitch
    <2>1. context[current] \in Context
      BY <1>3 DEF FirstSwitch, TypeOK, Pointer
    <2>2. cpu' \in Procs \union {Boot, Lost}
      BY <1>3, <2>1, ResumeType DEF FirstSwitch
    <2> QED BY <1>3, <2>2 DEF FirstSwitch, pcbVars, TypeOK, NoLostProcess, QueueFaithful
  <1>4. SliceAfterTick \in 0..(SliceMod - 1) \/ current = NULL
    <2>1. current # NULL => slice[current] \in Int
      BY DEF TypeOK, Pointer
    <2> QED BY <2>1, ConstAssumption DEF SliceAfterTick
  <1>5. CASE TickInSlice \/ scheduler_tick
    <2>1. slice' \in [Procs -> 0..(SliceMod - 1)]
      BY <1>4, <1>5 DEF TickInSlice, scheduler_tick, TickPossible, TypeOK
    <2> QED BY <1>5, <2>1
        DEF TickInSlice, scheduler_tick, TypeOK, NoLostProcess, QueueFaithful
  <1>6. /\ TIME_SLICE_TICKS \in 0..(SliceMod - 1) /\ 0 \in 0..(SliceMod - 1)
    BY ConstAssumption
  <1>7. CASE TickSwitch
    <2>1. PICK next \in Procs :
             /\ RotateTo(next, "irq")
             /\ slice' = Refill([slice EXCEPT ![current] = 0], next)
             /\ cpu' = ResumeFromIrq(context'[next])
      BY <1>7 DEF TickSwitch
    <2>2. current # NULL /\ cpu # Lost
      BY <1>7 DEF TickSwitch, TickPossible
    <2>3. slice' \in [Procs -> 0..(SliceMod - 1)]
      BY <2>1, <1>6 DEF Refill, TypeOK
    <2>4. context'[next] \in Context
      BY <2>1, <2>2 DEF RotateTo, Save, TypeOK, Context
    <2> QED BY <2>1, <2>2, <2>3, <2>4, ResumeType, RotateQueueInv
  <1>8. CASE YieldSwitch
    <2>1. PICK next \in Procs \ {current} :
             /\ RotateTo(next, "call")
             /\ slice' = Refill(slice, next)
             /\ cpu' = ResumeFromCall(context'[next])
      BY <1>8 DEF YieldSwitch
    <2>2. current # NULL /\ cpu # Lost
      BY <1>8 DEF YieldSwitch, MustYield, Callable
    <2>3. slice' \in [Procs -> 0..(SliceMod - 1)]
      BY <2>1, <1>6 DEF Refill, TypeOK
    <2>4. context'[next] \in Context
      BY <2>1, <2>2 DEF RotateTo, Save, TypeOK, Context
    <2> QED BY <2>1, <2>2, <2>3, <2>4, ResumeType, RotateQueueInv
  <1>9. CASE YieldAlone
    <2>1. current # NULL
      BY <1>9 DEF YieldAlone, MustYield
    <2>2. /\ current \in live /\ current \in Procs
          /\ q' \in Queue /\ order' \in Seq(Procs) /\ Represents(q', order')
          /\ ToSet(order') = live \ {current}
      BY <1>9, <2>1, RotateFacts DEF YieldAlone
    <2>3. TypeOK'
      BY <1>6, <1>9, <2>2 DEF YieldAlone, Refill, TypeOK
    <2>4. NoLostProcess'
      BY <1>9, <2>2 DEF YieldAlone, NoLostProcess, TypeOK
    <2> QED BY <1>9, <2>2, <2>3, <2>4 DEF YieldAlone, QueueFaithful
  <1>10. CASE UNCHANGED vars
    BY <1>10 DEF vars, pcbVars, TypeOK, NoLostProcess, QueueFaithful
  <1>11. CASE IdleTick
    BY <1>10, <1>11 DEF IdleTick
  <1> QED BY <1>1, <1>2, <1>3, <1>5, <1>7, <1>8, <1>9, <1>10, <1>11
      DEF Next, preempt_handler, do_schedule

(* When no process kills itself, the invariant always holds. *)
THEOREM QueueInvHolds ==
  ASSUME ~KillCurrent
  PROVE  SafeSpec => []QueueInv
  BY QueueInvInit, QueueInvNext, PTL DEF SafeSpec

(* Every variable keeps its type. *)
THEOREM TypeCorrect ==
  ASSUME ~KillCurrent
  PROVE  SafeSpec => []TypeOK
  <1>1. QueueInv => TypeOK
    BY DEF QueueInv
  <1> QED BY <1>1, QueueInvHolds, PTL

(* The pointers of the ready queue always are one consistent FIFO list:    *)
(* no sequence of creations, kills, ticks and yields breaks the links.     *)
THEOREM QueueAlwaysFaithful ==
  ASSUME ~KillCurrent
  PROVE  SafeSpec => []QueueFaithful
  <1>1. QueueInv => QueueFaithful
    BY DEF QueueInv
  <1> QED BY <1>1, QueueInvHolds, PTL

(* No process is ever lost, duplicated or miscounted. *)
THEOREM NoProcessLost ==
  ASSUME ~KillCurrent
  PROVE  SafeSpec => []NoLostProcess
  <1>1. QueueInv => NoLostProcess
    BY DEF QueueInv
  <1> QED BY <1>1, QueueInvHolds, PTL

--------------------------------------------------------------------------------

(* Pids stay unique, although the pid of a creation that fails half-way is *)
(* not given back.                                                         *)
THEOREM PidsAlwaysUnique ==
  ASSUME ~KillCurrent
  PROVE  SafeSpec => []PidsUnique
  <1>1. Init => PidsUnique
    BY DEF Init, PidsUnique
  <1>2. ASSUME QueueInv, PidsUnique, [Next]_vars
        PROVE  PidsUnique'
    <2> USE DEF QueueInv
    <2>1. ASSUME NEW p \in Procs, process_create(p) \/ process_create_no_stack(p)
          PROVE  PidsUnique'
      <3>1. /\ p \notin live /\ live \subseteq Procs
            /\ live' \subseteq live \union {p}
            /\ pid' = [pid EXCEPT ![p] = next_pid]
            /\ next_pid' = next_pid + 1 /\ next_pid \in Nat /\ next_pid > 0
        BY <1>2, <2>1, ConstAssumption
           DEF process_create, process_create_no_stack, NewPcb, FreshPid, TypeOK
      <3>2. \A r \in live : pid'[r] = pid[r] /\ pid[r] \in 1..(next_pid - 1)
        BY <3>1, <1>2 DEF PidsUnique, TypeOK
      <3>3. pid'[p] = next_pid
        BY <3>1, <1>2 DEF TypeOK
      <3>4. \A r \in live' : pid'[r] \in 1..(next_pid' - 1)
        BY <3>1, <3>2, <3>3
      <3>5. \A r, t \in live' : pid'[r] = pid'[t] => r = t
        BY <3>1, <3>2, <3>3, <1>2 DEF PidsUnique
      <3> QED BY <3>4, <3>5 DEF PidsUnique
    <2>2. CASE live' \subseteq live /\ UNCHANGED <<pid, next_pid>>
      BY <2>2, <1>2 DEF PidsUnique
    <2> QED BY <2>1, <2>2, <1>2
        DEF Next, vars, pcbVars, process_kill, scheduler_start, FirstSwitch,
            preempt_handler, IdleTick, TickInSlice, TickSwitch, RotateTo,
            scheduler_tick, do_schedule, YieldAlone, YieldSwitch, PickFirst
  <1> QED BY <1>1, <1>2, QueueInvHolds, PTL DEF SafeSpec

--------------------------------------------------------------------------------

(* While kernel_main has not given the boot stack up, every process still  *)
(* has the frame process_create built, and before scheduler_start a full   *)
(* quantum too.                                                            *)
NothingSavedYet ==
  cpu = Boot =>
    \A p \in live : /\ context[p] = [thread |-> p, kind |-> "new"]
                    /\ current = NULL => slice[p] = TIME_SLICE_TICKS

(* Every queued PCB holds a frame of its own process.                      *)
Resumable ==
  /\ cpu \in {Boot, current}
  /\ \A p \in ToSet(order) :
       context[p].thread = p /\ context[p].kind \in {"new", "irq"}

(* The second inductive invariant, for a system in which nobody calls      *)
(* scheduler_tick: the quanta, the saved contexts and the CPU.             *)
SwitchInv == NoQuantumUnderflow /\ Resumable /\ NothingSavedYet

LEMMA SwitchInvInit == Init => SwitchInv
  BY ConstAssumption
  DEF Init, SwitchInv, NoQuantumUnderflow, Resumable, NothingSavedYet, ToSet, Pointer

(* A tick inside the quantum just subtracts one. *)
LEMMA TickArithmetic ==
  ASSUME QueueInv, NoQuantumUnderflow, current # NULL
  PROVE  /\ SliceAfterTick = slice[current] - 1
         /\ SliceAfterTick \in 0..TIME_SLICE_TICKS
  <1>1. slice[current] \in Int /\ 1 <= slice[current] /\ slice[current] <= TIME_SLICE_TICKS
    BY ConstAssumption DEF NoQuantumUnderflow
  <1>2. slice[current] - 1 \in 0..(SliceMod - 1) /\ slice[current] - 1 \in 0..TIME_SLICE_TICKS
    BY <1>1, ConstAssumption
  <1>3. \A m \in Nat, a \in Int : (0 <= a /\ a < m) => a % m = a
    OBVIOUS
  <1>4. (slice[current] - 1) % SliceMod = slice[current] - 1
    BY <1>1, <1>2, <1>3, ConstAssumption
  <1> QED BY <1>2, <1>4 DEF SliceAfterTick

(* Under the invariants a yield never switches: do_schedule changes        *)
(* nothing unless scheduler_tick has used the quantum up.                  *)
LEMMA YieldDoesNothing ==
  ASSUME QueueInv, SwitchInv
  PROVE  ~MustYield
  <1>1. current # NULL => state[current] = "RUNNING"
    BY DEF QueueInv, NoLostProcess
  <1>2. current # NULL => slice[current] # 0
    BY ConstAssumption DEF SwitchInv, NoQuantumUnderflow
  <1> QED BY <1>1, <1>2 DEF MustYield

LEMMA SwitchInvNext ==
  ASSUME QueueInv, SwitchInv, ~KillCurrent, ~CallSchedulerTick, [Next]_vars
  PROVE  SwitchInv'
  <1> USE DEF QueueInv, SwitchInv
  <1>0. QueueInv'
    BY QueueInvNext
  <1>1. /\ ToSet(order) = live \ {current} /\ live \subseteq Procs
        /\ current = NULL \/ (current \in live /\ current \in Procs)
        /\ ToSet(order') = live' \ {current'}
    BY <1>0 DEF TypeOK, NoLostProcess
  <1>2. /\ Boot \notin Procs /\ Boot # NULL
        /\ TIME_SLICE_TICKS \in 0..TIME_SLICE_TICKS
        /\ TIME_SLICE_TICKS \in 1..TIME_SLICE_TICKS
    BY ConstAssumption DEF Pointer
  <1>3. ASSUME NEW p \in Procs, process_create(p) \/ process_create_no_stack(p)
        PROVE  SwitchInv'
    <2>1. /\ p \notin live /\ p # current
          /\ slice' = [slice EXCEPT ![p] = TIME_SLICE_TICKS]
          /\ live' \subseteq live \union {p} /\ UNCHANGED <<current, cpu>>
      BY <1>1, <1>3, NullAssumption
         DEF process_create, process_create_no_stack, NewPcb, Refill
    <2>2. /\ context' = context \/ context' = [context EXCEPT ![p] = [thread |-> p, kind |-> "new"]]
          /\ p \in live' => context'[p] = [thread |-> p, kind |-> "new"]
      BY <2>1, <1>3 DEF process_create, process_create_no_stack, TypeOK
    <2>3. NoQuantumUnderflow'
      BY <2>1, <1>1, <1>2 DEF NoQuantumUnderflow, TypeOK
    <2>4. \A r \in live : context'[r] = context[r]
      BY <2>1, <2>2, <1>1 DEF TypeOK
    <2>5. Resumable'
      BY <2>1, <2>2, <2>4, <1>1 DEF Resumable
    <2>6. NothingSavedYet'
      BY <2>1, <2>2, <2>4, <1>1 DEF NothingSavedYet, TypeOK
    <2> QED BY <2>3, <2>5, <2>6
  <1>4. ASSUME NEW p \in Procs, process_kill(p)
        PROVE  SwitchInv'
    <2>1. live' \subseteq live /\ UNCHANGED <<current, cpu, slice, context>>
      BY <1>4 DEF process_kill
    <2> QED BY <2>1, <1>1 DEF NoQuantumUnderflow, Resumable, NothingSavedYet
  <1>5. CASE scheduler_start \/ PickFirst
    <2>1. /\ current' = Head(order) /\ cpu = Boot /\ current = NULL
          /\ UNCHANGED <<live, context, cpu>>
          /\ slice' = slice \/ slice' = [slice EXCEPT ![current'] = TIME_SLICE_TICKS]
      BY <1>5, StartQueueInv DEF scheduler_start, PickFirst, Refill
    <2>2. current' \in live
      BY <2>1, <1>0, <1>5, NullAssumption, StartQueueInv
         DEF scheduler_start, PickFirst, NoLostProcess, TypeOK
    <2>3. \A p \in live : slice'[p] = TIME_SLICE_TICKS
      BY <2>1, <1>1 DEF NothingSavedYet, TypeOK
    <2> QED BY <2>1, <2>2, <2>3, <1>1, <1>2, NullAssumption DEF NoQuantumUnderflow, Resumable, NothingSavedYet
  <1>6. CASE FirstSwitch
    <2>1. /\ current \in live /\ context[current] = [thread |-> current, kind |-> "new"]
          /\ UNCHANGED <<live, slice, context, current, order>>
          /\ cpu' = ResumeFromCall(context[current])
      BY <1>6, <1>1 DEF FirstSwitch, NothingSavedYet, pcbVars
    <2>2. cpu' = current /\ cpu' # Boot
      BY <2>1, <1>1, <1>2 DEF ResumeFromCall
    <2> QED BY <2>1, <2>2, <1>1 DEF NoQuantumUnderflow, Resumable, NothingSavedYet
  <1>7. CASE TickInSlice
    <2>1. /\ current # NULL /\ SliceAfterTick \in 1..TIME_SLICE_TICKS
          /\ slice' = [slice EXCEPT ![current] = SliceAfterTick]
          /\ UNCHANGED <<live, context, current, cpu, order>>
      BY <1>7, TickArithmetic DEF TickInSlice, TickPossible
    <2> QED BY <2>1, <1>1 DEF NoQuantumUnderflow, Resumable, NothingSavedYet, TypeOK
  <1>8. CASE TickSwitch
    <2>1. PICK next \in Procs :
             /\ RotateTo(next, "irq")
             /\ slice' = Refill([slice EXCEPT ![current] = 0], next)
             /\ cpu' = ResumeFromIrq(context'[next])
      BY <1>8 DEF TickSwitch
    <2>2. current # NULL /\ SliceAfterTick = 0 /\ TickPossible
      BY <1>8 DEF TickSwitch, TickPossible
    <2>3. cpu # Boot /\ cpu = current
      <3>1. slice[current] = 1
        BY <2>2, TickArithmetic, ConstAssumption DEF NoQuantumUnderflow
      <3> QED BY <3>1, <2>2, ConstAssumption DEF TickPossible, Resumable
    <2>4. /\ context' = [context EXCEPT ![current] = [thread |-> current, kind |-> "irq"]]
          /\ current' = next /\ live' = live
      BY <2>1, <2>3 DEF RotateTo, Save
    <2>5. next \in live
      BY <2>1, <2>2, RotateFacts DEF RotateTo
    <2>6. \A p \in live : context'[p].thread = p /\ context'[p].kind \in {"new", "irq"}
      BY <2>4, <1>1 DEF Resumable, TypeOK
    <2>7. cpu' = next
      BY <2>1, <2>5, <2>6 DEF ResumeFromIrq
    <2>8. Resumable' /\ NothingSavedYet'
      BY <2>4, <2>6, <2>7, <1>1, <1>2 DEF Resumable, NothingSavedYet
    <2>9. NoQuantumUnderflow'
      BY <2>1, <2>4, <1>1, <1>2, ConstAssumption DEF NoQuantumUnderflow, Refill, TypeOK
    <2> QED BY <2>8, <2>9
  <1>9. CASE UNCHANGED vars
    BY <1>9 DEF vars, pcbVars, NoQuantumUnderflow, Resumable, NothingSavedYet
  <1> QED BY <1>3, <1>4, <1>5, <1>6, <1>7, <1>8, <1>9, YieldDoesNothing
      DEF Next, preempt_handler, IdleTick, scheduler_tick, do_schedule, YieldAlone, YieldSwitch

LEMMA SwitchInvHolds ==
  ASSUME ~KillCurrent, ~CallSchedulerTick
  PROVE  SafeSpec => []SwitchInv
  <1>1. QueueInv /\ SwitchInv /\ [Next]_vars => SwitchInv'
    BY SwitchInvNext
  <1> QED BY <1>1, SwitchInvInit, QueueInvHolds, PTL DEF SafeSpec

(* The unsigned quantum never wraps. *)
THEOREM QuantumNeverUnderflows ==
  ASSUME ~KillCurrent, ~CallSchedulerTick
  PROVE  SafeSpec => []NoQuantumUnderflow
  <1>1. SwitchInv => NoQuantumUnderflow
    BY DEF SwitchInv
  <1> QED BY <1>1, SwitchInvHolds, PTL

(* The CPU always runs on the stack of the current process, and whoever    *)
(* can be picked next can be resumed by the way that would pick it: the    *)
(* timer and context_switch_asm never meet each other's contexts.          *)
THEOREM ContextsAlwaysMatch ==
  ASSUME ~KillCurrent, ~CallSchedulerTick
  PROVE  SafeSpec => []ContextsMatch
  <1>1. ASSUME QueueInv, SwitchInv
        PROVE  ContextsMatch
    <2>1. /\ ToSet(order) \subseteq live /\ ~MustYield
          /\ current = NULL \/ current \in live
      BY <1>1, YieldDoesNothing DEF QueueInv, NoLostProcess
    <2>2. \A p \in ToSet(order) : ResumeFromIrq(context[p]) = p
      BY <1>1 DEF SwitchInv, Resumable, ResumeFromIrq
    <2>3. \A p \in live : cpu = Boot => ResumeFromCall(context[p]) = p
      <3>1. \A p \in live : cpu = Boot => context[p] = [thread |-> p, kind |-> "new"]
        BY <1>1 DEF SwitchInv, NothingSavedYet
      <3>2. \A p : ResumeFromCall([thread |-> p, kind |-> "new"]) = p
        BY DEF ResumeFromCall
      <3> QED BY <3>1, <3>2
    <2>4. current = NULL => cpu = Boot
      BY <1>1, NullAssumption, ConstAssumption
         DEF QueueInv, SwitchInv, Resumable, TypeOK, Pointer
    <2> QED BY <1>1, <2>1, <2>2, <2>3, <2>4 DEF ContextsMatch, SwitchInv, Resumable
  <1> QED BY <1>1, QueueInvHolds, SwitchInvHolds, PTL

--------------------------------------------------------------------------------

(* The scheduler implements the round robin: every step of the pointer     *)
(* code is a step of the line, or leaves the line alone.                   *)
THEOREM ImplementsRoundRobin ==
  ASSUME ~KillCurrent
  PROVE  SafeSpec => RR!SafeSpec
  <1>1. Init => RR!Init
    BY DEF Init, RR!Init
  <1>2. RR!ToSet(order) = ToSet(order)
    BY DEF RR!ToSet, ToSet
  <1>3. \A p : RR!RemoveFirst(order, p) = RemoveFirst(order, p)
    BY DEF RR!RemoveFirst, RemoveFirst, RR!RemoveAt, RemoveAt,
           RR!SelectInSeq, SelectInSeq, RR!Min, Min
  <1>4. ASSUME QueueInv, [Next]_vars
        PROVE  [RR!Next]_(RR!vars)
    <2>1. ASSUME NEW p \in Procs, process_create(p)
          PROVE  RR!Admit(p)
      BY <1>2, <1>4, <2>1, NullAssumption
         DEF process_create, NewPcb, RR!Admit, QueueInv, NoLostProcess
    <2>2. ASSUME NEW p \in Procs, process_kill(p)
          PROVE  RR!Retire(p)
      BY <1>2, <1>3, <1>4, <2>2
         DEF process_kill, RR!Retire, QueueInv, NoLostProcess
    <2>3. ASSUME scheduler_start \/ PickFirst
          PROVE  RR!Begin
      BY <1>4, <2>3, StartQueueInv DEF scheduler_start, PickFirst, RR!Begin
    <2>4. ASSUME NEW next \in Procs, NEW kind, current # NULL, RotateTo(next, kind)
          PROVE  RR!Rotate
      BY <1>4, <2>4, RotateFacts DEF RotateTo, RR!Rotate
    <2>5. ASSUME YieldAlone
          PROVE  RR!Rotate
      <3>1. current # NULL /\ current' = current
        BY <2>5 DEF YieldAlone, MustYield
      <3> QED BY <1>4, <3>1, <2>5, RotateFacts DEF YieldAlone, RR!Rotate
    <2>6. ASSUME TickSwitch \/ YieldSwitch
          PROVE  RR!Rotate
      BY <2>4, <2>6 DEF TickSwitch, YieldSwitch, TickPossible, MustYield
    <2>7. ASSUME \/ \E p \in Procs : process_create_no_stack(p)
                 \/ FirstSwitch \/ IdleTick \/ TickInSlice \/ scheduler_tick
                 \/ UNCHANGED vars
          PROVE  UNCHANGED RR!vars
      BY <2>7 DEF process_create_no_stack, FirstSwitch, IdleTick, TickInSlice,
                  scheduler_tick, vars, RR!vars
    <2> QED BY <2>1, <2>2, <2>3, <2>5, <2>6, <2>7, <1>4
        DEF Next, preempt_handler, do_schedule, RR!Next
  <1> QED BY <1>1, <1>4, QueueInvHolds, PTL DEF SafeSpec, RR!SafeSpec
================================================================================
