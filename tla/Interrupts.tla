------------------------------ MODULE Interrupts ------------------------------
(***************************************************************************)
(* The path of a hardware interrupt: interrupts_init, which fills the IDT  *)
(* and programs the two 8259 controllers (external), the stubs of isr.asm, *)
(* irq_handler and pic_send_eoi of interrupts.c, the                       *)
(* end-of-interrupt and the change of stack in preempt_handler, and the    *)
(* PIT driver, whose pit_sleep waits for pit_handler.                      *)
(*                                                                         *)
(* Every thread has its own kernel stack: a sequence of interrupt frames,  *)
(* the innermost last, below which is its program.  What preempt_handler   *)
(* does with the ready queue is module Scheduler; here it resumes any      *)
(* thread.  What keyboard_handler does is module Keyboard.                 *)
(***************************************************************************)
EXTENDS Integers, Sequences, FiniteSets

CONSTANTS Threads, Boot,
          Lines,      (* the IRQ lines with a device that is not masked    *)
          NoisyLines, (* those whose request may go away again             *)
          Stubs,      (* external: where the linker puts isr0 .. irq15     *)
          HalfWord,   (* 2^16 in the code                                  *)
          MaxSleep,   (* bound: the longest pit_sleep                      *)
          MaxDepth    (* bound: frames on one stack                        *)

ASSUME InterruptsAssumption ==
  /\ Boot \in Threads
  /\ Lines \subseteq (0..15) \ {2}
  /\ NoisyLines \subseteq Lines
  /\ Stubs \in [0..47 -> Nat]
  /\ \A v, w \in 0..47 : Stubs[v] = Stubs[w] => v = w
  /\ HalfWord \in Nat \ {0}
  /\ MaxSleep \in Nat /\ MaxDepth \in Nat

(* An operator whose comment begins with Slip is what a plausible mistake  *)
(* in the code would make of the operator after it; no action uses it.     *)

VARIABLES
  booted,       (* how far kernel_main is with interrupts_init             *)
  idt,          (* the gates                                               *)
  offset,       (* external: the first vectors of the two controllers      *)
  irr, isr,     (* external: lines requested, lines in service             *)
  enabled,      (* RFLAGS.IF                                               *)
  running,      (* whose stack the CPU is on                               *)
  frames,       (* the interrupt frames on each stack                      *)
  halted,       (* the CPU is in isr_handler's final loop                  *)
  critical,     (* the threads between disable_ and enable_interrupts      *)
  timer_ticks,
  end_tick      (* each thread's local variable in pit_sleep, or -1        *)

setup == <<booted, idt, offset>>
vars == <<setup, irr, isr, enabled, running, frames, halted, critical,
          timer_ticks, end_tick>>
pic == <<irr, isr>>
pit == <<timer_ticks, end_tick>>

(* Where the code that a frame belongs to has got to. *)
Stages == {"stub", "switch", "eoi", "return"}
Frame == [irq : 0..15, at : Stages, flag : BOOLEAN]

(* The program of the running thread executes. *)
InProgram == booted = "done" /\ ~halted /\ frames[running] = <<>>

Open == InProgram /\ enabled

Top == frames[running][Len(frames[running])]

(* The innermost frame of the running thread moves on. *)
Moved(stage) ==
  [frames EXCEPT ![running] =
     [@ EXCEPT ![Len(@)].at = stage]]

-------------------------------------------------------------------------------

(* The frame process_create builds: RFLAGS is 0x202. *)
NewFrame == [irq |-> 0, at |-> "return", flag |-> TRUE]

EmptyGate == [low |-> 0, mid |-> 0, high |-> 0, flags |-> 0]
InterruptGate == 142   (* 0x8E *)

(* kernel_main calls interrupts_init, with interrupts off; the controllers *)
(* are as the BIOS left them.  The threads' frames are there already.      *)
Init ==
  /\ booted = "start"
  /\ idt = [v \in 0..255 |-> EmptyGate]
  /\ offset = [master |-> 8, slave |-> 112]
  /\ irr = {} /\ isr = {}
  /\ enabled = FALSE
  /\ running = Boot
  /\ frames = [t \in Threads |-> IF t = Boot THEN <<>> ELSE <<NewFrame>>]
  /\ halted = FALSE
  /\ critical = {}
  /\ timer_ticks = 0
  /\ end_tick = [t \in Threads |-> -1]

(* External: priority on the cascaded controllers, highest first.          *)
Rank(n) == IF n <= 2 THEN n ELSE IF n >= 8 THEN n - 6 ELSE n + 7

(* External: a non-specific EOI ends the highest-priority line in service. *)
Eoi(chip, s) == s \ {n \in s \cap chip : \A m \in s \cap chip : n <= m}

(* Slip: only the master is told. *)
MasterOnly(n, s) == Eoi(0..7, s)

(* pic_send_eoi. *)
pic_send_eoi(n, s) == Eoi(0..7, IF n >= 8 THEN Eoi(8..15, s) ELSE s)

(* External: the vector of a line. *)
Vector(n) == IF n < 8 THEN offset.master + n ELSE offset.slave + (n - 8)

(* irq_common_stub: the vector back to a line. *)
IrqOf(vector) == vector - 32

(* Slip: the stub begins with sti, to let other interrupts in. *)
StubWithSti == TRUE

(* RFLAGS.IF in a handler: the gates are interrupt gates (0x8E), and the   *)
(* stub begins with cli.                                                   *)
HandlerIF == FALSE

(* idt_init; the table is loaded. *)
idt_init ==
  /\ booted = "start" /\ booted' = "idt"
  /\ idt' = [v \in 0..255 |-> EmptyGate]
  /\ UNCHANGED <<offset, pic, enabled, running, frames, halted, critical, pit>>

(* Both controllers start anew, without requests; the masks are kept.      *)
pic_remap(offset1, offset2) ==
  /\ booted = "idt" /\ booted' = "pic"
  /\ offset' = [master |-> offset1, slave |-> offset2]
  /\ irr' = {} /\ isr' = {}
  /\ UNCHANGED <<idt, enabled, running, frames, halted, critical, pit>>

(* Slip: the middle of the address is cut off as the low half is. *)
GateMidLost(handler) ==
  [low |-> handler % HalfWord,
   mid |-> (handler % HalfWord) \div HalfWord,
   high |-> handler \div (HalfWord * HalfWord),
   flags |-> InterruptGate]

(* What idt_set_gate writes. *)
Gate(handler) ==
  [low |-> handler % HalfWord,
   mid |-> (handler \div HalfWord) % HalfWord,
   high |-> handler \div (HalfWord * HalfWord),
   flags |-> InterruptGate]

(* The gates of isr0 .. isr31 and irq0 .. irq15. *)
idt_set_gates ==
  /\ booted = "pic" /\ booted' = "gates"
  /\ idt' = [v \in 0..255 |-> IF v \in 0..47 THEN Gate(Stubs[v]) ELSE idt[v]]
  /\ UNCHANGED <<offset, pic, enabled, running, frames, halted, critical, pit>>

(* enable_interrupts. *)
EnableAtEnd ==
  /\ booted = "gates" /\ booted' = "done"
  /\ enabled' = TRUE
  /\ UNCHANGED <<idt, offset, pic, running, frames, halted, critical, pit>>

interrupts_init == idt_init \/ pic_remap(32, 40) \/ idt_set_gates \/ EnableAtEnd

(* External: where the CPU goes for a vector; the stub there pushes its    *)
(* own vector.                                                             *)
Target(vector) ==
  idt[vector].low + idt[vector].mid * HalfWord + idt[vector].high * HalfWord * HalfWord

(* External: a device requests service; a pending request absorbs it. *)
Raise(n) ==
  /\ irr' = irr \union {n}
  /\ UNCHANGED <<setup, isr, enabled, running, frames, halted, critical, pit>>

(* External: line n is the one the controllers announce to the CPU. *)
Announced(n) ==
  /\ n \in irr
  /\ \A m \in irr : Rank(n) <= Rank(m)
  /\ \A m \in isr : Rank(n) < Rank(m)

(* The CPU takes the interrupt of that vector through its gate.  (A vector  *)
(* without a gate would reset the machine: GatesReady says there is none.) *)
Enter(vector) ==
  /\ enabled /\ ~halted
  /\ Len(frames[running]) < MaxDepth
  /\ \E v \in 0..47 :
       /\ Stubs[v] = Target(vector)
       /\ frames' = [frames EXCEPT ![running] =
                       Append(@, [irq |-> IrqOf(v), at |-> "stub", flag |-> enabled])]
  /\ enabled' = HandlerIF
  /\ UNCHANGED <<setup, running, halted, critical, pit>>

Accept(n) ==
  /\ Announced(n)
  /\ irr' = irr \ {n}
  /\ isr' = isr \union (IF n >= 8 THEN {2, n} ELSE {n})
  /\ Enter(Vector(n))

(* External: the request goes away before it is acknowledged.  The         *)
(* controller then gives its lowest vector, with no line in service.       *)
AcceptSpurious(n) ==
  /\ n \in NoisyLines
  /\ Announced(n)
  /\ irr' = irr \ {n}
  /\ isr' = isr \union (IF n >= 8 THEN {2} ELSE {})
  /\ Enter(Vector(IF n >= 8 THEN 15 ELSE 7))

(* Slip: the timer's own path forgets the EOI. *)
TimerNoEoi ==
  /\ frames[running] # <<>> /\ Top.at = "stub" /\ Top.irq = 0
  /\ frames' = Moved("switch")
  /\ UNCHANGED <<setup, pic, enabled, running, halted, critical, pit>>

(* irq_common_stub for IRQ 0: preempt_handler, which tells the master.     *)
TimerEoi ==
  /\ frames[running] # <<>> /\ Top.at = "stub" /\ Top.irq = 0
  /\ isr' = Eoi(0..7, isr)
  /\ frames' = Moved("switch")
  /\ UNCHANGED <<setup, irr, enabled, running, halted, critical, pit>>

(* The rest of preempt_handler: the stub goes on with the stack pointer it *)
(* returns, which is this thread's or one saved at the same place.         *)
TimerSwitch ==
  /\ frames[running] # <<>> /\ Top.at = "switch"
  /\ frames' = Moved("return")
  /\ running' \in Threads
  /\ UNCHANGED <<setup, pic, enabled, halted, critical, pit>>

(* irq_handler(n): pit_handler for line 0, keyboard_handler for line 1,    *)
(* nothing for the others.                                                 *)
TicksAfter(n) == IF n = 0 THEN timer_ticks + 1 ELSE timer_ticks

irq_handler ==
  /\ frames[running] # <<>> /\ Top.at = "stub" /\ Top.irq # 0
  /\ timer_ticks' = TicksAfter(Top.irq)
  /\ frames' = Moved("eoi")
  /\ UNCHANGED <<setup, pic, enabled, running, halted, critical, end_tick>>

(* irq_handler's last statement. *)
SendEoi ==
  /\ frames[running] # <<>> /\ Top.at = "eoi"
  /\ isr' = pic_send_eoi(Top.irq, isr)
  /\ frames' = Moved("return")
  /\ UNCHANGED <<setup, irr, enabled, running, halted, critical, pit>>

(* The stub pops the registers; iretq restores RFLAGS. *)
Iret ==
  /\ frames[running] # <<>> /\ Top.at = "return"
  /\ enabled' = Top.flag
  /\ frames' = [frames EXCEPT ![running] = SubSeq(@, 1, Len(@) - 1)]
  /\ UNCHANGED <<setup, pic, running, halted, critical, pit>>

(* An exception, in a program: isr_handler never returns. *)
isr_handler ==
  /\ InProgram
  /\ halted' = TRUE /\ enabled' = FALSE
  /\ UNCHANGED <<setup, pic, running, frames, critical, pit>>

(* disable_interrupts and enable_interrupts, called by programs. *)
disable_interrupts ==
  /\ InProgram /\ end_tick[running] = -1
  /\ enabled' = FALSE
  /\ critical' = critical \union {running}
  /\ UNCHANGED <<setup, pic, running, frames, halted, pit>>

enable_interrupts ==
  /\ InProgram /\ running \in critical
  /\ enabled' = TRUE
  /\ critical' = critical \ {running}
  /\ UNCHANGED <<setup, pic, running, frames, halted, pit>>

(* A program calls pit_sleep, with interrupts on. *)
pit_sleep(ticks) ==
  /\ Open /\ end_tick[running] = -1
  /\ end_tick' = [end_tick EXCEPT ![running] = timer_ticks + ticks]
  /\ UNCHANGED <<setup, pic, enabled, running, frames, halted, critical,
                 timer_ticks>>

(* Its loop ends. *)
pit_sleep_returns ==
  /\ InProgram /\ end_tick[running] \in 0..timer_ticks
  /\ end_tick' = [end_tick EXCEPT ![running] = -1]
  /\ UNCHANGED <<setup, pic, enabled, running, frames, halted, critical,
                 timer_ticks>>

Stub == TimerEoi \/ TimerSwitch \/ irq_handler \/ SendEoi \/ Iret

Next ==
  \/ interrupts_init
  \/ \E n \in Lines : Raise(n) \/ Accept(n) \/ AcceptSpurious(n)
  \/ Stub
  \/ isr_handler
  \/ disable_interrupts \/ enable_interrupts
  \/ \E ticks \in 0..MaxSleep : pit_sleep(ticks)
  \/ pit_sleep_returns

(* The devices are slower than the handlers: if requests that pass before  *)
(* line n are taken again and again, then again and again a program runs   *)
(* with none of them pending.                                              *)
TakeBefore(n) ==
  \E m \in Lines : Rank(m) < Rank(n) /\ (Accept(m) \/ AcceptSpurious(m))
NotOverloaded(n) ==
  []<><<TakeBefore(n)>>_vars
    => []<>(Open /\ \A m \in irr : Rank(n) <= Rank(m))

(* The boot goes on, the stubs run to their end, a program that disabled   *)
(* interrupts enables them again, the CPU takes what it is offered, and    *)
(* the PIT keeps ticking.                                                  *)
Fairness ==
  /\ WF_vars(interrupts_init)
  /\ WF_vars(Stub)
  /\ WF_vars(enable_interrupts)
  /\ WF_vars(pit_sleep_returns)
  /\ \A n \in Lines : SF_vars(Accept(n)) /\ NotOverloaded(n)
  /\ 0 \in Lines => WF_vars(Raise(0))

Spec == Init /\ [][Next]_vars /\ Fairness

-------------------------------------------------------------------------------

TypeOK ==
  /\ irr \subseteq Lines
  /\ isr \subseteq 0..15
  /\ booted \in {"start", "idt", "pic", "gates", "done"}
  /\ idt \in [0..255 -> [low : Nat, mid : Nat, high : Nat, flags : Nat]]
  /\ offset \in [master : Nat, slave : Nat]
  /\ enabled \in BOOLEAN /\ halted \in BOOLEAN
  /\ running \in Threads /\ critical \subseteq Threads
  /\ \A t \in Threads : \A i \in DOMAIN frames[t] : frames[t][i] \in Frame
  /\ timer_ticks \in Nat
  /\ end_tick \in [Threads -> Nat \union {-1}]

(* Whenever interrupts are on, every vector that an exception or a device  *)
(* can raise leads to the stub that pushes its number, and the stub makes  *)
(* of it the line that asked: the table and the controllers were ready     *)
(* before sti.                                                             *)
GatesReady ==
  enabled =>
    /\ \A v \in 0..31 : idt[v].flags = InterruptGate /\ Target(v) = Stubs[v]
    /\ \A n \in 0..15 :
         /\ idt[Vector(n)].flags = InterruptGate
         /\ \E v \in 32..47 : Target(Vector(n)) = Stubs[v] /\ IrqOf(v) = n

(* Handlers do not nest, although preempt_handler acknowledges the timer   *)
(* first and the stack may change before iretq: the running thread is in   *)
(* one handler at most, interrupts are off in it, and every other thread   *)
(* waits exactly where the stub can resume it.  The other modules rely on  *)
(* this when they take a handler for one step.                             *)
HandlersDoNotNest ==
  /\ Len(frames[running]) <= 1
  /\ frames[running] # <<>> => ~enabled
  /\ \A t \in Threads \ {running} : Len(frames[t]) = 1 /\ frames[t][1].at = "return"

(* Every handler acknowledges exactly what it handles, a spurious          *)
(* interrupt included: whenever a program runs, on whatever stack, the     *)
(* controllers have nothing in service and no line is shut out.            *)
AllAcknowledged == frames[running] = <<>> => isr = {}

(* A device that asks for service gets it, unless an exception has stopped *)
(* the machine.                                                            *)
EveryRequestServed == \A n \in Lines : n \in irr ~> (n \notin irr \/ halted)

(* pit_sleep returns: the timer interrupt advances timer_ticks. *)
SleepEnds == \A t \in Threads : end_tick[t] # -1 ~> (end_tick[t] = -1 \/ halted)
===============================================================================
