----------------------------- MODULE ContextSwitch -----------------------------
(***************************************************************************)
(* The two ways in which a process gives the CPU to another, and the       *)
(* stacks: context_switch_asm, instruction by instruction where the order  *)
(* matters, called as do_schedule does; and the timer interrupt, whose     *)
(* frame irq_common_stub completes and preempt_handler exchanges.  In both *)
(* scheduler_start makes the first switch with context_switch_asm, to a    *)
(* process with the frame that process_create built.  Module Scheduler     *)
(* says when switches happen, and what becomes of a context saved in one   *)
(* way and resumed in the other; here a behaviour has one way of           *)
(* switching, with the timer interrupting context_switch_asm, too, while   *)
(* no quantum is used up.                                                  *)
(*                                                                         *)
(* An address is a thread's stack and a word in it; stacks grow towards 0. *)
(* rbx stands for itself and the eleven registers that are treated alike   *)
(* (rcx, rdx, rbp, r8 to r15).                                             *)
(***************************************************************************)
EXTENDS Naturals, Sequences

CONSTANTS Procs, NULL,
          Sites,       (* where a program calls or is interrupted          *)
          Entry,       (* a new process's registers.rip                    *)
          Values,      (* what a program may have in a register            *)
          Zero, Other, (* 0; a selector, a number or an error code         *)
          On, Off,     (* RFLAGS with and without IF                       *)
          StackWords,  (* size of a stack                                  *)
          Lowest,      (* bound: no call from there on                     *)
          Depths       (* bound: where rsp may be at an interrupt          *)

ASSUME ContextSwitchAssumption ==
  /\ NULL \notin Procs /\ Entry \notin Sites /\ Values # {} /\ On # Off
  /\ StackWords \in Nat /\ StackWords > 11   (* room for the first frame *)
  /\ Lowest \in Nat \ {0}
  /\ Depths \subseteq 11 .. (StackWords - 11)

(* An operator whose comment begins with Slip is what a plausible mistake  *)
(* in the code would make of the operator after it; no action uses it.     *)

Stacks == Procs \union {NULL}   (* NULL: the boot stack *)
Addresses == Stacks \X (0..StackWords)
Flags == {On, Off}
Words == Sites \union {Entry, Zero, Other} \union Flags \union Values \union Stacks
Registers == [rax : Words, rbx : Words, rdi : Words, rsi : Words, rsp : Addresses,
              flags : Flags]

VARIABLES
  way,     (* "call" or "irq"                                              *)
  pc,      (* "program", or the next instructions of the switch            *)
  rip,     (* where the program runs                                       *)
  reg,     (* the CPU's registers                                          *)
  mem,     (* the words of the stacks                                      *)
  pcb,     (* proc->registers, rip included                                *)
  before   (* history: each process's registers, address and stack when it *)
           (* last lost the CPU                                            *)

vars == <<way, pc, rip, reg, mem, pcb, before>>

Below(a) == <<a[1], a[2] - 1>>
Above(a) == <<a[1], a[2] + 1>>

(* The memory after these words were pushed with rsp = a. *)
Pushed(m, a, words) ==
  [b \in Addresses |->
     IF b[1] = a[1] /\ b[2] < a[2] /\ a[2] <= b[2] + Len(words)
     THEN words[a[2] - b[2]] ELSE m[b]]

(* What the CPU (ss, rsp, rflags, cs, rip), the stub of the vector (error  *)
(* code, number) and irq_common_stub push when r is interrupted at to.     *)
Frame(r, to) ==
  <<Other, r.rsp, r.flags, Other, to, Other, Other, r.rax, r.rbx, r.rsi, r.rdi>>

StackTop(p) == <<p, StackWords>>

(* The registers with which a process first runs after an iretq. *)
Fresh(p) == [rax |-> Zero, rbx |-> Zero, rdi |-> Zero, rsi |-> Zero, rsp |-> StackTop(p),
             flags |-> On]

(* The stack that process_create builds.                                   *)
NewStack(p) == Frame(Fresh(p), Entry)

(* What process_create stores in the PCB; the other fields hold what       *)
(* kmalloc's memory held before.                                           *)
NewContext(p, old) ==
  [rax |-> old, rbx |-> old, rdi |-> old, rsi |-> old,
   rsp |-> <<p, StackWords - Len(NewStack(p))>>, rip |-> Entry, flags |-> On]

StackOf(p, m) == [i \in 0..StackWords |-> m[<<p, i>>]]

(* The processes exist and interrupts are on; scheduler_start calls        *)
(* context_switch_asm(NULL, first).                                        *)
Init ==
  \E first \in Procs, old \in Values :
    /\ way \in {"call", "irq"}
    /\ pc = "load"
    /\ rip = Entry
    /\ reg = [rax |-> old, rbx |-> old, rdi |-> NULL, rsi |-> first,
              rsp |-> StackTop(NULL), flags |-> On]
    /\ mem = [a \in Addresses |->
                 IF a[1] = NULL THEN old
                 ELSE Pushed([b \in Addresses |-> old], StackTop(a[1]), NewStack(a[1]))[a]]
    /\ pcb = [p \in Procs |-> NewContext(p, old)]
    /\ before = [p \in Procs |->
         [reg |-> IF way = "call" \/ p = first THEN NewContext(p, old) ELSE Fresh(p),
          to |-> Entry, stack |-> StackOf(p, mem)]]

(* A process, with v in its registers and interrupts on or disabled, calls *)
(* context_switch_asm(it, next).                                           *)
Call(next, site, v, flags) ==
  LET me == reg.rsp[1]
      r  == [reg EXCEPT !.rdi = me, !.rsi = next, !.rbx = v, !.flags = flags]
  IN  /\ way = "call" /\ pc = "program"
      /\ next # me
      /\ reg.rsp[2] > Lowest
      /\ reg' = [r EXCEPT !.rsp = Below(@)]
      /\ mem' = [mem EXCEPT ![Below(reg.rsp)] = site]
      /\ before' = [before EXCEPT ![me] = [reg |-> r, to |-> site, stack |-> StackOf(me, mem)]]
      /\ pc' = "save"
      /\ UNCHANGED <<way, rip, pcb>>

(* The address to which the caller wants control to return. *)
ReturnAddress == mem[reg.rsp]

(* Slip: rax is used as scratch before it is saved. *)
SaveRaxLate ==
  /\ pc = "save"
  /\ pcb' = [pcb EXCEPT ![reg.rdi] =
       [rax |-> ReturnAddress, rbx |-> reg.rbx, rdi |-> reg.rdi, rsi |-> reg.rsi,
        rsp |-> reg.rsp, rip |-> ReturnAddress, flags |-> @.flags]]
  /\ reg' = [reg EXCEPT !.rax = ReturnAddress]
  /\ pc' = "load"
  /\ UNCHANGED <<way, rip, mem, before>>

(* Slip: the return address and a word that the caller pushed are taken    *)
(* off before rsp is saved.                                                *)
SaveRspAbove ==
  /\ pc = "save"
  /\ pcb' = [pcb EXCEPT ![reg.rdi] =
       [rax |-> reg.rax, rbx |-> reg.rbx, rdi |-> reg.rdi, rsi |-> reg.rsi,
        rsp |-> Above(Above(reg.rsp)), rip |-> ReturnAddress, flags |-> @.flags]]
  /\ reg' = [reg EXCEPT !.rax = ReturnAddress]
  /\ pc' = "load"
  /\ UNCHANGED <<way, rip, mem, before>>

(* The registers go into the PCB at rdi, then the return address, through  *)
(* rax.  RFLAGS does not.                                                  *)
Save ==
  /\ pc = "save"
  /\ pcb' = [pcb EXCEPT ![reg.rdi] =
       [rax |-> reg.rax, rbx |-> reg.rbx, rdi |-> reg.rdi, rsi |-> reg.rsi,
        rsp |-> reg.rsp, rip |-> ReturnAddress, flags |-> @.flags]]
  /\ reg' = [reg EXCEPT !.rax = ReturnAddress]
  /\ pc' = "load"
  /\ UNCHANGED <<way, rip, mem, before>>

(* All but rdi, rsi and RFLAGS come from the PCB at rsi: the stack is the  *)
(* new one.                                                                *)
Load ==
  /\ pc = "load"
  /\ LET n == pcb[reg.rsi]
     IN  reg' = [reg EXCEPT !.rax = n.rax, !.rbx = n.rbx, !.rsp = n.rsp]
  /\ pc' = "rdi"
  /\ UNCHANGED <<way, rip, mem, pcb, before>>

LoadRdi ==
  /\ pc = "rdi"
  /\ reg' = [reg EXCEPT !.rdi = pcb[reg.rsi].rdi]
  /\ pc' = "push"
  /\ UNCHANGED <<way, rip, mem, pcb, before>>

(* push qword [rsi + OFFSET_RIP]. *)
PushRip ==
  /\ pc = "push"
  /\ reg' = [reg EXCEPT !.rsp = Below(@)]
  /\ mem' = [mem EXCEPT ![Below(reg.rsp)] = pcb[reg.rsi].rip]
  /\ pc' = "rsi"
  /\ UNCHANGED <<way, rip, pcb, before>>

LoadRsi ==
  /\ pc = "rsi"
  /\ reg' = [reg EXCEPT !.rsi = pcb[reg.rsi].rsi]
  /\ pc' = "ret"
  /\ UNCHANGED <<way, rip, mem, pcb, before>>

(* sti and ret: an sti that turns interrupts on admits none before the     *)
(* instruction after it is done.                                           *)
Ret ==
  /\ pc = "ret"
  /\ rip' = mem[reg.rsp]
  /\ reg' = [reg EXCEPT !.rsp = Above(@), !.flags = On]
  /\ pc' = "program"
  /\ UNCHANGED <<way, mem, pcb, before>>

context_switch_asm == Save \/ Load \/ LoadRdi \/ PushRip \/ LoadRsi \/ Ret

(* The timer interrupts a program, or any instruction of                   *)
(* context_switch_asm, and no quantum is used up: preempt_handler returns  *)
(* the stack it is passed, and the stub takes off what it pushed.  (For a  *)
(* program in the other way, that is an Interrupt after which              *)
(* preempt_handler chooses the same process.)                              *)
Tick ==
  /\ pc \in {"save", "load", "rdi", "push", "rsi", "ret"} \/ (way = "call" /\ pc = "program")
  /\ reg.flags = On
  /\ reg.rsp[2] >= Len(Frame(reg, Other))
  /\ mem' = Pushed(mem, reg.rsp, Frame(reg, Other))
  /\ UNCHANGED <<way, pc, rip, reg, pcb, before>>

(* The timer interrupts a program that has v in its registers and at the   *)
(* end of its stack; the stub saves them.                                  *)
Interrupt(site, v, depth) ==
  LET me == reg.rsp[1]
      r  == [reg EXCEPT !.rbx = v, !.rsp = <<me, depth>>]
      m  == [mem EXCEPT ![r.rsp] = v]
      frame == Frame(r, site)
  IN  /\ way = "irq" /\ pc = "program" /\ reg.flags = On
      /\ mem' = Pushed(m, r.rsp, frame)
      /\ reg' = [r EXCEPT !.rsp = <<me, depth - Len(frame)>>, !.flags = Off]
      /\ before' = [before EXCEPT ![me] = [reg |-> r, to |-> site, stack |-> StackOf(me, m)]]
      /\ pc' = "handler"
      /\ UNCHANGED <<way, rip, pcb>>

(* preempt_handler saves the stack pointer that it is passed and returns   *)
(* another one; what it leaves in the registers does not matter.           *)
preempt_handler(next) ==
  /\ pc = "handler"
  /\ pcb' = [pcb EXCEPT ![reg.rsp[1]].rsp = reg.rsp]
  /\ reg' = [reg EXCEPT !.rax = Other, !.rdi = Other, !.rsi = Other, !.rsp = pcb'[next].rsp]
  /\ pc' = "restore"
  /\ UNCHANGED <<way, rip, mem, before>>

(* The word i words above rsp. *)
OnStack(i) == mem[<<reg.rsp[1], reg.rsp[2] + i>>]

(* The stub pops the registers and drops number and error code. *)
RestoreRegisters ==
  /\ pc = "restore"
  /\ reg' = [rdi |-> OnStack(0), rsi |-> OnStack(1), rbx |-> OnStack(2), rax |-> OnStack(3),
             rsp |-> <<reg.rsp[1], reg.rsp[2] + 6>>, flags |-> reg.flags]
  /\ pc' = "iretq"
  /\ UNCHANGED <<way, rip, mem, pcb, before>>

Iretq ==
  /\ pc = "iretq"
  /\ rip' = OnStack(0)
  /\ reg' = [reg EXCEPT !.flags = OnStack(2), !.rsp = OnStack(3)]
  /\ pc' = "program"
  /\ UNCHANGED <<way, mem, pcb, before>>

irq_common_stub == RestoreRegisters \/ Iretq

Next ==
  \/ \E next \in Procs, site \in Sites, v \in Values, flags \in Flags :
       Call(next, site, v, flags)
  \/ context_switch_asm
  \/ Tick
  \/ \E site \in Sites, v \in Values, depth \in Depths : Interrupt(site, v, depth)
  \/ \E next \in Procs : preempt_handler(next)
  \/ irq_common_stub

Spec == Init /\ [][Next]_vars

--------------------------------------------------------------------------------

(* Type invariant. *)
TypeOK ==
  /\ way \in {"call", "irq"}
  /\ pc \in {"program", "save", "load", "rdi", "push", "rsi", "ret",
             "handler", "restore", "iretq"}
  /\ rip \in Words
  /\ reg \in Registers
  /\ DOMAIN mem = Addresses /\ \A a \in Addresses : mem[a] \in Words \union Addresses
  /\ \A p \in Procs : pcb[p].rsp[1] = p /\ pcb[p].rip \in Sites \union {Entry}

(* Whose program runs, and what it had when it lost the CPU. *)
Me == reg.rsp[1]
Left == before[Me]

(* A process that gets the CPU back continues where it lost it, and each   *)
(* register is what the switch makes of the one it had there: though rax,  *)
(* rdi and rsi are in use for context_switch_asm itself, though the timer  *)
(* interrupts that, too, though a new process's frame is built in another  *)
(* file than the one that pops it, and whatever ran in between.  After an  *)
(* interrupt all are as they were, rsp and IF among them.  After           *)
(* context_switch_asm all are but two: rsp is one word low, since the      *)
(* return address that is still on the stack is pushed again, and          *)
(* interrupts are on even if the caller had disabled them.                 *)
ContextRestored ==
  pc = "program" =>
    /\ rip = Left.to
    /\ reg.rax = Left.reg.rax /\ reg.rbx = Left.reg.rbx
    /\ reg.rdi = Left.reg.rdi /\ reg.rsi = Left.reg.rsi
    /\ reg.rsp = IF way = "call" /\ Left.to # Entry THEN Below(Left.reg.rsp) ELSE Left.reg.rsp
    /\ reg.flags = IF way = "call" THEN On ELSE Left.reg.flags

(* Its stack is there: every word that it had pushed is as it was, and rsp *)
(* is not above them, although both ways of switching and every tick write *)
(* on stacks and context_switch_asm moves rsp.                             *)
StackContentsKept ==
  pc = "program" =>
    /\ reg.rsp[2] <= Left.reg.rsp[2]
    /\ \A i \in Left.reg.rsp[2] .. StackWords : mem[<<Me, i>>] = Left.stack[i]

(* After context_switch_asm, too, rsp is what it was. *)
StackRestored == pc = "program" => reg.rsp = Left.reg.rsp
================================================================================
