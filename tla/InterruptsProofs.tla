--------------------------- MODULE InterruptsProofs ---------------------------
(***************************************************************************)
(* Theorems about Interrupts, for every set of threads and of lines, every *)
(* place of the stubs and every history of requests: no handler nests, and *)
(* every interrupt, a spurious one included, is acknowledged exactly.      *)
(***************************************************************************)
EXTENDS Interrupts, TLAPS

-------------------------------------------------------------------------------

(* What may be in service while irq_handler runs for line n: n itself, with *)
(* the cascade line 2 when n is the slave's; after a spurious request, only *)
(* the cascade line (vector 15) or nothing at all (vector 7).               *)
InService(n) ==
  {IF n >= 8 THEN {2, n} ELSE {n}}
    \union (IF n = 15 THEN {{2}} ELSE {})
    \union (IF n = 7 THEN {{}} ELSE {})

(* Until interrupts_init ends, the CPU is in kernel_main with interrupts    *)
(* off, and what a stage has written stays.                                 *)
BootInv ==
  /\ booted # "done" =>
       /\ ~enabled /\ ~halted /\ running = Boot /\ frames[Boot] = <<>>
  /\ booted \in {"pic", "gates", "done"} => offset = [master |-> 32, slave |-> 40]
  /\ booted \in {"gates", "done"} => \A v \in 0..47 : idt[v] = Gate(Stubs[v])

(* The running thread is in at most one handler, with interrupts off; every *)
(* other thread is suspended at the end of one.                             *)
FrameInv ==
  /\ frames \in [Threads -> Seq(Frame)]
  /\ Len(frames[running]) <= 1
  /\ frames[running] # <<>> => ~enabled
  /\ \A t \in Threads \ {running} : Len(frames[t]) = 1 /\ frames[t][1].at = "return"

(* How far the handler is says what is in service.                          *)
ServiceInv ==
  /\ frames[running] = <<>> => isr = {}
  /\ frames[running] # <<>> =>
       /\ Top.at \in {"switch", "return"} => isr = {}
       /\ Top.at \in {"stub", "eoi"} => isr \in InService(Top.irq)
       /\ Top.at = "eoi" => Top.irq # 0

IInv == TypeOK /\ BootInv /\ FrameInv /\ ServiceInv

-------------------------------------------------------------------------------

LEMMA DivPos ==
  ASSUME NEW h \in Nat, NEW d \in Nat \ {0}
  PROVE  /\ h \div d \in Nat
         /\ h % d \in 0 .. d-1
         /\ h = (h \div d) * d + (h % d)
  OBVIOUS

LEMMA MulMono == ASSUME NEW a \in Nat, NEW b \in Nat, a <= b, NEW c \in Nat PROVE a * c <= b * c
  OBVIOUS

LEMMA DivUnique ==
  ASSUME NEW d \in Nat \ {0}, NEW p \in Nat, NEW q \in Nat, NEW r \in 0..d-1, NEW s \in 0..d-1,
         p * d + r = q * d + s
  PROVE p = q
  <1>1. CASE p < q
    <2>1. (p + 1) * d <= q * d
      BY <1>1, MulMono
    <2>2. (p+1) * d = p * d + d
      OBVIOUS
    <2>3. p * d \in Nat /\ q * d \in Nat 
      OBVIOUS
    <2> QED BY <2>1, <2>2, <2>3
  <1>2. CASE q < p
    <2>1. (q + 1) * d <= p * d
      BY <1>2, MulMono
    <2>2. (q+1) * d = q * d + d
      OBVIOUS
    <2>3. p * d \in Nat /\ q * d \in Nat 
      OBVIOUS
    <2> QED BY <2>1, <2>2, <2>3
  <1> QED BY <1>1, <1>2

LEMMA GateJoins ==
  ASSUME NEW h \in Nat, NEW H \in Nat \ {0}
  PROVE  /\ h % H \in Nat /\ (h \div H) % H \in Nat /\ h \div (H * H) \in Nat
         /\ (h % H) + ((h \div H) % H) * H + (h \div (H * H)) * H * H = h
  <1> DEFINE q == h \div H
             r == h % H
             q2 == q \div H
             r2 == q % H
             w == h \div (H * H)
             s == h % (H * H)
  <1>1. q \in Nat /\ r \in 0..H-1 /\ h = q * H + r
    BY DivPos
  <1>2. q2 \in Nat /\ r2 \in 0..H-1 /\ q = q2 * H + r2
    BY <1>1, DivPos
  <1>3. H * H \in Nat \ {0}
    OBVIOUS
  <1>4. w \in Nat /\ s \in 0 .. H * H - 1 /\ h = w * (H * H) + s
    BY <1>3, DivPos
  <1> HIDE DEF q, r, q2, r2, w, s
  <1>5. h = q2 * (H * H) + (r2 * H + r)
    BY <1>1, <1>2
  <1>6. r2 * H + r \in 0 .. H * H - 1
    <2>1. (r2 + 1) * H <= H * H
      BY <1>2, MulMono
    <2>2. (r2 + 1) * H = r2 * H + H /\ r2 * H \in Nat
      BY <1>2
    <2> QED BY <2>1, <2>2, <1>1
  <1>7. w = q2
    BY <1>3, <1>4, <1>5, <1>6, <1>2, DivUnique
  <1>8. r + r2 * H + w * H * H = h
    BY <1>5, <1>7, <1>1, <1>2
  <1> QED BY <1>1, <1>2, <1>4, <1>8 DEF q, r, r2, w

-------------------------------------------------------------------------------

LEMMA FramesTyped ==
  ASSUME NEW f \in [Threads -> Seq(Frame)]
  PROVE  \A t \in Threads : \A i \in DOMAIN f[t] : f[t][i] \in Frame
  OBVIOUS

LEMMA InitInv == Init => IInv
  <1> SUFFICES ASSUME Init PROVE IInv
    OBVIOUS
  <1> USE InterruptsAssumption DEF Init
  <1>1. TypeOK
    <2>1. NewFrame \in Frame
      BY DEF NewFrame, Frame, Stages
    <2>2. frames \in [Threads -> Seq(Frame)]
      BY <2>1
    <2>3. EmptyGate \in [low : Nat, mid : Nat, high : Nat, flags : Nat]
      BY DEF EmptyGate
    <2> QED BY <2>2, <2>3, FramesTyped DEF TypeOK
  <1>2. BootInv
    BY DEF BootInv
  <1>3. FrameInv
    <2>1. NewFrame \in Frame
      BY DEF NewFrame, Frame, Stages
    <2> QED BY <2>1 DEF FrameInv, NewFrame
  <1>4. ServiceInv
    BY DEF ServiceInv
  <1> QED BY <1>1, <1>2, <1>3, <1>4 DEF IInv

(* A thread in a handler has one frame. *)
LEMMA OneFrame ==
  ASSUME FrameInv, TypeOK, frames[running] # <<>>
  PROVE  /\ frames[running] \in Seq(Frame) /\ Len(frames[running]) = 1
         /\ Top = frames[running][1] /\ Top \in Frame
  <1>1. running \in Threads /\ frames \in [Threads -> Seq(Frame)]
    BY DEF FrameInv, TypeOK
  <1>2. frames[running] \in Seq(Frame) /\ Len(frames[running]) = 1
    <2> DEFINE s == frames[running]
    <2>1. s \in Seq(Frame)
      BY <1>1
    <2>2. s # <<>> /\ Len(s) <= 1
      BY DEF FrameInv
    <2> HIDE DEF s
    <2>3. Len(s) = 1
      BY <2>1, <2>2
    <2> QED BY <2>1, <2>3 DEF s
  <1>3. Top = frames[running][1] /\ Top \in Frame
    BY <1>2 DEF Top
  <1> QED BY <1>2, <1>3

(* The running thread's only frame moves on; nothing else of it changes.   *)
LEMMA FrameMoves ==
  ASSUME FrameInv, TypeOK, frames[running] # <<>>, NEW stage \in Stages, frames' = Moved(stage)
  PROVE  /\ Len(frames[running]) = 1 /\ Top = frames[running][1] /\ Top \in Frame
         /\ frames' \in [Threads -> Seq(Frame)]
         /\ Len(frames'[running]) = 1
         /\ frames'[running][1] = [Top EXCEPT !.at = stage]
         /\ \A t \in Threads \ {running} : frames'[t] = frames[t]
  <1>1. running \in Threads /\ frames \in [Threads -> Seq(Frame)]
    BY DEF FrameInv, TypeOK
  <1>2. frames[running] \in Seq(Frame) /\ Len(frames[running]) = 1
    BY OneFrame
  <1>3. Top = frames[running][1] /\ Top \in Frame
    BY OneFrame
  <1> DEFINE s == [frames[running] EXCEPT ![1].at = stage]
  <1>4. s \in Seq(Frame) /\ Len(s) = 1 /\ s[1] = [Top EXCEPT !.at = stage]
    <2>1. [Top EXCEPT !.at = stage] \in Frame
      BY <1>3 DEF Frame
    <2>2. s = [frames[running] EXCEPT ![1] = [Top EXCEPT !.at = stage]]
      BY <1>3
    <2> QED BY <1>2, <2>1, <2>2
  <1>5. frames' = [frames EXCEPT ![running] = s]
    BY <1>2 DEF Moved
  <1> HIDE DEF s
  <1> QED BY <1>1, <1>2, <1>3, <1>4, <1>5

-------------------------------------------------------------------------------

LEMMA GateFields ==
  ASSUME NEW h
  PROVE  /\ Gate(h).low = h % HalfWord
         /\ Gate(h).mid = (h \div HalfWord) % HalfWord
         /\ Gate(h).high = h \div (HalfWord * HalfWord)
         /\ Gate(h).flags = InterruptGate
  BY Zenon DEF Gate

(* The gate of a vector below 48 leads to the stub that pushes it.         *)
LEMMA GateLeads ==
  ASSUME TypeOK, BootInv, booted = "done", NEW v \in 0..47
  PROVE  idt[v].flags = InterruptGate /\ Target(v) = Stubs[v]
  <1>1. idt[v] = Gate(Stubs[v]) /\ Stubs[v] \in Nat /\ HalfWord \in Nat \ {0}
    BY InterruptsAssumption DEF BootInv
  <1> DEFINE h == Stubs[v]
  <1>2. /\ idt[v].low = h % HalfWord
        /\ idt[v].mid = (h \div HalfWord) % HalfWord
        /\ idt[v].high = h \div (HalfWord * HalfWord)
        /\ idt[v].flags = InterruptGate
    BY <1>1, GateFields
  <1>3. (h % HalfWord) + ((h \div HalfWord) % HalfWord) * HalfWord
          + (h \div (HalfWord * HalfWord)) * HalfWord * HalfWord = h
    BY <1>1, GateJoins
  <1> HIDE DEF h
  <1> QED BY <1>2, <1>3, Zenon DEF Target, h

(* With the table and the controllers ready, the vector of a line is that  *)
(* of its stub, and the stub makes of it the same line.                    *)
LEMMA VectorLeads ==
  ASSUME TypeOK, BootInv, booted = "done", NEW n \in 0..15
  PROVE  /\ Vector(n) = 32 + n
         /\ Vector(n) \in 0..47
         /\ Target(Vector(n)) = Stubs[32 + n]
         /\ \A v \in 0..47 : Stubs[v] = Target(Vector(n)) => IrqOf(v) = n
  <1>1. Vector(n) = 32 + n
    BY DEF BootInv, Vector
  <1>2. Vector(n) \in 0..47 /\ Target(Vector(n)) = Stubs[32 + n]
    BY <1>1, GateLeads
  <1>3. ASSUME NEW v \in 0..47, Stubs[v] = Target(Vector(n))
        PROVE  IrqOf(v) = n
    <2>1. v = 32 + n
      BY <1>1, <1>2, <1>3, InterruptsAssumption
    <2> QED BY <2>1 DEF IrqOf
  <1> QED BY <1>1, <1>2, <1>3

(* The steps of interrupts_init. *)
LEMMA BootStep == IInv /\ interrupts_init => IInv'
  <1> SUFFICES ASSUME IInv, interrupts_init PROVE IInv'
    OBVIOUS
  <1> USE InterruptsAssumption DEF IInv
  <1>1. CASE idt_init
    <2> USE <1>1 DEF idt_init, pic, pit
    <2>1. TypeOK'
      <3>1. EmptyGate \in [low : Nat, mid : Nat, high : Nat, flags : Nat]
        BY DEF EmptyGate
      <3> QED BY <3>1 DEF TypeOK
    <2>2. BootInv'
      BY DEF BootInv
    <2>3. FrameInv' /\ ServiceInv'
      BY DEF FrameInv, ServiceInv, Top
    <2> QED BY <2>1, <2>2, <2>3
  <1>2. CASE pic_remap(32, 40)
    <2> USE <1>2 DEF pic_remap, pic, pit
    <2>1. TypeOK'
      BY DEF TypeOK
    <2>2. BootInv' /\ FrameInv' /\ ServiceInv'
      BY DEF BootInv, FrameInv, ServiceInv, Top
    <2> QED BY <2>1, <2>2
  <1>3. CASE idt_set_gates
    <2> USE <1>3 DEF idt_set_gates, pic, pit
    <2>1. TypeOK'
      <3>1. \A v \in 0..47 : Gate(Stubs[v]) \in [low : Nat, mid : Nat, high : Nat, flags : Nat]
        BY GateJoins DEF Gate, InterruptGate
      <3> QED BY <3>1 DEF TypeOK
    <2>2. BootInv'
      BY DEF BootInv
    <2>3. FrameInv' /\ ServiceInv'
      BY DEF FrameInv, ServiceInv, Top
    <2> QED BY <2>1, <2>2, <2>3
  <1>4. CASE EnableAtEnd
    <2> USE <1>4 DEF EnableAtEnd, pic, pit
    <2>1. TypeOK'
      BY DEF TypeOK
    <2>2. BootInv' /\ FrameInv' /\ ServiceInv'
      BY DEF BootInv, FrameInv, ServiceInv, Top
    <2> QED BY <2>1, <2>2
  <1> QED BY <1>1, <1>2, <1>3, <1>4 DEF interrupts_init

(* A device asks. *)
LEMMA RaiseStep == ASSUME IInv, NEW n \in Lines, Raise(n) PROVE IInv'
  <1> USE DEF Raise, setup, pit
  <1>1. TypeOK'
    BY DEF IInv, TypeOK
  <1>2. BootInv' /\ FrameInv' /\ ServiceInv'
    BY DEF IInv, BootInv, FrameInv, ServiceInv, Top, Gate
  <1> QED BY <1>1, <1>2 DEF IInv

(* The CPU takes the vector of line k with what is in service as it is for *)
(* that line.                                                              *)
LEMMA EnterStep ==
  ASSUME IInv, NEW k \in 0..15, Enter(Vector(k)),
         irr' \subseteq Lines, isr' \subseteq 0..15, isr' \in InService(k)
  PROVE  IInv'
  <1> USE InterruptsAssumption
  <1>1. /\ TypeOK /\ BootInv /\ FrameInv /\ ServiceInv
        /\ booted = "done" /\ frames[running] = <<>> /\ running \in Threads
    BY DEF IInv, BootInv, FrameInv, TypeOK, Enter
  <1> DEFINE f == [irq |-> k, at |-> "stub", flag |-> TRUE]
  <1>2. /\ frames' = [frames EXCEPT ![running] = Append(@, f)]
        /\ enabled' = FALSE
        /\ UNCHANGED <<booted, idt, offset, running, halted, critical, timer_ticks, end_tick>>
    <2>1. PICK v \in 0..47 :
            /\ Stubs[v] = Target(Vector(k))
            /\ frames' = [frames EXCEPT ![running] =
                             Append(@, [irq |-> IrqOf(v), at |-> "stub", flag |-> enabled])]
      BY DEF Enter
    <2>2. IrqOf(v) = k
      BY <1>1, <2>1, VectorLeads
    <2>3. enabled = TRUE
      BY <1>1 DEF Enter, TypeOK
    <2> QED BY <2>1, <2>2, <2>3 DEF Enter, HandlerIF, setup, pit
  <1>3. f \in Frame /\ f.at = "stub" /\ f.irq = k
    BY DEF Frame, Stages
  <1> HIDE DEF f
  <1>4. /\ frames' \in [Threads -> Seq(Frame)]
        /\ frames'[running] = <<f>>
        /\ \A t \in Threads \ {running} : frames'[t] = frames[t]
    BY <1>1, <1>2, <1>3 DEF FrameInv
  <1>5. TypeOK'
    BY <1>1, <1>2, <1>4, FramesTyped DEF TypeOK
  <1>6. BootInv'
    BY <1>1, <1>2 DEF BootInv, Gate
  <1>7. FrameInv'
    BY <1>1, <1>2, <1>4 DEF FrameInv
  <1>8. ServiceInv'
    <2>1. running' = running /\ Len(<<f>>) = 1 /\ <<f>>[1] = f /\ <<f>> # <<>>
      BY <1>2
    <2>2. Top' = f /\ frames'[running'] # <<>>
      BY <1>4, <2>1 DEF Top
    <2> QED BY <1>3, <2>2 DEF ServiceInv
  <1> QED BY <1>5, <1>6, <1>7, <1>8 DEF IInv

LEMMA AcceptStep == ASSUME IInv, NEW n \in Lines, Accept(n) PROVE IInv'
  <1>1. n \in 0..15 /\ n # 2
    BY InterruptsAssumption
  <1>2. isr = {}
    BY DEF IInv, FrameInv, ServiceInv, Accept, Enter
  <1>3. isr' = IF n >= 8 THEN {2, n} ELSE {n}
    BY <1>2 DEF Accept
  <1>4. irr' \subseteq Lines /\ Enter(Vector(n))
    BY DEF Accept, IInv, TypeOK
  <1> QED BY <1>1, <1>3, <1>4, EnterStep DEF InService

LEMMA AcceptSpuriousStep == ASSUME IInv, NEW n \in Lines, AcceptSpurious(n) PROVE IInv'
  <1>1. n \in 0..15
    BY InterruptsAssumption
  <1>2. isr = {}
    BY DEF IInv, FrameInv, ServiceInv, AcceptSpurious, Enter
  <1>3. irr' \subseteq Lines
    BY DEF AcceptSpurious, IInv, TypeOK
  <1>4. CASE n >= 8
    <2>1. isr' = {2} /\ Enter(Vector(15))
      BY <1>2, <1>4 DEF AcceptSpurious
    <2> QED BY <1>3, <2>1, EnterStep DEF InService
  <1>5. CASE ~(n >= 8)
    <2>1. isr' = {} /\ Enter(Vector(7))
      BY <1>2, <1>5 DEF AcceptSpurious
    <2> QED BY <1>3, <2>1, EnterStep DEF InService
  <1> QED BY <1>4, <1>5

(* preempt_handler acknowledges the timer: the stub of line 0 had only     *)
(* that line in service.                                                   *)
LEMMA TimerEoiStep == ASSUME IInv, TimerEoi PROVE IInv'
  <1>1. /\ TypeOK /\ BootInv /\ FrameInv /\ ServiceInv
        /\ frames[running] # <<>> /\ Top.at = "stub" /\ Top.irq = 0
        /\ frames' = Moved("switch") /\ isr' = Eoi(0..7, isr)
        /\ UNCHANGED <<booted, idt, offset, irr, enabled, running, halted, critical,
                       timer_ticks, end_tick>>
    BY DEF IInv, TimerEoi, setup, pit
  <1>2. /\ Top \in Frame
        /\ frames' \in [Threads -> Seq(Frame)]
        /\ Len(frames'[running]) = 1
        /\ frames'[running][1] = [Top EXCEPT !.at = "switch"]
        /\ \A t \in Threads \ {running} : frames'[t] = frames[t]
    BY <1>1, FrameMoves DEF Stages
  <1>3. isr' = {}
    <2>1. isr = {0}
      BY <1>1 DEF ServiceInv, InService
    <2> QED BY <1>1, <2>1 DEF Eoi
  <1>4. Top' = [Top EXCEPT !.at = "switch"] /\ Top'.at = "switch"
    BY <1>1, <1>2 DEF Top, Frame
  <1>5. TypeOK'
    BY <1>1, <1>2, <1>3, FramesTyped DEF TypeOK
  <1>6. BootInv'
    BY <1>1 DEF BootInv
  <1>7. FrameInv'
    BY <1>1, <1>2 DEF FrameInv
  <1>8. ServiceInv'
    BY <1>3, <1>4, <1>1, <1>2 DEF ServiceInv
  <1> QED BY <1>5, <1>6, <1>7, <1>8 DEF IInv

(* The stub goes on with the stack of any thread: all are suspended at the *)
(* same place.                                                             *)
LEMMA TimerSwitchStep == ASSUME IInv, TimerSwitch PROVE IInv'
  <1>1. /\ TypeOK /\ BootInv /\ FrameInv /\ ServiceInv
        /\ frames[running] # <<>> /\ Top.at = "switch"
        /\ frames' = Moved("return") /\ running' \in Threads
        /\ UNCHANGED <<booted, idt, offset, irr, isr, enabled, halted, critical,
                       timer_ticks, end_tick>>
    BY DEF IInv, TimerSwitch, setup, pit, pic
  <1>2. /\ Top \in Frame
        /\ frames' \in [Threads -> Seq(Frame)]
        /\ Len(frames'[running]) = 1
        /\ frames'[running][1] = [Top EXCEPT !.at = "return"]
        /\ \A t \in Threads \ {running} : frames'[t] = frames[t]
    BY <1>1, FrameMoves DEF Stages
  <1>3. isr' = {}
    BY <1>1 DEF ServiceInv
  <1>4. \A t \in Threads : Len(frames'[t]) = 1 /\ frames'[t][1].at = "return"
    BY <1>1, <1>2 DEF FrameInv, Frame
  <1>5. Top'.at = "return" /\ frames'[running'] # <<>>
    BY <1>1, <1>2, <1>4 DEF Top
  <1>6. TypeOK'
    BY <1>1, <1>2, FramesTyped DEF TypeOK
  <1>7. BootInv'
    BY <1>1 DEF BootInv
  <1>8. FrameInv'
    BY <1>1, <1>2, <1>4 DEF FrameInv
  <1>9. ServiceInv'
    BY <1>3, <1>5 DEF ServiceInv
  <1> QED BY <1>6, <1>7, <1>8, <1>9 DEF IInv

(* irq_handler before its last statement: what is in service stays.        *)
LEMMA IrqHandlerStep == ASSUME IInv, irq_handler PROVE IInv'
  <1>1. /\ TypeOK /\ BootInv /\ FrameInv /\ ServiceInv
        /\ frames[running] # <<>> /\ Top.at = "stub" /\ Top.irq # 0
        /\ frames' = Moved("eoi")
        /\ timer_ticks' \in Nat
        /\ UNCHANGED <<booted, idt, offset, irr, isr, enabled, running, halted, critical, end_tick>>
    BY DEF IInv, irq_handler, setup, pic, TicksAfter, TypeOK
  <1>2. /\ Top \in Frame
        /\ frames' \in [Threads -> Seq(Frame)]
        /\ Len(frames'[running]) = 1
        /\ frames'[running][1] = [Top EXCEPT !.at = "eoi"]
        /\ \A t \in Threads \ {running} : frames'[t] = frames[t]
    BY <1>1, FrameMoves DEF Stages
  <1>3. isr' \in InService(Top.irq)
    BY <1>1 DEF ServiceInv
  <1>4. Top'.at = "eoi" /\ Top'.irq = Top.irq
    BY <1>1, <1>2 DEF Top, Frame
  <1>5. TypeOK'
    BY <1>1, <1>2, FramesTyped DEF TypeOK
  <1>6. BootInv'
    BY <1>1 DEF BootInv
  <1>7. FrameInv'
    BY <1>1, <1>2 DEF FrameInv
  <1>8. ServiceInv'
    BY <1>3, <1>4, <1>1, <1>2 DEF ServiceInv
  <1> QED BY <1>5, <1>6, <1>7, <1>8 DEF IInv

(* The EOIs of pic_send_eoi end exactly what a handler of line n has in    *)
(* service; an EOI to a controller with nothing in service does nothing.   *)
LEMMA EoiEnds ==
  ASSUME NEW n \in 0..15, NEW s \in InService(n)
  PROVE  pic_send_eoi(n, s) = {}
  <1>1. CASE n >= 8
    <2>1. s = {2, n} \/ s = {2}
      BY <1>1 DEF InService
    <2>2. Eoi(8..15, s) = {2}
      <3>1. CASE s = {2, n}
        <4>1. s \cap (8..15) = {n}
          <5>1. 2 \notin 8..15 /\ n \in 8..15
            BY <1>1
          <5>2. \A k : k \in s \cap (8..15) <=> k = n
            BY <5>1, <3>1, Zenon
          <5> QED BY <5>2, Zenon
        <4>2. {k \in s \cap (8..15) : \A m \in s \cap (8..15) : k <= m} = {n}
          BY <4>1
        <4> QED BY <4>2, <3>1, <1>1 DEF Eoi
      <3>2. CASE s = {2}
        BY <3>2 DEF Eoi
      <3> QED BY <2>1, <3>1, <3>2
    <2>3. Eoi(0..7, {2}) = {}
      BY DEF Eoi
    <2> QED BY <1>1, <2>2, <2>3 DEF pic_send_eoi
  <1>2. CASE ~(n >= 8)
    <2>1. (s = {n} \/ s = {}) /\ n \in 0..7
      BY <1>2 DEF InService
    <2>2. Eoi(0..7, s) = {}
      BY <2>1 DEF Eoi
    <2> QED BY <1>2, <2>2 DEF pic_send_eoi
  <1> QED BY <1>1, <1>2

LEMMA SendEoiStep == ASSUME IInv, SendEoi PROVE IInv'
  <1>1. /\ TypeOK /\ BootInv /\ FrameInv /\ ServiceInv
        /\ frames[running] # <<>> /\ Top.at = "eoi"
        /\ frames' = Moved("return") /\ isr' = pic_send_eoi(Top.irq, isr)
        /\ UNCHANGED <<booted, idt, offset, irr, enabled, running, halted, critical,
                       timer_ticks, end_tick>>
    BY DEF IInv, SendEoi, setup, pit
  <1>2. /\ Top \in Frame
        /\ frames' \in [Threads -> Seq(Frame)]
        /\ Len(frames'[running]) = 1
        /\ frames'[running][1] = [Top EXCEPT !.at = "return"]
        /\ \A t \in Threads \ {running} : frames'[t] = frames[t]
    BY <1>1, FrameMoves DEF Stages
  <1>3. isr' = {}
    <2>1. Top.irq \in 0..15 /\ isr \in InService(Top.irq)
      BY <1>1, <1>2 DEF ServiceInv, Frame
    <2> QED BY <1>1, <2>1, EoiEnds
  <1>4. Top'.at = "return"
    BY <1>1, <1>2 DEF Top, Frame
  <1>5. TypeOK'
    BY <1>1, <1>2, <1>3, FramesTyped DEF TypeOK
  <1>6. BootInv'
    BY <1>1 DEF BootInv
  <1>7. FrameInv'
    BY <1>1, <1>2 DEF FrameInv
  <1>8. ServiceInv'
    BY <1>3, <1>4, <1>1, <1>2 DEF ServiceInv
  <1> QED BY <1>5, <1>6, <1>7, <1>8 DEF IInv

(* Back to the program: its stack is empty again.                          *)
LEMMA IretStep == ASSUME IInv, Iret PROVE IInv'
  <1>1. /\ TypeOK /\ BootInv /\ FrameInv /\ ServiceInv
        /\ frames[running] # <<>> /\ Top.at = "return"
        /\ frames' = [frames EXCEPT ![running] = SubSeq(@, 1, Len(@) - 1)]
        /\ enabled' = Top.flag
        /\ UNCHANGED <<booted, idt, offset, irr, isr, running, halted, critical,
                       timer_ticks, end_tick>>
    BY DEF IInv, Iret, setup, pit, pic
  <1>2. /\ running \in Threads /\ frames \in [Threads -> Seq(Frame)]
        /\ frames[running] \in Seq(Frame) /\ Len(frames[running]) = 1
    BY <1>1, OneFrame DEF TypeOK, FrameInv
  <1>3. Top \in Frame
    BY <1>1, OneFrame
  <1>4. SubSeq(frames[running], 1, Len(frames[running]) - 1) = <<>>
    BY <1>2
  <1>5. /\ frames' \in [Threads -> Seq(Frame)] /\ frames'[running] = <<>>
        /\ \A t \in Threads \ {running} : frames'[t] = frames[t]
    BY <1>1, <1>2, <1>4
  <1>6. isr' = {} /\ booted = "done"
    BY <1>1 DEF ServiceInv, BootInv
  <1>7. TypeOK'
    BY <1>1, <1>3, <1>5, FramesTyped DEF TypeOK, Frame
  <1>8. BootInv'
    BY <1>1, <1>6 DEF BootInv
  <1>9. FrameInv'
    BY <1>1, <1>5 DEF FrameInv
  <1>10. ServiceInv'
    BY <1>1, <1>5, <1>6 DEF ServiceInv
  <1> QED BY <1>7, <1>8, <1>9, <1>10 DEF IInv

(* The steps of programs leave the stacks and the controllers alone.       *)
LEMMA ProgramStep ==
  ASSUME IInv, booted = "done", frames[running] = <<>>,
         UNCHANGED <<booted, idt, offset, irr, isr, running, frames>>,
         enabled' \in BOOLEAN, halted' \in BOOLEAN, critical' \subseteq Threads,
         timer_ticks' \in Nat, end_tick' \in [Threads -> Nat \union {-1}]
  PROVE  IInv'
  <1>1. TypeOK'
    BY DEF IInv, TypeOK
  <1>2. BootInv' /\ FrameInv' /\ ServiceInv'
    BY DEF IInv, BootInv, FrameInv, ServiceInv
  <1> QED BY <1>1, <1>2 DEF IInv

LEMMA ProgramSteps ==
  ASSUME IInv,
         \/ isr_handler \/ disable_interrupts \/ enable_interrupts
         \/ \E ticks \in 0..MaxSleep : pit_sleep(ticks)
         \/ pit_sleep_returns
  PROVE  IInv'
  <1> USE DEF InProgram, Open, setup, pic, pit
  <1>1. TypeOK /\ running \in Threads
    BY DEF IInv, TypeOK
  <1>2. CASE isr_handler
    BY <1>1, <1>2, ProgramStep DEF isr_handler, TypeOK
  <1>3. CASE disable_interrupts
    BY <1>1, <1>3, ProgramStep DEF disable_interrupts, TypeOK
  <1>4. CASE enable_interrupts
    BY <1>1, <1>4, ProgramStep DEF enable_interrupts, TypeOK
  <1>5. ASSUME NEW ticks \in 0..MaxSleep, pit_sleep(ticks) PROVE IInv'
    <2>1. timer_ticks + ticks \in Nat
      <3>1. MaxSleep \in Nat /\ timer_ticks \in Nat
        BY <1>1, InterruptsAssumption DEF TypeOK
      <3> QED BY <3>1
    <2>2. end_tick' \in [Threads -> Nat \union {-1}]
      BY <1>1, <1>5, <2>1 DEF pit_sleep, TypeOK
    <2> QED BY <1>1, <1>5, <2>2, ProgramStep DEF pit_sleep, TypeOK
  <1>6. CASE pit_sleep_returns
    BY <1>1, <1>6, ProgramStep DEF pit_sleep_returns, TypeOK
  <1> QED BY <1>2, <1>3, <1>4, <1>5, <1>6

LEMMA NextInv == IInv /\ [Next]_vars => IInv'
  <1> SUFFICES ASSUME IInv, [Next]_vars PROVE IInv'
    OBVIOUS
  <1>1. CASE interrupts_init
    BY <1>1, BootStep
  <1>2. CASE \E n \in Lines : Raise(n) \/ Accept(n) \/ AcceptSpurious(n)
    BY <1>2, RaiseStep, AcceptStep, AcceptSpuriousStep
  <1>3. CASE Stub
    BY <1>3, TimerEoiStep, TimerSwitchStep, IrqHandlerStep, SendEoiStep, IretStep DEF Stub
  <1>4. CASE \/ isr_handler \/ disable_interrupts \/ enable_interrupts
             \/ \E ticks \in 0..MaxSleep : pit_sleep(ticks)
             \/ pit_sleep_returns
    BY <1>4, ProgramSteps
  <1>5. CASE UNCHANGED vars
    BY <1>5 DEF IInv, TypeOK, BootInv, FrameInv, ServiceInv, Top, vars, setup
  <1> QED BY <1>1, <1>2, <1>3, <1>4, <1>5 DEF Next

(* IInv is inductive.                                                      *)
THEOREM InterruptsInvariant == Spec => []IInv
  BY InitInv, NextInv, PTL DEF Spec

-------------------------------------------------------------------------------

(* Every variable keeps its type.                                          *)
THEOREM InterruptsTypeOK == Spec => []TypeOK
  <1>1. IInv => TypeOK
    BY DEF IInv
  <1> QED BY <1>1, InterruptsInvariant, PTL

(* Whatever the stubs' addresses are, interrupts are on only when every    *)
(* exception and every line has its own stub.                              *)
THEOREM GatesAreReady == Spec => []GatesReady
  <1>1. IInv => GatesReady
    <2> SUFFICES ASSUME IInv, enabled PROVE GatesReady
      BY DEF GatesReady
    <2>1. TypeOK /\ BootInv /\ booted = "done"
      BY DEF IInv, BootInv
    <2>2. \A v \in 0..31 : idt[v].flags = InterruptGate /\ Target(v) = Stubs[v]
      BY <2>1, GateLeads
    <2>3. ASSUME NEW n \in 0..15
          PROVE  /\ idt[Vector(n)].flags = InterruptGate
                 /\ \E v \in 32..47 : Target(Vector(n)) = Stubs[v] /\ IrqOf(v) = n
      <3>1. Vector(n) = 32 + n /\ 32 + n \in 32..47 /\ Target(Vector(n)) = Stubs[32 + n]
        BY <2>1, VectorLeads
      <3>2. idt[Vector(n)].flags = InterruptGate
        BY <2>1, <3>1, GateLeads
      <3>3. IrqOf(32 + n) = n
        BY DEF IrqOf
      <3> QED BY <3>1, <3>2, <3>3
    <2> QED BY <2>2, <2>3 DEF GatesReady
  <1> QED BY <1>1, InterruptsInvariant, PTL

(* No handler runs inside another, on any stack.                           *)
THEOREM NoHandlerNests == Spec => []HandlersDoNotNest
  <1>1. IInv => HandlersDoNotNest
    BY DEF IInv, FrameInv, HandlersDoNotNest
  <1> QED BY <1>1, InterruptsInvariant, PTL

(* Whenever a program runs the controllers have nothing in service,        *)
(* however many spurious interrupts there were and whoever was resumed.    *)
THEOREM EveryInterruptAcknowledged == Spec => []AllAcknowledged
  <1>1. IInv => AllAcknowledged
    BY DEF IInv, ServiceInv, AllAcknowledged
  <1> QED BY <1>1, InterruptsInvariant, PTL
===============================================================================
