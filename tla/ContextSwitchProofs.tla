-------------------------- MODULE ContextSwitchProofs --------------------------
(***************************************************************************)
(* Theorems about ContextSwitch, for every set of processes, every size of *)
(* their stacks and every order of switches.                               *)
(***************************************************************************)
EXTENDS ContextSwitch, TLAPS

--------------------------------------------------------------------------------

(* What the proof knows of each process, by what becomes of it.            *)

(* What it had pushed when it lost the CPU is on its stack.                *)
Kept(p) ==
  \A i \in before[p].reg.rsp[2] .. StackWords : mem[<<p, i>>] = before[p].stack[i]

(* Where its rsp is when it has the CPU back.                              *)
Resumes(p) ==
  IF way = "call" /\ before[p].to # Entry THEN Below(before[p].reg.rsp) ELSE before[p].reg.rsp

(* Its registers are in its PCB.                                           *)
Saved(p) ==
  /\ pcb[p].rax = before[p].reg.rax /\ pcb[p].rbx = before[p].reg.rbx
  /\ pcb[p].rdi = before[p].reg.rdi /\ pcb[p].rsi = before[p].reg.rsi
  /\ pcb[p].rip = before[p].to
  /\ 1 <= pcb[p].rsp[2] /\ pcb[p].rsp[2] <= before[p].reg.rsp[2]
  /\ pcb[p].rsp = Resumes(p)
  /\ way = "irq" => before[p].reg.flags = On

(* Its registers are on its stack, from sp on.                             *)
Framed(p, sp) ==
  /\ sp[1] = p /\ sp[2] + 11 = before[p].reg.rsp[2]
  /\ mem[<<p, sp[2]>>] = before[p].reg.rdi
  /\ mem[<<p, sp[2] + 1>>] = before[p].reg.rsi
  /\ mem[<<p, sp[2] + 2>>] = before[p].reg.rbx
  /\ mem[<<p, sp[2] + 3>>] = before[p].reg.rax
  /\ mem[<<p, sp[2] + 6>>] = before[p].to
  /\ mem[<<p, sp[2] + 8>>] = before[p].reg.flags
  /\ mem[<<p, sp[2] + 9>>] = before[p].reg.rsp

Waits(p) == Kept(p) /\ IF way = "call" THEN Saved(p) ELSE Framed(p, pcb[p].rsp)

(* What is known of the one that has the CPU, or is being given it.        *)
Loading == {"load", "rdi", "push", "rsi"}
Running == IF pc \in Loading THEN reg.rsi ELSE Me

RegistersOf(p) ==
  /\ reg.rax = before[p].reg.rax /\ reg.rbx = before[p].reg.rbx
  /\ reg.rdi = before[p].reg.rdi /\ reg.rsi = before[p].reg.rsi

Runs(p) ==
  /\ p \in Procs /\ Kept(p)
  /\ pc \in {"handler", "restore", "iretq"} => way = "irq"
  /\ pc = "save" =>
       /\ way = "call" /\ RegistersOf(p) /\ reg.rdi = p /\ reg.rsi \in Procs \ {p}
       /\ reg.rsp[2] >= 1 /\ reg.rsp[2] + 1 = before[p].reg.rsp[2] /\ mem[reg.rsp] = before[p].to
       /\ before[p].to \in Sites
  /\ pc = "load" =>
       Me = NULL \/ (Me \in Procs /\ way = "call" /\ reg.rsp[2] <= before[Me].reg.rsp[2])
  /\ pc \in Loading => Saved(p)
  /\ pc \in {"rdi", "push", "rsi"} => reg.rax = before[p].reg.rax /\ reg.rbx = before[p].reg.rbx
  /\ pc \in {"push", "rsi"} => reg.rdi = before[p].reg.rdi
  /\ pc \in {"rdi", "push"} => reg.rsp = pcb[p].rsp
  /\ pc = "rsi" => reg.rsp = Below(pcb[p].rsp)
  /\ pc \in {"rsi", "ret"} => mem[reg.rsp] = before[p].to
  /\ pc = "ret" =>
       /\ RegistersOf(p) /\ reg.rsp[2] + 1 <= before[p].reg.rsp[2]
       /\ Above(reg.rsp) = Resumes(p)
       /\ way = "irq" => before[p].reg.flags = On
  /\ pc = "program" =>
       /\ RegistersOf(p) /\ rip = before[p].to
       /\ reg.rsp[2] <= before[p].reg.rsp[2]
       /\ reg.rsp = Resumes(p)
       /\ reg.flags = IF way = "call" THEN On ELSE before[p].reg.flags
  /\ pc \in {"handler", "restore"} => Framed(p, reg.rsp)
  /\ pc = "iretq" =>
       /\ RegistersOf(p) /\ OnStack(0) = before[p].to /\ OnStack(3) = before[p].reg.rsp
       /\ OnStack(2) = before[p].reg.flags

Typed ==
  /\ way \in {"call", "irq"}
  /\ pc \in {"program", "save", "load", "rdi", "push", "rsi", "ret",
             "handler", "restore", "iretq"}
  /\ rip \in Words
  /\ reg \in Registers
  /\ mem \in [Addresses -> Words \union Addresses]
  /\ pcb \in [Procs -> [rax : Words, rbx : Words, rdi : Words, rsi : Words,
                        rsp : Addresses, rip : Sites \union {Entry}, flags : Flags]]
  /\ \A p \in Procs : pcb[p].rsp[1] = p
  /\ DOMAIN before = Procs
  /\ \A p \in Procs :
       /\ before[p].reg.rax \in Words /\ before[p].reg.rbx \in Words
       /\ before[p].reg.rdi \in Words /\ before[p].reg.rsi \in Words
       /\ before[p].reg.rsp \in Addresses /\ before[p].reg.rsp[1] = p
       /\ before[p].reg.flags \in Flags
       /\ before[p].to \in Sites \union {Entry}

HasCpu(n) == Running = n /\ Runs(n) /\ \A p \in Procs \ {n} : Waits(p)

IInv == Typed /\ \E n \in Procs : HasCpu(n)

--------------------------------------------------------------------------------

LEMMA Address ==
  ASSUME NEW a \in Addresses
  PROVE  /\ a[1] \in Stacks /\ a[2] \in 0 .. StackWords /\ a = <<a[1], a[2]>>
         /\ a[2] \in Nat /\ a[2] <= StackWords
  BY ContextSwitchAssumption DEF Addresses

LEMMA AnAddress ==
  ASSUME NEW p \in Stacks, NEW i \in 0 .. StackWords
  PROVE  <<p, i>> \in Addresses /\ <<p, i>>[1] = p /\ <<p, i>>[2] = i
  BY DEF Addresses

LEMMA NullIsNoProcess == NULL \notin Procs /\ StackWords \in Nat /\ StackWords > 11
  BY ContextSwitchAssumption

(* What a frame is made of.                                                *)
LEMMA FrameIs ==
  ASSUME NEW r, NEW to
  PROVE  /\ Len(Frame(r, to)) = 11
         /\ Frame(r, to)[2] = r.rsp /\ Frame(r, to)[3] = r.flags /\ Frame(r, to)[5] = to /\ Frame(r, to)[8] = r.rax
         /\ Frame(r, to)[9] = r.rbx /\ Frame(r, to)[10] = r.rsi /\ Frame(r, to)[11] = r.rdi
         /\ \A i \in 1 .. 11 : Frame(r, to)[i] \in {Other, r.rsp, r.flags, to, r.rax, r.rbx, r.rsi, r.rdi}
  <1> DEFINE s == <<Other, r.rsp, r.flags, Other, to, Other, Other, r.rax, r.rbx, r.rsi, r.rdi>>
  <1>1. /\ Len(s) = 11 /\ s[2] = r.rsp /\ s[5] = to /\ s[8] = r.rax
        /\ s[9] = r.rbx /\ s[10] = r.rsi /\ s[11] = r.rdi
        /\ s[1] = Other /\ s[3] = r.flags /\ s[4] = Other /\ s[6] = Other /\ s[7] = Other
    OBVIOUS
  <1>2. Frame(r, to) = s
    BY DEF Frame
  <1> HIDE DEF s
  <1> QED BY <1>1, <1>2

(* What is on the stack after one is pushed.                               *)
FrameOn(after, m, p, top, r, to) ==
  /\ after = [b \in Addresses |-> after[b]]
  /\ \A b \in Addresses : (b[1] # p \/ b[2] >= top) => after[b] = m[b]
  /\ \A b \in Addresses :
       after[b] \in {m[b], Other, r.rsp, r.flags, to, r.rax, r.rbx, r.rsi, r.rdi}
  /\ after[<<p, top - 11>>] = r.rdi /\ after[<<p, top - 10>>] = r.rsi
  /\ after[<<p, top - 9>>] = r.rbx /\ after[<<p, top - 8>>] = r.rax
  /\ after[<<p, top - 5>>] = to /\ after[<<p, top - 3>>] = r.flags
  /\ after[<<p, top - 2>>] = r.rsp

LEMMA PushedIs ==
  ASSUME NEW m, NEW p \in Stacks, NEW top \in 11 .. StackWords, NEW r, NEW to,
         NEW after, after = Pushed(m, <<p, top>>, Frame(r, to))
  PROVE  FrameOn(after, m, p, top, r, to)
  <1> DEFINE f == Frame(r, to)
  <1>1. StackWords \in Nat /\ top \in Nat
    BY ContextSwitchAssumption
  <1>2. Len(f) = 11
    BY FrameIs
  <1>3. after = [b \in Addresses |->
                  IF b[1] = p /\ b[2] < top /\ top <= b[2] + 11 THEN f[top - b[2]] ELSE m[b]]
    BY <1>2 DEF Pushed
  <1>4. ASSUME NEW i \in 1 .. 11
        PROVE  after[<<p, top - i>>] = f[i]
    <2>1. <<p, top - i>> \in Addresses
      BY <1>1, AnAddress
    <2>2. top - (top - i) = i /\ top - i < top /\ top <= (top - i) + 11
      BY <1>1
    <2> HIDE DEF f
    <2> QED BY <1>3, <2>1, <2>2
  <1>5. ASSUME NEW b \in Addresses
        PROVE  /\ (b[1] # p \/ b[2] >= top) => after[b] = m[b]
               /\ after[b] \in {m[b], Other, r.rsp, r.flags, to, r.rax, r.rbx, r.rsi, r.rdi}
    <2>1. b[2] \in Nat
      BY Address
    <2> HIDE DEF f
    <2>2. CASE b[1] = p /\ b[2] < top /\ top <= b[2] + 11
      <3>1. after[b] = f[top - b[2]] /\ top - b[2] \in 1 .. 11
        BY <1>1, <1>3, <2>1, <2>2
      <3>2. f[top - b[2]] \in {Other, r.rsp, r.flags, to, r.rax, r.rbx, r.rsi, r.rdi}
        BY <3>1, FrameIs DEF f
      <3> QED BY <1>1, <2>1, <2>2, <3>1, <3>2
    <2>3. CASE ~(b[1] = p /\ b[2] < top /\ top <= b[2] + 11)
      BY <1>3, <2>3, <2>1, <1>1
    <2> QED BY <2>2, <2>3
  <1>6. after = [b \in Addresses |-> after[b]]
    BY <1>3
  <1>7. /\ f[2] = r.rsp /\ f[3] = r.flags /\ f[5] = to /\ f[8] = r.rax /\ f[9] = r.rbx /\ f[10] = r.rsi
        /\ f[11] = r.rdi
    BY FrameIs
  <1> HIDE DEF f
  <1>8. /\ after[<<p, top - 11>>] = r.rdi /\ after[<<p, top - 10>>] = r.rsi
        /\ after[<<p, top - 9>>] = r.rbx /\ after[<<p, top - 8>>] = r.rax
        /\ after[<<p, top - 5>>] = to /\ after[<<p, top - 3>>] = r.flags
        /\ after[<<p, top - 2>>] = r.rsp
    BY <1>4, <1>7
  <1> QED BY <1>5, <1>6, <1>8 DEF FrameOn

(* A process that waits goes on waiting as long as nobody touches its PCB  *)
(* and its stack.                                                          *)
LEMMA WaitsStill ==
  ASSUME Typed, NEW p \in Procs, Waits(p),
         before'[p] = before[p], pcb'[p] = pcb[p], way' = way,
         \A i \in 0 .. StackWords : mem'[<<p, i>>] = mem[<<p, i>>]
  PROVE  Waits(p)'
  <1>1. before[p].reg.rsp[2] \in 0 .. StackWords /\ pcb[p].rsp[2] \in 0 .. StackWords
    BY Address DEF Typed
  <1>2. Kept(p)'
    BY <1>1 DEF Waits, Kept
  <1>3. CASE way = "call"
    <2>1. Saved(p)'
      BY <1>3 DEF Waits, Saved, Resumes
    <2> QED BY <1>2, <1>3, <2>1 DEF Waits
  <1>4. CASE way # "call"
    <2>1. Framed(p, pcb[p].rsp)
      BY <1>4 DEF Waits
    <2> DEFINE i == pcb[p].rsp[2]
    <2>2. i \in Nat /\ StackWords \in Nat /\ i + 11 <= StackWords
      BY <1>1, <2>1, NullIsNoProcess DEF Framed
    <2>3. /\ i \in 0 .. StackWords /\ i + 1 \in 0 .. StackWords /\ i + 2 \in 0 .. StackWords
          /\ i + 3 \in 0 .. StackWords /\ i + 6 \in 0 .. StackWords
          /\ i + 8 \in 0 .. StackWords /\ i + 9 \in 0 .. StackWords
      BY <2>2
    <2>4. Framed(p, pcb[p].rsp)'
      BY <2>1, <2>3 DEF Framed
    <2> QED BY <1>2, <1>4, <2>4 DEF Waits
  <1> QED BY <1>3, <1>4

(* The frame that process_create builds is one that irq_common_stub takes  *)
(* apart.                                                                  *)
LEMMA StartsWell == Init => IInv
  <1> SUFFICES ASSUME Init PROVE IInv
    OBVIOUS
  <1>1. NULL \notin Procs /\ StackWords \in Nat /\ StackWords > 11
    BY NullIsNoProcess
  <1>2. PICK first \in Procs, old \in Values :
          /\ way \in {"call", "irq"} /\ pc = "load" /\ rip = Entry
          /\ reg = [rax |-> old, rbx |-> old, rdi |-> NULL, rsi |-> first,
                    rsp |-> StackTop(NULL), flags |-> On]
          /\ mem = [a \in Addresses |->
                       IF a[1] = NULL THEN old
                       ELSE Pushed([b \in Addresses |-> old], StackTop(a[1]), NewStack(a[1]))[a]]
          /\ pcb = [p \in Procs |-> NewContext(p, old)]
          /\ before = [p \in Procs |->
               [reg |-> IF way = "call" \/ p = first THEN NewContext(p, old) ELSE Fresh(p),
                to |-> Entry, stack |-> StackOf(p, mem)]]
    BY DEF Init
  <1> DEFINE bottom == StackWords - 11
             blank == [b \in Addresses |-> old]
             Bottom(p) == <<p, bottom>>
  <1>3. ASSUME NEW p
        PROVE  NewContext(p, old) = [rax |-> old, rbx |-> old, rdi |-> old, rsi |-> old,
                                     rsp |-> Bottom(p), rip |-> Entry, flags |-> On]
    <2>1. Len(NewStack(p)) = 11
      BY FrameIs DEF NewStack
    <2> QED BY <2>1 DEF NewContext
  <1>4. bottom \in 1 .. StackWords /\ StackWords \in 11 .. StackWords /\ bottom + 11 = StackWords
    BY <1>1
  <1>5. old \in Words /\ Zero \in Words /\ Other \in Words /\ Entry \in Words /\ NULL \in Words
        /\ first \in Words /\ On \in Words /\ On \in Flags
    BY DEF Words, Stacks, Flags
  <1>6. ASSUME NEW p \in Procs
        PROVE  /\ p \in Stacks /\ StackTop(p) \in Addresses /\ Bottom(p) \in Addresses
               /\ Bottom(p)[1] = p /\ Bottom(p)[2] = bottom
               /\ StackTop(p)[1] = p /\ StackTop(p)[2] = StackWords
    BY <1>4, AnAddress DEF Stacks, StackTop
  <1>7. ASSUME NEW p \in Procs, NEW i \in 0 .. StackWords
        PROVE  mem[<<p, i>>] = Pushed(blank, StackTop(p), NewStack(p))[<<p, i>>]
    <2>1. <<p, i>> \in Addresses /\ <<p, i>>[1] = p /\ p # NULL
      BY <1>1, <1>6, AnAddress
    <2> QED BY <1>2, <2>1
  <1>8. ASSUME NEW p \in Procs
        PROVE  LET after == Pushed(blank, StackTop(p), NewStack(p))
               IN  /\ \A b \in Addresses : (after[b] \in {old, Other, StackTop(p), On, Entry, Zero})
                   /\ after[<<p, bottom>>] = Zero /\ after[<<p, bottom + 1>>] = Zero
                   /\ after[<<p, bottom + 2>>] = Zero /\ after[<<p, bottom + 3>>] = Zero
                   /\ after[<<p, bottom + 6>>] = Entry /\ after[<<p, bottom + 8>>] = On
                   /\ after[<<p, bottom + 9>>] = StackTop(p)
    <2> DEFINE r == Fresh(p)
               after == Pushed(blank, <<p, StackWords>>, Frame(r, Entry))
    <2>1. /\ \A b \in Addresses :
               after[b] \in {blank[b], Other, r.rsp, r.flags, Entry, r.rax, r.rbx, r.rsi, r.rdi}
          /\ after[<<p, StackWords - 11>>] = r.rdi /\ after[<<p, StackWords - 10>>] = r.rsi
          /\ after[<<p, StackWords - 9>>] = r.rbx /\ after[<<p, StackWords - 8>>] = r.rax
          /\ after[<<p, StackWords - 5>>] = Entry /\ after[<<p, StackWords - 3>>] = r.flags
          /\ after[<<p, StackWords - 2>>] = r.rsp
      <3>1. p \in Stacks /\ StackWords \in 11 .. StackWords
        BY <1>4, <1>6
      <3>2. after = Pushed(blank, <<p, StackWords>>, Frame(r, Entry))
        OBVIOUS
      <3> HIDE DEF r, blank, after
      <3>3. FrameOn(after, blank, p, StackWords, r, Entry)
        BY <3>1, <3>2, PushedIs
      <3> QED BY <3>3 DEF FrameOn
    <2>2. /\ r.rax = Zero /\ r.rbx = Zero /\ r.rdi = Zero /\ r.rsi = Zero
          /\ r.rsp = StackTop(p) /\ r.flags = On
      BY DEF Fresh
    <2>3. after = Pushed(blank, StackTop(p), NewStack(p))
      BY DEF NewStack, StackTop
    <2>4. /\ StackWords - 10 = bottom + 1 /\ StackWords - 9 = bottom + 2
          /\ StackWords - 8 = bottom + 3 /\ StackWords - 5 = bottom + 6
          /\ StackWords - 3 = bottom + 8 /\ StackWords - 2 = bottom + 9
      BY <1>1
    <2>5. \A b \in Addresses : blank[b] = old
      OBVIOUS
    <2> HIDE DEF r, after, blank
    <2> QED BY <2>1, <2>2, <2>3, <2>4, <2>5
  <1> HIDE DEF blank, bottom, Bottom
  <1>9. mem \in [Addresses -> Words \union Addresses]
    <2>1. ASSUME NEW a \in Addresses PROVE mem[a] \in Words \union Addresses
      <3>1. CASE a[1] = NULL
        BY <1>2, <1>5, <3>1
      <3>2. CASE a[1] # NULL
        <4>1. a[1] \in Procs /\ a[2] \in 0 .. StackWords /\ a = <<a[1], a[2]>>
          BY <3>2, Address DEF Stacks
        <4>2. mem[a] = Pushed(blank, StackTop(a[1]), NewStack(a[1]))[a]
          BY <1>7, <4>1
        <4>3. mem[a] \in {old, Other, StackTop(a[1]), On, Entry, Zero}
          BY <1>8, <4>1, <4>2
        <4>4. StackTop(a[1]) \in Addresses
          BY <1>6, <4>1
        <4> QED BY <1>5, <4>3, <4>4
      <3> QED BY <3>1, <3>2
    <2>2. DOMAIN mem = Addresses /\ mem = [a \in Addresses |-> mem[a]]
      BY <1>2
    <2> QED BY <2>1, <2>2
  <1>10. ASSUME NEW p \in Procs
         PROVE  /\ pcb[p] \in [rax : Words, rbx : Words, rdi : Words, rsi : Words,
                               rsp : Addresses, rip : Sites \union {Entry}, flags : Flags]
                /\ pcb[p].rax = old /\ pcb[p].rbx = old /\ pcb[p].rdi = old /\ pcb[p].rsi = old
                /\ pcb[p].rip = Entry /\ pcb[p].rsp = Bottom(p)
                /\ before[p].to = Entry /\ before[p].reg.flags = On
                /\ \A i \in 0 .. StackWords : before[p].stack[i] = mem[<<p, i>>]
                /\ (way = "call" \/ p = first) => before[p].reg = pcb[p]
                /\ ~(way = "call" \/ p = first) =>
                      /\ before[p].reg.rax = Zero /\ before[p].reg.rbx = Zero
                      /\ before[p].reg.rdi = Zero /\ before[p].reg.rsi = Zero
                      /\ before[p].reg.rsp = StackTop(p)
    <2>1. /\ pcb[p] = NewContext(p, old) /\ before[p].to = Entry
          /\ before[p].stack = StackOf(p, mem)
          /\ before[p].reg = IF way = "call" \/ p = first THEN NewContext(p, old) ELSE Fresh(p)
      BY <1>2
    <2>2. NewContext(p, old) = [rax |-> old, rbx |-> old, rdi |-> old, rsi |-> old,
                                rsp |-> Bottom(p), rip |-> Entry, flags |-> On]
      BY <1>3
    <2>3. Bottom(p) \in Addresses
      BY <1>6
    <2>4. Fresh(p) = [rax |-> Zero, rbx |-> Zero, rdi |-> Zero, rsi |-> Zero,
                      rsp |-> StackTop(p), flags |-> On]
      BY DEF Fresh
    <2>5. \A i \in 0 .. StackWords : StackOf(p, mem)[i] = mem[<<p, i>>]
      BY DEF StackOf
    <2> QED BY <1>5, <2>1, <2>2, <2>3, <2>4, <2>5
  <1>11. Typed
    <2>1. reg \in Registers
      <3>1. StackTop(NULL) \in Addresses
        BY <1>4, AnAddress DEF Stacks, StackTop
      <3> QED BY <1>2, <1>5, <3>1 DEF Registers
    <2>2. pcb \in [Procs -> [rax : Words, rbx : Words, rdi : Words, rsi : Words,
                             rsp : Addresses, rip : Sites \union {Entry}, flags : Flags]]
      <3>1. DOMAIN pcb = Procs /\ pcb = [p \in Procs |-> pcb[p]]
        BY <1>2
      <3>2. \A p \in Procs : pcb[p] \in [rax : Words, rbx : Words, rdi : Words, rsi : Words,
                                         rsp : Addresses, rip : Sites \union {Entry},
                                         flags : Flags]
        BY <1>10
      <3> QED BY <3>1, <3>2
    <2>3. ASSUME NEW p \in Procs
          PROVE  /\ pcb[p].rsp[1] = p
                 /\ before[p].reg.rax \in Words /\ before[p].reg.rbx \in Words
                 /\ before[p].reg.rdi \in Words /\ before[p].reg.rsi \in Words
                 /\ before[p].reg.rsp \in Addresses /\ before[p].reg.rsp[1] = p
                 /\ before[p].to \in Sites \union {Entry}
                 /\ before[p].reg.flags \in Flags
      <3>1. CASE way = "call" \/ p = first
        BY <1>5, <1>6, <1>10, <3>1
      <3>2. CASE ~(way = "call" \/ p = first)
        BY <1>5, <1>6, <1>10, <3>2
      <3> QED BY <3>1, <3>2
    <2>4. DOMAIN before = Procs
      BY <1>2
    <2> QED BY <1>2, <1>5, <1>9, <2>1, <2>2, <2>3, <2>4 DEF Typed
  <1>12. ASSUME NEW p \in Procs PROVE Kept(p)
    <2>1. before[p].reg.rsp[2] \in 0 .. StackWords
      BY <1>11, Address DEF Typed
    <2> QED BY <1>1, <1>10, <2>1 DEF Kept
  <1>13. ASSUME NEW p \in Procs, way = "call" \/ p = first PROVE Saved(p)
    BY <1>1, <1>4, <1>6, <1>10, <1>13 DEF Saved, Resumes
  <1>14. ASSUME NEW p \in Procs, ~(way = "call" \/ p = first) PROVE Framed(p, pcb[p].rsp)
    <2>1. /\ pcb[p].rsp[1] = p /\ pcb[p].rsp[2] = bottom /\ before[p].reg.rsp = StackTop(p)
          /\ StackTop(p)[2] = StackWords
      BY <1>6, <1>10, <1>14
    <2>2. /\ bottom \in 0 .. StackWords /\ bottom + 1 \in 0 .. StackWords
          /\ bottom + 2 \in 0 .. StackWords /\ bottom + 3 \in 0 .. StackWords
          /\ bottom + 6 \in 0 .. StackWords /\ bottom + 8 \in 0 .. StackWords
          /\ bottom + 9 \in 0 .. StackWords
      BY <1>1 DEF bottom
    <2>3. /\ mem[<<p, bottom>>] = Zero /\ mem[<<p, bottom + 1>>] = Zero
          /\ mem[<<p, bottom + 2>>] = Zero /\ mem[<<p, bottom + 3>>] = Zero
          /\ mem[<<p, bottom + 6>>] = Entry /\ mem[<<p, bottom + 8>>] = On
          /\ mem[<<p, bottom + 9>>] = StackTop(p)
      BY <1>7, <1>8, <2>2
    <2>4. bottom + 11 = StackWords
      BY <1>4
    <2> QED BY <1>10, <1>14, <2>1, <2>3, <2>4 DEF Framed
  <1>15. Running = first
    BY <1>2 DEF Running, Loading
  <1>16. Runs(Running)
    <2>1. Me = NULL
      BY <1>2 DEF Me, StackTop
    <2> QED BY <1>2, <1>12, <1>13, <1>15, <2>1 DEF Runs, Loading
  <1>17. \A p \in Procs \ {Running} : Waits(p)
    BY <1>12, <1>13, <1>14, <1>15 DEF Waits
  <1> QED BY <1>11, <1>15, <1>16, <1>17 DEF IInv, HasCpu

(* Writing one word of a stack.                                            *)
LEMMA WriteWord ==
  ASSUME Typed, NEW a \in Addresses, NEW w \in Words \union Addresses,
         mem' = [mem EXCEPT ![a] = w]
  PROVE  /\ mem' \in [Addresses -> Words \union Addresses]
         /\ mem'[a] = w
         /\ \A p \in Stacks, i \in 0 .. StackWords :
              (p # a[1] \/ i # a[2]) => mem'[<<p, i>>] = mem[<<p, i>>]
  <1>1. mem \in [Addresses -> Words \union Addresses]
    BY DEF Typed
  <1>2. ASSUME NEW p \in Stacks, NEW i \in 0 .. StackWords, p # a[1] \/ i # a[2]
        PROVE  mem'[<<p, i>>] = mem[<<p, i>>]
    <2>1. <<p, i>> \in Addresses /\ <<p, i>> # a
      BY <1>2, AnAddress
    <2> QED BY <1>1, <2>1
  <1> QED BY <1>1, <1>2

(* The steps that change neither a PCB nor who lost the CPU where.         *)
LEMMA TypedStill ==
  ASSUME Typed, UNCHANGED <<way, pcb, before>>,
         pc' \in {"program", "save", "load", "rdi", "push", "rsi", "ret",
                  "handler", "restore", "iretq"},
         rip' \in Words, reg' \in Registers,
         mem' \in [Addresses -> Words \union Addresses]
  PROVE  Typed'
  BY DEF Typed

LEMMA OthersWait ==
  ASSUME Typed, NEW n \in Procs, \A p \in Procs \ {n} : Waits(p), UNCHANGED way,
         \A p \in Procs \ {n} :
           /\ before'[p] = before[p] /\ pcb'[p] = pcb[p]
           /\ \A i \in 0 .. StackWords : mem'[<<p, i>>] = mem[<<p, i>>]
  PROVE  \A p \in Procs \ {n} : Waits(p)'
  BY WaitsStill

LEMMA KeptStill ==
  ASSUME Typed, NEW p \in Procs, Kept(p), before'[p] = before[p],
         \A i \in before[p].reg.rsp[2] .. StackWords : mem'[<<p, i>>] = mem[<<p, i>>]
  PROVE  Kept(p)'
  BY DEF Kept

LEMMA SavedStill ==
  ASSUME NEW p \in Procs, Saved(p), before'[p] = before[p], pcb'[p] = pcb[p], way' = way
  PROVE  Saved(p)'
  BY DEF Saved, Resumes

LEMMA RegistersAre ==
  ASSUME Typed
  PROVE  /\ reg \in Registers /\ reg.rsp \in Addresses
         /\ Me \in Stacks /\ reg.rsp[2] \in 0 .. StackWords /\ reg.rsp[2] \in Nat
         /\ reg.rsp = <<Me, reg.rsp[2]>>
         /\ StackWords \in Nat
  <1>1. reg \in Registers /\ reg.rsp \in Addresses
    BY DEF Typed, Registers
  <1> QED BY <1>1, Address, NullIsNoProcess DEF Me

LEMMA WayIs == Typed => way \in {"call", "irq"}
  BY DEF Typed

LEMMA LoadStep ==
  ASSUME Typed, NEW n \in Procs, HasCpu(n), Load
  PROVE  Typed' /\ HasCpu(n)'
  <1>1. /\ pc = "load" /\ pc' = "rdi" /\ UNCHANGED <<way, rip, mem, pcb, before>>
        /\ reg' = [reg EXCEPT !.rax = pcb[n].rax, !.rbx = pcb[n].rbx, !.rsp = pcb[n].rsp]
    BY DEF Load, HasCpu, Running, Loading
  <1>2. reg.rsi = n /\ Runs(n) /\ Saved(n) /\ Kept(n)
    BY <1>1 DEF HasCpu, Running, Loading, Runs
  <1>3. /\ pcb[n].rax \in Words /\ pcb[n].rbx \in Words /\ pcb[n].rsp \in Addresses
    BY <1>2 DEF Typed
  <1>4. /\ reg' \in Registers /\ reg'.rax = pcb[n].rax /\ reg'.rbx = pcb[n].rbx
        /\ reg'.rsp = pcb[n].rsp /\ reg'.rsi = n /\ reg'.flags = reg.flags
    BY <1>1, <1>2, <1>3, RegistersAre DEF Registers
  <1>5. Typed'
    BY <1>1, <1>2, <1>4, TypedStill DEF Typed
  <1>6. Running' = n
    BY <1>1, <1>4 DEF Running, Loading
  <1>7. Runs(n)'
    <2>1. Saved(n)' /\ Kept(n)'
      BY <1>1, <1>2, SavedStill, KeptStill
    <2> QED BY <1>1, <1>2, <1>4, <2>1 DEF Runs, Loading, Saved
  <1>8. \A p \in Procs \ {n} : Waits(p)'
    BY <1>1, <1>2, <1>6, OthersWait DEF HasCpu
  <1> QED BY <1>5, <1>6, <1>7, <1>8 DEF HasCpu

LEMMA LoadRdiStep ==
  ASSUME Typed, NEW n \in Procs, HasCpu(n), LoadRdi
  PROVE  Typed' /\ HasCpu(n)'
  <1>1. /\ pc = "rdi" /\ pc' = "push" /\ UNCHANGED <<way, rip, mem, pcb, before>>
        /\ reg' = [reg EXCEPT !.rdi = pcb[n].rdi]
    BY DEF LoadRdi, HasCpu, Running, Loading
  <1>2. reg.rsi = n /\ Runs(n) /\ Saved(n) /\ Kept(n)
    BY <1>1 DEF HasCpu, Running, Loading, Runs
  <1>3. pcb[n].rdi \in Words
    BY <1>2 DEF Typed
  <1>4. /\ reg' \in Registers /\ reg'.rax = reg.rax /\ reg'.rbx = reg.rbx
        /\ reg'.rsp = reg.rsp /\ reg'.rsi = n /\ reg'.rdi = pcb[n].rdi
    BY <1>1, <1>2, <1>3, RegistersAre DEF Registers
  <1>5. Typed'
    BY <1>1, <1>2, <1>4, TypedStill DEF Typed
  <1>6. Running' = n
    BY <1>1, <1>4 DEF Running, Loading
  <1>7. Runs(n)'
    <2>1. Saved(n)' /\ Kept(n)'
      BY <1>1, <1>2, SavedStill, KeptStill
    <2>2. reg.rax = before[n].reg.rax /\ reg.rbx = before[n].reg.rbx /\ reg.rsp = pcb[n].rsp
      BY <1>1, <1>2 DEF Runs
    <2> QED BY <1>1, <1>2, <1>4, <2>1, <2>2 DEF Runs, Loading, Saved
  <1>8. \A p \in Procs \ {n} : Waits(p)'
    BY <1>1, <1>2, <1>6, OthersWait DEF HasCpu
  <1> QED BY <1>5, <1>6, <1>7, <1>8 DEF HasCpu

LEMMA PushRipStep ==
  ASSUME Typed, NEW n \in Procs, HasCpu(n), PushRip
  PROVE  Typed' /\ HasCpu(n)'
  <1> DEFINE low == Below(reg.rsp)
  <1>1. /\ pc = "push" /\ pc' = "rsi" /\ UNCHANGED <<way, rip, pcb, before>>
        /\ reg' = [reg EXCEPT !.rsp = low]
        /\ mem' = [mem EXCEPT ![low] = pcb[n].rip]
    BY DEF PushRip, HasCpu, Running, Loading
  <1>2. reg.rsi = n /\ Runs(n) /\ Saved(n) /\ Kept(n)
    BY <1>1 DEF HasCpu, Running, Loading, Runs
  <1>3. /\ reg.rsp = pcb[n].rsp /\ reg.rsp[1] = n
        /\ reg.rsp[2] >= 1 /\ reg.rsp[2] <= before[n].reg.rsp[2]
        /\ pcb[n].rip = before[n].to /\ pcb[n].rip \in Words
        /\ before[n].reg.rsp[2] \in Nat
    BY <1>1, <1>2, Address DEF Runs, Saved, Typed, Words
  <1>4. /\ low \in Addresses /\ low[1] = n /\ low[2] = reg.rsp[2] - 1
    BY <1>3, AnAddress, RegistersAre DEF Below
  <1> HIDE DEF low
  <1>5. /\ reg' \in Registers /\ reg'.rax = reg.rax /\ reg'.rbx = reg.rbx
        /\ reg'.rsp = low /\ reg'.rsi = n /\ reg'.rdi = reg.rdi
    BY <1>1, <1>2, <1>4, RegistersAre DEF Registers
  <1>6. /\ mem' \in [Addresses -> Words \union Addresses] /\ mem'[low] = pcb[n].rip
        /\ \A p \in Stacks, i \in 0 .. StackWords :
             (p # n \/ i # low[2]) => mem'[<<p, i>>] = mem[<<p, i>>]
    <2>1. pcb[n].rip \in Words \union Addresses
      BY <1>3
    <2>2. mem' = [mem EXCEPT ![low] = pcb[n].rip] /\ low \in Addresses
      BY <1>1, <1>4
    <2>3. /\ mem' \in [Addresses -> Words \union Addresses]
          /\ mem'[low] = pcb[n].rip
          /\ \A p \in Stacks, i \in 0 .. StackWords :
               (p # low[1] \/ i # low[2]) => mem'[<<p, i>>] = mem[<<p, i>>]
      BY <2>1, <2>2, WriteWord
    <2> QED BY <1>4, <2>3
  <1>7. Typed'
    BY <1>1, <1>2, <1>5, <1>6, TypedStill DEF Typed
  <1>8. Running' = n
    BY <1>1, <1>5 DEF Running, Loading
  <1>9. Kept(n)'
    <2>1. \A i \in before[n].reg.rsp[2] .. StackWords : i \in 0 .. StackWords /\ i # low[2]
      BY <1>3, <1>4, RegistersAre
    <2>2. n \in Stacks
      BY <1>2 DEF Stacks
    <2> QED BY <1>1, <1>2, <1>6, <2>1, <2>2, KeptStill
  <1>10. Runs(n)'
    <2>1. Saved(n)'
      BY <1>1, <1>2, SavedStill
    <2>2. /\ reg.rax = before[n].reg.rax /\ reg.rbx = before[n].reg.rbx
          /\ reg.rdi = before[n].reg.rdi
      BY <1>1, <1>2 DEF Runs
    <2>3. low = Below(pcb[n].rsp)
      BY <1>3 DEF low
    <2> QED BY <1>1, <1>2, <1>3, <1>5, <1>6, <1>9, <2>1, <2>2, <2>3 DEF Runs, Loading
  <1>11. \A p \in Procs \ {n} : Waits(p)'
    BY <1>1, <1>2, <1>6, <1>8, OthersWait DEF HasCpu, Stacks
  <1> QED BY <1>7, <1>8, <1>10, <1>11 DEF HasCpu

LEMMA LoadRsiStep ==
  ASSUME Typed, NEW n \in Procs, HasCpu(n), LoadRsi
  PROVE  Typed' /\ HasCpu(n)'
  <1>1. /\ pc = "rsi" /\ pc' = "ret" /\ UNCHANGED <<way, rip, mem, pcb, before>>
        /\ reg' = [reg EXCEPT !.rsi = pcb[n].rsi]
    BY DEF LoadRsi, HasCpu, Running, Loading
  <1>2. reg.rsi = n /\ Runs(n) /\ Saved(n) /\ Kept(n)
    BY <1>1 DEF HasCpu, Running, Loading, Runs
  <1>3. /\ pcb[n].rsi \in Words /\ pcb[n].rsp \in Addresses /\ pcb[n].rsp[1] = n
        /\ before[n].reg.rsp[2] \in Nat /\ pcb[n].rsp[2] \in Nat
        /\ pcb[n].rsp = <<n, pcb[n].rsp[2]>>
    BY <1>2, Address DEF Typed
  <1>4. /\ reg' \in Registers /\ reg'.rax = reg.rax /\ reg'.rbx = reg.rbx
        /\ reg'.rsp = reg.rsp /\ reg'.rsi = pcb[n].rsi /\ reg'.rdi = reg.rdi
    BY <1>1, <1>2, <1>3, RegistersAre DEF Registers
  <1>5. Typed'
    BY <1>1, <1>2, <1>4, TypedStill DEF Typed
  <1>6. /\ reg.rsp = Below(pcb[n].rsp) /\ reg.rsp[1] = n /\ reg.rsp[2] + 1 = pcb[n].rsp[2]
        /\ Above(reg.rsp) = pcb[n].rsp
    <2>1. reg.rsp = <<n, pcb[n].rsp[2] - 1>>
      BY <1>1, <1>2, <1>3 DEF Runs, Below
    <2>2. (pcb[n].rsp[2] - 1) + 1 = pcb[n].rsp[2]
      BY <1>3
    <2> QED BY <1>1, <1>2, <1>3, <2>1, <2>2 DEF Runs, Above
  <1>7. Running' = n
    BY <1>1, <1>4, <1>6 DEF Running, Loading, Me
  <1>8. Runs(n)'
    <2>1. Kept(n)'
      BY <1>1, <1>2, KeptStill
    <2>2. /\ reg.rax = before[n].reg.rax /\ reg.rbx = before[n].reg.rbx
          /\ reg.rdi = before[n].reg.rdi /\ mem[reg.rsp] = before[n].to
      BY <1>1, <1>2 DEF Runs
    <2>3. /\ pcb[n].rsi = before[n].reg.rsi /\ pcb[n].rsp[2] <= before[n].reg.rsp[2]
          /\ pcb[n].rsp = Resumes(n)
          /\ way = "irq" => before[n].reg.flags = On
      BY <1>2 DEF Saved
    <2>4. RegistersOf(n)'
      BY <1>1, <1>4, <2>2, <2>3 DEF RegistersOf
    <2>5. /\ reg'.rsp[2] + 1 <= before'[n].reg.rsp[2] /\ mem'[reg'.rsp] = before'[n].to
          /\ Above(reg'.rsp) = Resumes(n)'
          /\ way' = "irq" => before'[n].reg.flags = On
      BY <1>1, <1>4, <1>6, <2>2, <2>3 DEF Resumes
    <2> QED BY <1>1, <1>2, <2>1, <2>4, <2>5 DEF Runs, Loading
  <1>9. \A p \in Procs \ {n} : Waits(p)'
    BY <1>1, <1>2, <1>7, OthersWait DEF HasCpu
  <1> QED BY <1>5, <1>7, <1>8, <1>9 DEF HasCpu

LEMMA RetStep ==
  ASSUME Typed, NEW n \in Procs, HasCpu(n), Ret
  PROVE  Typed' /\ HasCpu(n)'
  <1>1. /\ pc = "ret" /\ pc' = "program" /\ UNCHANGED <<way, mem, pcb, before>>
        /\ rip' = mem[reg.rsp] /\ reg' = [reg EXCEPT !.rsp = Above(reg.rsp), !.flags = On]
    BY DEF Ret
  <1>2. Me = n /\ Runs(n) /\ Kept(n)
    BY <1>1 DEF HasCpu, Running, Loading, Runs
  <1>3. /\ RegistersOf(n) /\ reg.rsp[2] + 1 <= before[n].reg.rsp[2]
        /\ Above(reg.rsp) = Resumes(n)
        /\ way = "irq" => before[n].reg.flags = On
        /\ mem[reg.rsp] = before[n].to /\ before[n].to \in Words
        /\ before[n].reg.rsp[2] \in 0 .. StackWords
    BY <1>1, <1>2, Address DEF Runs, Typed, Words
  <1>4. /\ Above(reg.rsp) \in Addresses /\ Above(reg.rsp)[1] = n
        /\ Above(reg.rsp)[2] = reg.rsp[2] + 1
    BY <1>2, <1>3, AnAddress, RegistersAre DEF Above, Me
  <1>5. /\ reg' \in Registers /\ reg'.rax = reg.rax /\ reg'.rbx = reg.rbx
        /\ reg'.rsp = Above(reg.rsp) /\ reg'.rsi = reg.rsi /\ reg'.rdi = reg.rdi
        /\ reg'.flags = On
    BY <1>1, <1>2, <1>4, RegistersAre DEF Registers, Flags
  <1>6. Typed'
    BY <1>1, <1>2, <1>3, <1>5, TypedStill DEF Typed
  <1>7. Running' = n
    BY <1>1, <1>4, <1>5 DEF Running, Loading, Me
  <1>8. Runs(n)'
    <2>1. Kept(n)'
      BY <1>1, <1>2, KeptStill
    <2>2. RegistersOf(n)'
      BY <1>1, <1>3, <1>5 DEF RegistersOf
    <2>3. /\ rip' = before'[n].to /\ reg'.rsp[2] <= before'[n].reg.rsp[2]
          /\ reg'.rsp = Resumes(n)'
          /\ reg'.flags = IF way' = "call" THEN On ELSE before'[n].reg.flags
      BY <1>1, <1>3, <1>4, <1>5, WayIs DEF Resumes
    <2> QED BY <1>1, <1>2, <2>1, <2>2, <2>3 DEF Runs, Loading
  <1>9. \A p \in Procs \ {n} : Waits(p)'
    BY <1>1, <1>2, <1>7, OthersWait DEF HasCpu
  <1> QED BY <1>6, <1>7, <1>8, <1>9 DEF HasCpu

(* A process that loses the CPU: what before then says of it.              *)
LEMMA Loses ==
  ASSUME Typed, NEW n \in Procs, NEW r \in Registers, r.rsp[1] = n,
         NEW site \in Sites, NEW stack,
         before' = [before EXCEPT ![n] = [reg |-> r, to |-> site, stack |-> stack]]
  PROVE  /\ DOMAIN before' = Procs
         /\ \A p \in Procs \ {n} : before'[p] = before[p]
         /\ before'[n].reg = r /\ before'[n].to = site
         /\ before'[n].stack = stack
         /\ \A p \in Procs :
              /\ before'[p].reg.rax \in Words /\ before'[p].reg.rbx \in Words
              /\ before'[p].reg.rdi \in Words /\ before'[p].reg.rsi \in Words
              /\ before'[p].reg.rsp \in Addresses /\ before'[p].reg.rsp[1] = p
              /\ before'[p].reg.flags \in Flags
              /\ before'[p].to \in Sites \union {Entry}
  <1>1. DOMAIN before = Procs
    BY DEF Typed
  <1>2. before'[n] = [reg |-> r, to |-> site, stack |-> stack]
        /\ DOMAIN before' = Procs /\ \A p \in Procs \ {n} : before'[p] = before[p]
    BY <1>1
  <1>4. /\ r.rax \in Words /\ r.rbx \in Words /\ r.rdi \in Words /\ r.rsi \in Words
        /\ r.rsp \in Addresses /\ r.flags \in Flags
    BY DEF Registers
  <1>5. ASSUME NEW p \in Procs
        PROVE  /\ before'[p].reg.rax \in Words /\ before'[p].reg.rbx \in Words
               /\ before'[p].reg.rdi \in Words /\ before'[p].reg.rsi \in Words
               /\ before'[p].reg.rsp \in Addresses /\ before'[p].reg.rsp[1] = p
               /\ before'[p].reg.flags \in Flags
               /\ before'[p].to \in Sites \union {Entry}
    <2>1. CASE p = n
      BY <1>2, <1>4, <2>1
    <2>2. CASE p # n
      BY <1>2, <2>2 DEF Typed
    <2> QED BY <2>1, <2>2
  <1> QED BY <1>2, <1>5

LEMMA CallStep ==
  ASSUME Typed, NEW n \in Procs, HasCpu(n),
         NEW next \in Procs, NEW site \in Sites, NEW v \in Values, NEW flags \in Flags,
         Call(next, site, v, flags)
  PROVE  Typed' /\ HasCpu(n)'
  <1> DEFINE low == Below(reg.rsp)
             r == [reg EXCEPT !.rdi = n, !.rsi = next, !.rbx = v, !.flags = flags]
  <1>1. Me = n /\ reg.rsp[1] = n /\ Runs(n)
    BY DEF HasCpu, Running, Loading, Call, Me
  <1>2. /\ way = "call" /\ pc = "program" /\ pc' = "save" /\ UNCHANGED <<way, rip, pcb>>
        /\ next # n /\ reg.rsp[2] > Lowest
        /\ reg' = [r EXCEPT !.rsp = low]
        /\ mem' = [mem EXCEPT ![low] = site]
        /\ before' = [before EXCEPT ![n] = [reg |-> r, to |-> site, stack |-> StackOf(n, mem)]]
    BY <1>1 DEF Call
  <1>3. /\ n \in Words /\ next \in Words /\ v \in Words /\ site \in Words
        /\ n \in Stacks /\ site \in Words \union Addresses
    BY DEF Words, Stacks
  <1>4. /\ r \in Registers /\ r.rax = reg.rax /\ r.rbx = v /\ r.rdi = n /\ r.rsi = next
        /\ r.rsp = reg.rsp
    BY <1>3, RegistersAre DEF Registers
  <1>5. /\ low \in Addresses /\ low[1] = n /\ low[2] = reg.rsp[2] - 1
        /\ reg.rsp[2] >= 2 /\ reg.rsp[2] \in 0 .. StackWords
    <2>1. Lowest >= 1 /\ Lowest \in Nat
      BY ContextSwitchAssumption
    <2>2. reg.rsp[2] >= 2 /\ reg.rsp[2] - 1 \in 0 .. StackWords
      BY <1>2, <2>1, RegistersAre
    <2> QED BY <1>1, <1>3, <2>2, AnAddress, RegistersAre DEF Below
  <1> HIDE DEF low, r
  <1>6. /\ reg' \in Registers /\ reg'.rax = r.rax /\ reg'.rbx = r.rbx /\ reg'.rdi = n
        /\ reg'.rsi = next /\ reg'.rsp = low
    BY <1>2, <1>4, <1>5 DEF Registers
  <1>7. /\ mem' \in [Addresses -> Words \union Addresses]
        /\ mem'[low] = site
        /\ \A p \in Stacks, i \in 0 .. StackWords :
             (p # low[1] \/ i # low[2]) => mem'[<<p, i>>] = mem[<<p, i>>]
    BY <1>2, <1>3, <1>5, WriteWord
  <1>8. /\ DOMAIN before' = Procs
        /\ \A p \in Procs \ {n} : before'[p] = before[p]
        /\ before'[n].reg = r /\ before'[n].to = site
        /\ before'[n].stack = StackOf(n, mem)
        /\ \A p \in Procs :
             /\ before'[p].reg.rax \in Words /\ before'[p].reg.rbx \in Words
             /\ before'[p].reg.rdi \in Words /\ before'[p].reg.rsi \in Words
             /\ before'[p].reg.rsp \in Addresses /\ before'[p].reg.rsp[1] = p
             /\ before'[p].reg.flags \in Flags
             /\ before'[p].to \in Sites \union {Entry}
    <2>1. r.rsp[1] = n
      BY <1>1, <1>4
    <2> QED BY <1>2, <1>4, <2>1, Loses
  <1>9. Typed'
    BY <1>2, <1>6, <1>7, <1>8 DEF Typed
  <1>10. Running' = n
    BY <1>2, <1>5, <1>6 DEF Running, Loading, Me
  <1>11. Kept(n)'
    <2>1. ASSUME NEW i \in reg.rsp[2] .. StackWords
          PROVE  mem'[<<n, i>>] = before'[n].stack[i]
      <3>1. i \in 0 .. StackWords /\ i # low[2]
        BY <1>5, RegistersAre
      <3> QED BY <1>3, <1>7, <1>8, <3>1 DEF StackOf
    <2> QED BY <1>4, <1>8, <2>1 DEF Kept
  <1>12. Runs(n)'
    <2>1. RegistersOf(n)'
      BY <1>4, <1>6, <1>8 DEF RegistersOf
    <2>2. /\ reg'.rsp[2] >= 1 /\ reg'.rsp[2] + 1 = before'[n].reg.rsp[2]
          /\ mem'[reg'.rsp] = before'[n].to /\ before'[n].to \in Sites
      BY <1>4, <1>5, <1>6, <1>7, <1>8
    <2> QED BY <1>2, <1>6, <1>11, <2>1, <2>2 DEF Runs, Loading
  <1>13. \A p \in Procs \ {n} : Waits(p)'
    BY <1>2, <1>5, <1>7, <1>8, OthersWait DEF HasCpu, Stacks
  <1> QED BY <1>9, <1>10, <1>12, <1>13 DEF HasCpu

(* The caller's registers are in its PCB, the next process is taken.       *)
LEMMA SaveStep ==
  ASSUME Typed, NEW n \in Procs, HasCpu(n), Save
  PROVE  Typed' /\ \E q \in Procs : HasCpu(q)'
  <1> DEFINE saved == [rax |-> reg.rax, rbx |-> reg.rbx, rdi |-> n, rsi |-> reg.rsi,
                       rsp |-> reg.rsp, rip |-> mem[reg.rsp], flags |-> pcb[n].flags]
  <1>1. /\ pc = "save" /\ pc' = "load" /\ Runs(n)
        /\ UNCHANGED <<way, rip, mem, before>>
    BY DEF Save, HasCpu, Running, Loading
  <1>2. /\ way = "call" /\ RegistersOf(n) /\ reg.rdi = n /\ reg.rsi \in Procs \ {n}
        /\ reg.rsp[2] >= 1 /\ reg.rsp[2] + 1 = before[n].reg.rsp[2]
        /\ mem[reg.rsp] = before[n].to /\ Kept(n) /\ reg.rsp[1] = n
        /\ before[n].to \in Sites
    BY <1>1 DEF Runs, HasCpu, Running, Loading, Me
  <1>3. /\ pcb' = [pcb EXCEPT ![n] = saved] /\ reg' = [reg EXCEPT !.rax = mem[reg.rsp]]
    BY <1>2 DEF Save, ReturnAddress
  <1>4. mem[reg.rsp] \in Sites \union {Entry} /\ mem[reg.rsp] \in Words
    BY <1>2 DEF Typed, Words
  <1>5. reg' \in Registers /\ reg'.rsi = reg.rsi
    BY <1>3, <1>4, RegistersAre DEF Registers
  <1>6. saved \in [rax : Words, rbx : Words, rdi : Words, rsi : Words,
                   rsp : Addresses, rip : Sites \union {Entry}, flags : Flags]
    <2>1. n \in Words /\ pcb[n].flags \in Flags
      BY DEF Words, Stacks, Typed
    <2> QED BY <1>4, <2>1, RegistersAre DEF Registers
  <1>7. /\ pcb' \in [Procs -> [rax : Words, rbx : Words, rdi : Words, rsi : Words,
                               rsp : Addresses, rip : Sites \union {Entry}, flags : Flags]]
        /\ pcb'[n] = saved /\ \A p \in Procs \ {n} : pcb'[p] = pcb[p]
    <2> HIDE DEF saved
    <2> QED BY <1>3, <1>6 DEF Typed
  <1>8. Typed'
    <2>1. \A p \in Procs : pcb'[p].rsp[1] = p
      BY <1>2, <1>7 DEF Typed
    <2> QED BY <1>1, <1>5, <1>7, <2>1 DEF Typed
  <1>9. Waits(n)'
    <2>1. Kept(n)'
      BY <1>1, <1>2, KeptStill
    <2>2. /\ reg.rsp[2] <= before[n].reg.rsp[2]
      BY <1>2, RegistersAre
    <2>3. reg.rsp = Below(before[n].reg.rsp) /\ before[n].to # Entry
      <3>1. before[n].reg.rsp = <<n, before[n].reg.rsp[2]>> /\ before[n].reg.rsp[2] \in Nat
        BY Address DEF Typed
      <3>2. reg.rsp = <<n, before[n].reg.rsp[2] - 1>>
        BY <1>2, <3>1, RegistersAre DEF Me
      <3>3. Entry \notin Sites
        BY ContextSwitchAssumption
      <3> QED BY <1>2, <3>1, <3>2, <3>3 DEF Below
    <2>4. Saved(n)'
      BY <1>1, <1>2, <1>7, <2>2, <2>3 DEF Saved, Resumes, RegistersOf
    <2> QED BY <1>1, <1>2, <2>1, <2>4 DEF Waits
  <1>10. PICK next \in Procs \ {n} : next = reg.rsi
    BY <1>2
  <1>11. \A p \in Procs \ {n} : Waits(p) /\ Waits(p)'
    BY <1>1, <1>7, WaitsStill DEF HasCpu
  <1>12. Runs(next)'
    <2>1. Kept(next)' /\ Saved(next)'
      BY <1>1, <1>2, <1>11 DEF Waits
    <2>2. Me' = n /\ reg'.rsp[2] <= before'[n].reg.rsp[2]
      BY <1>1, <1>2, <1>3, RegistersAre DEF Me
    <2> QED BY <1>1, <1>2, <2>1, <2>2 DEF Runs, Loading
  <1>13. Running' = next
    BY <1>1, <1>5, <1>10 DEF Running, Loading
  <1>14. HasCpu(next)'
    BY <1>9, <1>11, <1>12, <1>13 DEF HasCpu
  <1> QED BY <1>8, <1>10, <1>14

(* The interrupted program's registers are on its stack.                   *)
LEMMA InterruptStep ==
  ASSUME Typed, NEW n \in Procs, HasCpu(n),
         NEW site \in Sites, NEW v \in Values, NEW depth \in Depths, Interrupt(site, v, depth)
  PROVE  Typed' /\ HasCpu(n)'
  <1> DEFINE top == <<n, depth>>
             r == [reg EXCEPT !.rbx = v, !.rsp = top]
             m == [mem EXCEPT ![top] = v]
             sp == <<n, depth - 11>>
  <1>1. Me = n /\ Runs(n)
    BY DEF HasCpu, Running, Loading, Interrupt
  <1>2. /\ way = "irq" /\ pc = "program" /\ pc' = "handler" /\ UNCHANGED <<way, rip, pcb>>
        /\ mem' = Pushed(m, r.rsp, Frame(r, site))
        /\ reg' = [r EXCEPT !.rsp = <<n, depth - Len(Frame(r, site))>>, !.flags = Off]
        /\ before' = [before EXCEPT ![n] = [reg |-> r, to |-> site, stack |-> StackOf(n, m)]]
    BY <1>1 DEF Interrupt, Me
  <1>3. /\ v \in Words /\ site \in Words /\ Other \in Words /\ n \in Stacks
        /\ v \in Words \union Addresses
    BY DEF Words, Stacks
  <1>4. /\ depth \in 11 .. StackWords /\ depth \in 0 .. StackWords
        /\ depth - 11 \in 0 .. StackWords /\ (depth - 11) + 11 = depth
        /\ (depth - 11) + 1 = depth - 10 /\ (depth - 11) + 2 = depth - 9
        /\ (depth - 11) + 3 = depth - 8 /\ (depth - 11) + 6 = depth - 5
        /\ (depth - 11) + 8 = depth - 3 /\ (depth - 11) + 9 = depth - 2
    <2>1. depth \in 11 .. (StackWords - 11)
      BY ContextSwitchAssumption
    <2> QED BY <2>1, NullIsNoProcess
  <1>5. top \in Addresses /\ top[1] = n /\ top[2] = depth
        /\ sp \in Addresses /\ sp[1] = n /\ sp[2] = depth - 11
    BY <1>3, <1>4, AnAddress
  <1> HIDE DEF top, sp
  <1>6. /\ r \in Registers /\ r.rax = reg.rax /\ r.rbx = v /\ r.rdi = reg.rdi
        /\ r.rsi = reg.rsi /\ r.rsp = top
    BY <1>3, <1>5, RegistersAre DEF Registers
  <1>7. /\ r.rax \in Words /\ r.rbx \in Words /\ r.rdi \in Words /\ r.rsi \in Words
        /\ r.flags \in Words
    BY <1>6 DEF Registers, Words
  <1>8. \A b \in Addresses : m[b] \in Words \union Addresses
    BY <1>3 DEF Typed
  <1> HIDE DEF r, m
  <1>9. FrameOn(mem', m, n, depth, r, site)
    <2>1. mem' = Pushed(m, <<n, depth>>, Frame(r, site))
      BY <1>2, <1>6 DEF top
    <2> QED BY <1>3, <1>4, <2>1, PushedIs
  <1>10. reg' = [r EXCEPT !.rsp = sp, !.flags = Off]
    <2>1. Len(Frame(r, site)) = 11
      BY FrameIs
    <2> QED BY <1>2, <2>1 DEF sp
  <1>11. /\ reg' \in Registers /\ reg'.rsp = sp
    BY <1>5, <1>6, <1>10 DEF Registers, Flags
  <1>12. mem' \in [Addresses -> Words \union Addresses]
    <2>1. \A b \in Addresses : mem'[b] \in Words \union Addresses
      BY <1>3, <1>5, <1>6, <1>7, <1>8, <1>9 DEF FrameOn
    <2> QED BY <1>9, <2>1 DEF FrameOn
  <1>13. /\ DOMAIN before' = Procs
         /\ \A p \in Procs \ {n} : before'[p] = before[p]
         /\ before'[n].reg = r /\ before'[n].to = site
         /\ before'[n].stack = StackOf(n, m)
         /\ \A p \in Procs :
              /\ before'[p].reg.rax \in Words /\ before'[p].reg.rbx \in Words
              /\ before'[p].reg.rdi \in Words /\ before'[p].reg.rsi \in Words
              /\ before'[p].reg.rsp \in Addresses /\ before'[p].reg.rsp[1] = p
              /\ before'[p].reg.flags \in Flags
              /\ before'[p].to \in Sites \union {Entry}
    <2>1. r.rsp[1] = n
      BY <1>5, <1>6
    <2>2. before' = [before EXCEPT ![n] = [reg |-> r, to |-> site, stack |-> StackOf(n, m)]]
      BY <1>2
    <2> QED BY <1>6, <2>1, <2>2, Loses
  <1>14. Typed'
    BY <1>2, <1>11, <1>12, <1>13 DEF Typed
  <1>15. Running' = n
    BY <1>2, <1>5, <1>11 DEF Running, Loading, Me
  <1>16. Kept(n)'
    <2>1. ASSUME NEW i \in depth .. StackWords
          PROVE  mem'[<<n, i>>] = before'[n].stack[i]
      <3>1. i \in 0 .. StackWords /\ i >= depth
        BY <1>4, NullIsNoProcess
      <3>2. <<n, i>> \in Addresses /\ <<n, i>>[2] = i
        BY <1>3, <3>1, AnAddress
      <3>3. mem'[<<n, i>>] = m[<<n, i>>]
        BY <1>9, <3>1, <3>2 DEF FrameOn
      <3> QED BY <1>13, <3>1, <3>3 DEF StackOf
    <2> QED BY <1>5, <1>6, <1>13, <2>1 DEF Kept
  <1>17. Framed(n, reg.rsp)'
    <2>1. /\ mem'[<<n, depth - 11>>] = r.rdi /\ mem'[<<n, depth - 10>>] = r.rsi
          /\ mem'[<<n, depth - 9>>] = r.rbx /\ mem'[<<n, depth - 8>>] = r.rax
          /\ mem'[<<n, depth - 5>>] = site /\ mem'[<<n, depth - 3>>] = r.flags
          /\ mem'[<<n, depth - 2>>] = r.rsp
      BY <1>9 DEF FrameOn
    <2> QED BY <1>4, <1>5, <1>6, <1>11, <1>13, <2>1 DEF Framed
  <1>18. Runs(n)'
    BY <1>2, <1>16, <1>17 DEF Runs, Loading
  <1>19. \A p \in Procs \ {n} : Waits(p)'
    <2>1. ASSUME NEW p \in Procs \ {n}, NEW i \in 0 .. StackWords
          PROVE  mem'[<<p, i>>] = mem[<<p, i>>]
      <3>1. <<p, i>> \in Addresses /\ <<p, i>>[1] # n
        BY AnAddress DEF Stacks
      <3>2. mem'[<<p, i>>] = m[<<p, i>>]
        BY <1>9, <3>1 DEF FrameOn
      <3>3. m[<<p, i>>] = mem[<<p, i>>]
        BY <1>5, <3>1 DEF m, Typed
      <3> QED BY <3>2, <3>3
    <2> QED BY <1>2, <1>13, <2>1, OthersWait DEF HasCpu
  <1> QED BY <1>14, <1>15, <1>18, <1>19 DEF HasCpu

(* preempt_handler gives the stub the stack of a process that waits.       *)
LEMMA PreemptStep ==
  ASSUME Typed, NEW n \in Procs, HasCpu(n), NEW next \in Procs, preempt_handler(next)
  PROVE  Typed' /\ HasCpu(next)'
  <1>1. /\ Me = n /\ Runs(n) /\ pc = "handler" /\ pc' = "restore" /\ way = "irq"
        /\ UNCHANGED <<way, rip, mem, before>> /\ Kept(n) /\ Framed(n, reg.rsp)
    BY DEF HasCpu, Running, Loading, preempt_handler, Runs
  <1>2. /\ pcb' = [pcb EXCEPT ![n].rsp = reg.rsp]
        /\ reg' = [reg EXCEPT !.rax = Other, !.rdi = Other, !.rsi = Other, !.rsp = pcb'[next].rsp]
    BY <1>1 DEF preempt_handler, Me
  <1>3. /\ pcb' \in [Procs -> [rax : Words, rbx : Words, rdi : Words, rsi : Words,
                               rsp : Addresses, rip : Sites \union {Entry}, flags : Flags]]
        /\ pcb'[n].rsp = reg.rsp /\ \A p \in Procs \ {n} : pcb'[p] = pcb[p]
    <2>1. [pcb[n] EXCEPT !.rsp = reg.rsp]
             \in [rax : Words, rbx : Words, rdi : Words, rsi : Words,
                  rsp : Addresses, rip : Sites \union {Entry}, flags : Flags]
      BY RegistersAre DEF Typed
    <2>2. pcb' = [pcb EXCEPT ![n] = [pcb[n] EXCEPT !.rsp = reg.rsp]]
      BY <1>2
    <2> QED BY <2>1, <2>2 DEF Typed
  <1>4. \A p \in Procs : pcb'[p].rsp[1] = p /\ pcb'[p].rsp \in Addresses
    BY <1>1, <1>3 DEF Me, Typed
  <1>5. reg' \in Registers /\ reg'.rsp = pcb'[next].rsp
    <2>1. Other \in Words
      BY DEF Words
    <2> QED BY <1>2, <1>4, <2>1, RegistersAre DEF Registers
  <1>6. Typed'
    BY <1>1, <1>3, <1>4, <1>5 DEF Typed
  <1>7. Kept(n)'
    BY <1>1, KeptStill
  <1>8. Framed(n, pcb[n].rsp)'
    BY <1>1, <1>3 DEF Framed
  <1>9. \A p \in Procs : Waits(p)'
    <2>1. \A p \in Procs \ {n} : Waits(p)'
      BY <1>1, <1>3, WaitsStill DEF HasCpu
    <2> QED BY <1>1, <1>7, <1>8, <2>1 DEF Waits
  <1>10. Running' = next
    BY <1>1, <1>4, <1>5 DEF Running, Loading, Me
  <1>11. Runs(next)'
    <2>1. Kept(next)' /\ Framed(next, pcb[next].rsp)'
      BY <1>1, <1>9 DEF Waits
    <2>2. Framed(next, reg.rsp)'
      BY <1>5, <2>1 DEF Framed
    <2> QED BY <1>1, <2>1, <2>2 DEF Runs, Loading
  <1> QED BY <1>6, <1>9, <1>10, <1>11 DEF HasCpu

LEMMA RestoreStep ==
  ASSUME Typed, NEW n \in Procs, HasCpu(n), RestoreRegisters
  PROVE  Typed' /\ HasCpu(n)'
  <1> DEFINE k == reg.rsp[2]
             sp == <<n, k + 6>>
  <1>1. /\ Me = n /\ Runs(n) /\ pc = "restore" /\ pc' = "iretq" /\ way = "irq"
        /\ UNCHANGED <<way, rip, mem, pcb, before>> /\ Kept(n) /\ Framed(n, reg.rsp)
    BY DEF HasCpu, Running, Loading, RestoreRegisters, Runs
  <1>2. k \in Nat /\ k + 11 = before[n].reg.rsp[2] /\ before[n].reg.rsp[2] \in 0 .. StackWords
        /\ StackWords \in Nat
    BY <1>1, RegistersAre, Address DEF Framed, Typed
  <1>3. k + 0 = k /\ (k + 6) + 0 = k + 6 /\ (k + 6) + 2 = k + 8 /\ (k + 6) + 3 = k + 9 /\ k + 6 \in 0 .. StackWords
    BY <1>2
  <1>4. sp \in Addresses /\ sp[1] = n /\ sp[2] = k + 6
    BY <1>3, AnAddress DEF Stacks
  <1>5. reg' = [rdi |-> before[n].reg.rdi, rsi |-> before[n].reg.rsi, rbx |-> before[n].reg.rbx,
                rax |-> before[n].reg.rax, rsp |-> sp, flags |-> reg.flags]
    <2>1. /\ OnStack(0) = before[n].reg.rdi /\ OnStack(1) = before[n].reg.rsi
          /\ OnStack(2) = before[n].reg.rbx /\ OnStack(3) = before[n].reg.rax
      BY <1>1, <1>3 DEF OnStack, Framed, Me
    <2> QED BY <1>1, <2>1 DEF RestoreRegisters, Me
  <1> HIDE DEF sp
  <1>6. reg' \in Registers
    BY <1>4, <1>5, RegistersAre DEF Typed, Registers
  <1>7. Typed'
    BY <1>1, <1>6, TypedStill DEF Typed
  <1>8. Running' = n
    BY <1>1, <1>4, <1>5 DEF Running, Loading, Me
  <1>9. Runs(n)'
    <2>1. Kept(n)'
      BY <1>1, KeptStill
    <2>2. RegistersOf(n)'
      BY <1>1, <1>5 DEF RegistersOf
    <2>3. reg'.rsp[1] = n /\ reg'.rsp[2] = k + 6
      BY <1>4, <1>5
    <2>4. /\ OnStack(0)' = before[n].to /\ OnStack(3)' = before[n].reg.rsp
          /\ OnStack(2)' = before[n].reg.flags
      <3>1. /\ mem[<<n, k + 6>>] = before[n].to /\ mem[<<n, k + 9>>] = before[n].reg.rsp
            /\ mem[<<n, k + 8>>] = before[n].reg.flags
        BY <1>1 DEF Framed
      <3> HIDE DEF k
      <3> QED BY <1>1, <1>3, <2>3, <3>1 DEF OnStack
    <2> QED BY <1>1, <2>1, <2>2, <2>4 DEF Runs, Loading
  <1>10. \A p \in Procs \ {n} : Waits(p)'
    BY <1>1, OthersWait DEF HasCpu
  <1> QED BY <1>7, <1>8, <1>9, <1>10 DEF HasCpu

LEMMA IretqStep ==
  ASSUME Typed, NEW n \in Procs, HasCpu(n), Iretq
  PROVE  Typed' /\ HasCpu(n)'
  <1>1. /\ Me = n /\ Runs(n) /\ pc = "iretq" /\ pc' = "program" /\ way = "irq"
        /\ UNCHANGED <<way, mem, pcb, before>> /\ Kept(n) /\ RegistersOf(n)
        /\ OnStack(0) = before[n].to /\ OnStack(3) = before[n].reg.rsp
        /\ OnStack(2) = before[n].reg.flags
    BY DEF HasCpu, Running, Loading, Iretq, Runs
  <1>2. rip' = before[n].to /\ reg' = [reg EXCEPT !.flags = before[n].reg.flags, !.rsp = before[n].reg.rsp]
    BY <1>1 DEF Iretq
  <1>3. /\ before[n].reg.rsp \in Addresses /\ before[n].reg.rsp[1] = n
        /\ before[n].reg.rsp[2] \in Nat /\ before[n].to \in Words
        /\ before[n].reg.flags \in Flags
    BY Address DEF Typed, Words
  <1>4. /\ reg' \in Registers /\ reg'.rax = reg.rax /\ reg'.rbx = reg.rbx
        /\ reg'.rsp = before[n].reg.rsp /\ reg'.rsi = reg.rsi /\ reg'.rdi = reg.rdi
        /\ reg'.flags = before[n].reg.flags
    BY <1>2, <1>3, RegistersAre DEF Registers
  <1>5. Typed'
    BY <1>1, <1>2, <1>3, <1>4, TypedStill DEF Typed
  <1>6. Running' = n
    BY <1>1, <1>3, <1>4 DEF Running, Loading, Me
  <1>7. Runs(n)'
    <2>1. Kept(n)'
      BY <1>1, KeptStill
    <2>2. RegistersOf(n)'
      BY <1>1, <1>4 DEF RegistersOf
    <2>3. before[n].reg.rsp[2] <= before[n].reg.rsp[2] /\ reg'.rsp = Resumes(n)'
      BY <1>1, <1>3, <1>4 DEF Resumes
    <2> QED BY <1>1, <1>2, <1>4, <2>1, <2>2, <2>3 DEF Runs, Loading
  <1>8. \A p \in Procs \ {n} : Waits(p)'
    BY <1>1, OthersWait DEF HasCpu
  <1> QED BY <1>5, <1>6, <1>7, <1>8 DEF HasCpu

(* A frame below rsp is below all that anybody is to read again.           *)
LEMMA TickStep ==
  ASSUME Typed, NEW n \in Procs, HasCpu(n), Tick
  PROVE  Typed' /\ HasCpu(n)'
  <1> DEFINE top == reg.rsp[2]
  <1>1. /\ pc \in {"program", "save", "load", "rdi", "push", "rsi", "ret"}
        /\ UNCHANGED <<way, pc, rip, reg, pcb, before>>
        /\ Runs(n) /\ Kept(n) /\ Running = n
    BY DEF Tick, HasCpu, Runs
  <1>2. top \in 11 .. StackWords /\ Me \in Stacks /\ reg.rsp = <<Me, top>>
    <2>1. Len(Frame(reg, Other)) = 11
      BY FrameIs
    <2> QED BY <2>1, RegistersAre DEF Tick
  <1>3. FrameOn(mem', mem, Me, top, reg, Other)
    <2>1. mem' = Pushed(mem, <<Me, top>>, Frame(reg, Other))
      BY <1>2 DEF Tick
    <2> QED BY <1>2, <2>1, PushedIs
  <1>4. ASSUME NEW p \in Stacks, NEW i \in 0 .. StackWords, p # Me \/ i >= top
        PROVE  mem'[<<p, i>>] = mem[<<p, i>>]
    BY <1>3, <1>4, AnAddress DEF FrameOn
  <1>5. mem' \in [Addresses -> Words \union Addresses]
    <2>1. \A b \in Addresses : mem'[b] \in Words \union Addresses
      <3>1. /\ reg.rax \in Words /\ reg.rbx \in Words /\ reg.rdi \in Words
            /\ reg.rsi \in Words /\ reg.rsp \in Addresses /\ reg.flags \in Words
            /\ Other \in Words
        BY RegistersAre DEF Registers, Words
      <3>2. \A b \in Addresses : mem[b] \in Words \union Addresses
        BY DEF Typed
      <3> QED BY <1>3, <3>1, <3>2 DEF FrameOn
    <2> QED BY <1>3, <2>1 DEF FrameOn
  <1>6. Typed'
    BY <1>1, <1>5, RegistersAre, TypedStill DEF Typed
  <1>7. Running' = n
    BY <1>1 DEF Running, Me
  <1>8. Me = n \/ (pc = "load" /\ (Me = NULL \/ way = "call"))
    <2>1. CASE pc \in {"rdi", "push", "rsi"}
      BY <1>1, <2>1 DEF Runs, Me, Below, Typed
    <2> QED BY <1>1, <2>1 DEF Runs, Running, Loading
  <1>9. ASSUME Me \in Procs PROVE top <= before[Me].reg.rsp[2]
    <2>1. CASE pc = "load"
      BY <1>1, <1>9, <2>1, NullIsNoProcess DEF Runs
    <2>2. CASE pc # "load"
      <3>1. /\ before[n].reg.rsp[2] \in Nat /\ pcb[n].rsp[2] \in Nat /\ top \in Nat
            /\ pcb[n].rsp = <<pcb[n].rsp[1], pcb[n].rsp[2]>>
        BY <1>2, Address, NullIsNoProcess DEF Typed
      <3>2. CASE pc \in {"program", "save", "ret"}
        <4>1. Me = n
          BY <1>1, <3>2 DEF Running, Loading
        <4> QED BY <1>1, <3>1, <3>2, <4>1 DEF Runs
      <3>3. CASE pc \in {"rdi", "push", "rsi"}
        <4>1. Saved(n) /\ pcb[n].rsp[1] = n
          BY <1>1, <3>3 DEF Runs, Loading, Typed
        <4>2. reg.rsp = pcb[n].rsp \/ reg.rsp = <<n, pcb[n].rsp[2] - 1>>
          BY <1>1, <3>3, <4>1 DEF Runs, Below
        <4>3. Me = n /\ top <= pcb[n].rsp[2]
          BY <3>1, <4>1, <4>2 DEF Me
        <4> QED BY <3>1, <4>1, <4>3 DEF Saved
      <3> QED BY <1>1, <2>2, <3>2, <3>3
    <2> QED BY <2>1, <2>2
  <1> HIDE DEF top
  <1>10. ASSUME NEW p \in Procs, Kept(p) PROVE Kept(p)'
    <2>1. ASSUME NEW i \in before[p].reg.rsp[2] .. StackWords
          PROVE  i \in 0 .. StackWords /\ (p # Me \/ i >= top) /\ p \in Stacks
      <3>1. before[p].reg.rsp[2] \in Nat /\ StackWords \in Nat /\ top \in Nat
        BY <1>2, Address, NullIsNoProcess DEF Typed
      <3> QED BY <1>9, <3>1 DEF Stacks
    <2>2. \A i \in before[p].reg.rsp[2] .. StackWords : mem'[<<p, i>>] = mem[<<p, i>>]
      BY <1>4, <2>1
    <2> QED BY <1>1, <1>10, <2>2, KeptStill
  <1>11. mem'[reg.rsp] = mem[reg.rsp]
    <2>1. top \in 0 .. StackWords /\ top >= top
      BY <1>2, NullIsNoProcess
    <2> QED BY <1>2, <1>4, <2>1
  <1>12. Runs(n)'
    <2>1. Kept(n)' /\ (Saved(n) => Saved(n)')
      BY <1>1, <1>10, SavedStill
    <2>2. Resumes(n)' = Resumes(n) /\ Me' = Me /\ (RegistersOf(n) => RegistersOf(n)')
      BY <1>1 DEF Resumes, Me, RegistersOf
    <2> QED BY <1>1, <1>11, <2>1, <2>2 DEF Runs, Loading
  <1>13. ASSUME NEW p \in Procs \ {n} PROVE Waits(p)'
    <2>1. Waits(p) /\ Kept(p)'
      BY <1>10 DEF HasCpu, Waits
    <2>2. CASE way = "call"
      BY <1>1, <2>1, <2>2, SavedStill DEF Waits
    <2>3. CASE way # "call"
      <3>1. p # Me
        BY <1>8, <2>3, NullIsNoProcess
      <3>2. \A i \in 0 .. StackWords : mem'[<<p, i>>] = mem[<<p, i>>]
        BY <1>4, <3>1 DEF Stacks
      <3> QED BY <1>1, <2>1, <3>2, WaitsStill
    <2> QED BY <2>2, <2>3
  <1> QED BY <1>6, <1>7, <1>12, <1>13 DEF HasCpu

--------------------------------------------------------------------------------

LEMMA Switching == IInv /\ [Next]_vars => IInv'
  <1> SUFFICES ASSUME Typed, NEW n \in Procs, HasCpu(n), [Next]_vars
               PROVE  Typed' /\ \E q \in Procs : HasCpu(q)'
    BY DEF IInv
  <1>1. ASSUME NEW next \in Procs, NEW site \in Sites, NEW v \in Values, NEW flags \in Flags,
               Call(next, site, v, flags)
        PROVE  Typed' /\ \E q \in Procs : HasCpu(q)'
    BY <1>1, CallStep
  <1>2. CASE context_switch_asm
    BY <1>2, SaveStep, LoadStep, LoadRdiStep, PushRipStep, LoadRsiStep, RetStep
       DEF context_switch_asm
  <1>3. ASSUME NEW site \in Sites, NEW v \in Values, NEW depth \in Depths,
               Interrupt(site, v, depth)
        PROVE  Typed' /\ \E q \in Procs : HasCpu(q)'
    BY <1>3, InterruptStep
  <1>4. ASSUME NEW next \in Procs, preempt_handler(next)
        PROVE  Typed' /\ \E q \in Procs : HasCpu(q)'
    BY <1>4, PreemptStep
  <1>5. CASE irq_common_stub
    BY <1>5, RestoreStep, IretqStep DEF irq_common_stub
  <1>6. CASE UNCHANGED vars
    <2>1. UNCHANGED <<way, pc, rip, reg, mem, pcb, before>>
      BY <1>6 DEF vars
    <2>2. Typed'
      BY <2>1 DEF Typed
    <2>3. Running' = n
      BY <2>1 DEF HasCpu, Running, Me
    <2>4. \A p \in Procs \ {n} : Waits(p)'
      BY <2>1, OthersWait DEF HasCpu
    <2>5. Runs(n)'
      BY <2>1 DEF HasCpu, Runs, Kept, Saved, Resumes, Framed, RegistersOf, OnStack, Me
    <2> QED BY <2>2, <2>3, <2>4, <2>5 DEF HasCpu
  <1>7. CASE Tick
    BY <1>7, TickStep
  <1> QED BY <1>1, <1>2, <1>3, <1>4, <1>5, <1>6, <1>7 DEF Next

(* The invariant, for any number of processes and any stack that holds a   *)
(* frame.                                                                  *)
THEOREM SwitchInvariant == Spec => []IInv
  BY StartsWell, Switching, PTL DEF Spec

(* The state keeps its type.                                               *)
THEOREM SwitchTypeOK == Spec => []TypeOK
  <1>1. IInv => TypeOK
    <2> SUFFICES ASSUME Typed PROVE TypeOK
      BY DEF IInv
    <2>1. DOMAIN mem = Addresses /\ \A a \in Addresses : mem[a] \in Words \union Addresses
      BY DEF Typed
    <2>2. \A p \in Procs : pcb[p].rsp[1] = p /\ pcb[p].rip \in Sites \union {Entry}
      BY DEF Typed
    <2> QED BY <2>1, <2>2 DEF Typed, TypeOK
  <1> QED BY <1>1, SwitchInvariant, PTL

(* A process gets the CPU back where it lost it: through the timer's       *)
(* interrupt with every register as it was; through context_switch_asm     *)
(* with rsp one word low, interrupts on, and the others as they were.      *)
THEOREM ContextAlwaysRestored == Spec => []ContextRestored
  <1>1. IInv => ContextRestored
    <2> SUFFICES ASSUME NEW n \in Procs, HasCpu(n), pc = "program"
                 PROVE  /\ rip = Left.to
                        /\ reg.rax = Left.reg.rax /\ reg.rbx = Left.reg.rbx
                        /\ reg.rdi = Left.reg.rdi /\ reg.rsi = Left.reg.rsi
                        /\ reg.rsp = IF way = "call" /\ Left.to # Entry
                                     THEN Below(Left.reg.rsp) ELSE Left.reg.rsp
                        /\ reg.flags = IF way = "call" THEN On ELSE Left.reg.flags
      BY DEF IInv, ContextRestored
    <2>1. Left = before[n] /\ Runs(n)
      BY DEF HasCpu, Running, Loading, Left
    <2> QED BY <2>1 DEF Runs, RegistersOf, Resumes
  <1> QED BY <1>1, SwitchInvariant, PTL

(* What it had pushed is on its stack, and rsp is not above it.            *)
THEOREM StackAlwaysKept == Spec => []StackContentsKept
  <1>1. IInv => StackContentsKept
    <2> SUFFICES ASSUME NEW n \in Procs, HasCpu(n), pc = "program"
                 PROVE  /\ reg.rsp[2] <= Left.reg.rsp[2]
                        /\ \A i \in Left.reg.rsp[2] .. StackWords :
                             mem[<<Me, i>>] = Left.stack[i]
      BY DEF IInv, StackContentsKept
    <2>1. Left = before[n] /\ Me = n /\ Runs(n)
      BY DEF HasCpu, Running, Loading, Left
    <2> QED BY <2>1 DEF Runs, Kept
  <1> QED BY <1>1, SwitchInvariant, PTL
================================================================================
