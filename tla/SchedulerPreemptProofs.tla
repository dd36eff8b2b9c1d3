------------------------ MODULE SchedulerPreemptProofs ------------------------
(***************************************************************************)
(* Theorems about SchedulerPreempt, for any number of processes, creators  *)
(* and killers, with quanta that end anywhere: what can go wrong, goes     *)
(* wrong in the windows that torn and overlapped record, and nowhere else. *)
(***************************************************************************)
EXTENDS SchedulerPreempt, ReadyQueueProofs, FiniteSetTheorems, WellFoundedInduction

(* Where process_create has given its PCB a pid and not yet counted it. *)
Named == {"enqueue", "link", "tail", "prev", "count"}

(* Where process_kill holds a TERMINATED victim that is still queued. *)
Unlinking == {"unlink", "relink", "head", "killtail"}

(* Not between the first and the last access of one update of the queue. *)
Outside == {"run", "pid", "nextpid", "enqueue", "unlink", "free"}

(* The PCBs whose pid is taken, by a creation that overlapped no other. *)
Numbered ==
  (live \union {arg[r] : r \in {r \in Procs : pc[r] \in Named}}) \ overlapped

(* The types, and that the calls in progress are about PCBs of their own,  *)
(* none of them counted.                                                   *)
CallInv ==
  /\ q \in Queue /\ current \in Procs /\ live \subseteq Procs
  /\ pc \in [Procs -> Labels] /\ arg \in [Procs -> Pointer]
  /\ \A r \in Procs : pc[r] # "run" => arg[r] \in Procs \ live
  /\ \A r, t \in Procs : pc[r] # "run" /\ pc[t] # "run" /\ arg[r] = arg[t] => r = t
  /\ \A r \in Procs : pc[r] \in {"link", "tail", "prev"} => reg[r] \in Pointer
  /\ DOMAIN reg = Procs /\ reg = [r \in Procs |-> reg[r]]

(* next_pid, and every copy of it that will yet be stored, is above every  *)
(* pid that was taken without overlap; of two copies at a time, both       *)
(* belong to creations that overlap.                                       *)
PidInv ==
  /\ next_pid \in Nat /\ pid \in [Procs -> Nat]
  /\ \A r \in BetweenPids : reg[r] \in Nat
  /\ \A r, t \in BetweenPids : r # t => arg[r] \in overlapped
  /\ \A a \in Numbered : pid[a] < next_pid /\ \A r \in BetweenPids : pid[a] < reg[r]
  /\ \A a, b \in Numbered : pid[a] = pid[b] => a = b

(* The TERMINATED processes that the queue still holds. *)
Doomed == {arg[r] : r \in {r \in Procs : pc[r] \in Unlinking}}

(* What queue_enqueue(p) has made of o when p is linked, and when it is    *)
(* the tail.                                                               *)
WithLink(o, p) ==
  IF o.tail = NULL
  THEN [o EXCEPT !.next = [@ EXCEPT ![p] = NULL], !.head = p]
  ELSE [o EXCEPT !.next = [@ EXCEPT ![p] = NULL, ![o.tail] = p], !.prev = [@ EXCEPT ![p] = o.tail]]

WithTail(o, p) == [WithLink(o, p) EXCEPT !.tail = p]

(* What process_kill has made of o when one of v's neighbours, both, and   *)
(* the head are moved off v.                                               *)
JoinedNext(o, v) ==
  IF o.prev[v] = NULL THEN o ELSE [o EXCEPT !.next = [@ EXCEPT ![o.prev[v]] = o.next[v]]]

JoinedPrev(o, v) ==
  IF o.next[v] = NULL THEN JoinedNext(o, v)
  ELSE [JoinedNext(o, v) EXCEPT !.prev = [@ EXCEPT ![o.next[v]] = o.prev[v]]]

HeadMoved(o, v) ==
  IF o.head = v THEN [JoinedPrev(o, v) EXCEPT !.head = o.next[v]] ELSE JoinedPrev(o, v)

(* The pointers are what the current process has made of o in the update   *)
(* it is in; outside an update they are o.                                 *)
UpdateOf(o, at, a) ==
  /\ at \in Outside => q = o
  /\ at = "link" => q = [o EXCEPT !.next = [@ EXCEPT ![a] = NULL]]
  /\ at = "tail" => q = WithLink(o, a)
  /\ at = "prev" => q = WithTail(o, a)
  /\ at = "count" => q = Enqueue(o, a)
  /\ at = "relink" => q = JoinedNext(o, a)
  /\ at = "head" => q = JoinedPrev(o, a)
  /\ at = "killtail" => q = HeadMoved(o, a)

(* Before the update that is going on, the pointers held every process but *)
(* the current one.                                                        *)
Queued(s, o) ==
  /\ s \in Seq(Procs) /\ o \in Queue /\ Represents(o, s)
  /\ ToSet(s) = (live \union Doomed) \ {current}
  /\ UpdateOf(o, pc[current], arg[current])
  /\ pc[current] \in {"link", "tail", "prev"} => reg[current] = o.tail

ListInv ==
  /\ \A r \in Procs \ {current} : pc[r] \in Outside
  /\ current \in live \union Doomed
  /\ \A r \in Procs : pc[r] \in Killing => r \in live
  /\ \E s, o : Queued(s, o)

(* process_count counts a process until its PCB is freed. *)
Killings == {r \in Procs : pc[r] \in Killing}

CountInv ==
  /\ IsFiniteSet(live)
  /\ process_count = Cardinality(live) + Cardinality(Killings)
-------------------------------------------------------------------------------

USE DEF Labels

(* The queue at the start holds all but the first process. *)

LinksFrom(f, s) ==
  f = [n \in 0 .. (Len(s) - 1) |-> IF n = 0 THEN EmptyQueue ELSE Enqueue(f[n - 1], s[n + 1])]

LEMMA LeastNatural ==
  ASSUME NEW T \in SUBSET Nat, T # {}
  PROVE  \E x \in T : \A y \in T : x <= y
  <1> DEFINE R == OpToRel(<, Nat)
  <1>1. IsWellFoundedOn(R, Nat)
    BY NatLessThanWellFounded
  <1>2. \A x, y \in Nat : (y < x) => <<y, x>> \in R
    BY DEF OpToRel
  <1> HIDE DEF R
  <1>3. PICK x \in T : \A y \in T : ~(<<y, x>> \in R)
    BY <1>1, WFMin
  <1>4. \A y \in T : ~(y < x)
    BY <1>2, <1>3, Zenon
  <1> QED BY <1>4

(* Enqueueing the elements one after another is a function. *)
LEMMA LinksExist ==
  ASSUME NEW s \in Seq(Procs), s # <<>>
  PROVE  \E f : LinksFrom(f, s)
  <1> DEFINE Upto(f, m) == f = [n \in 0 .. m |-> IF n = 0 THEN EmptyQueue
                                                 ELSE Enqueue(f[n - 1], s[n + 1])]
             Has(m) == \E f : Upto(f, m)
             Bad == {m \in Nat : ~Has(m)}
  <1>1. Has(0)
    <2> DEFINE f == [n \in 0 .. 0 |-> EmptyQueue]
    <2>1. f = [n \in 0 .. 0 |-> IF n = 0 THEN EmptyQueue ELSE Enqueue(f[n - 1], s[n + 1])]
      OBVIOUS
    <2> HIDE DEF f
    <2> QED BY <2>1
  <1>2. ASSUME NEW m \in Nat, Has(m)
        PROVE  Has(m + 1)
    <2>1. PICK f : f = [n \in 0 .. m |-> IF n = 0 THEN EmptyQueue
                                         ELSE Enqueue(f[n - 1], s[n + 1])]
      BY <1>2
    <2> DEFINE g == [n \in 0 .. (m + 1) |-> IF n = m + 1 THEN Enqueue(f[m], s[m + 2]) ELSE f[n]]
    <2>2. ASSUME NEW n \in 0 .. (m + 1)
          PROVE  g[n] = IF n = 0 THEN EmptyQueue ELSE Enqueue(g[n - 1], s[n + 1])
      <3>1. CASE n = m + 1
        <4>1. g[n] = Enqueue(f[m], s[m + 2]) /\ g[n - 1] = f[m] /\ n # 0 /\ n + 1 = m + 2
          BY <3>1
        <4> HIDE DEF g
        <4> QED BY <4>1
      <3>2. CASE n # m + 1
        <4>1. n \in 0 .. m
          BY <3>2
        <4>2. g[n] = f[n]
          BY <3>2
        <4>3. f[n] = IF n = 0 THEN EmptyQueue ELSE Enqueue(f[n - 1], s[n + 1])
          BY <2>1, <4>1
        <4>4. n # 0 => g[n - 1] = f[n - 1]
          BY <4>1
        <4> HIDE DEF g
        <4> QED BY <4>2, <4>3, <4>4
      <3> QED BY <3>1, <3>2
    <2>3. g = [n \in 0 .. (m + 1) |-> g[n]]
      OBVIOUS
    <2> HIDE DEF g
    <2>4. Upto(g, m + 1)
      BY <2>2, <2>3
    <2> QED BY <2>4
  <1> HIDE DEF Has
  <1>3. Bad = {}
    <2> SUFFICES ASSUME Bad # {} PROVE FALSE
      OBVIOUS
    <2>1. PICK m \in Bad : \A y \in Bad : m <= y
      <3>1. Bad \in SUBSET Nat
        OBVIOUS
      <3> HIDE DEF Bad
      <3> QED BY <3>1, LeastNatural
    <2>2. m \in Nat /\ ~Has(m) /\ m # 0
      BY <1>1
    <2>3. m - 1 \in Nat /\ m - 1 \notin Bad
      BY <2>1, <2>2
    <2>4. Has((m - 1) + 1)
      BY <1>2, <2>3
    <2>5. (m - 1) + 1 = m
      BY <2>2
    <2> QED BY <2>2, <2>4, <2>5
  <1>4. Len(s) - 1 \in Nat
    BY EmptySeq, LenProperties
  <1>5. Has(Len(s) - 1)
    BY <1>3, <1>4
  <1> QED BY <1>5 DEF Has, LinksFrom

LEMMA PrefixGrows ==
  ASSUME NEW S, NEW t \in Seq(S), NEW n \in 1 .. Len(t)
  PROVE  /\ SubSeq(t, 1, n - 1) \in Seq(S)
         /\ SubSeq(t, 1, n) = Append(SubSeq(t, 1, n - 1), t[n])
         /\ \A p \in ToSet(SubSeq(t, 1, n - 1)) : \E i \in 1 .. (n - 1) : p = t[i]
  <1> DEFINE m == Len(t)
             a == SubSeq(t, 1, n - 1)
             b == SubSeq(t, 1, n)
  <1>1. m \in Nat /\ n \in Nat /\ n > 0 /\ n <= m /\ \A i \in 1 .. m : t[i] \in S
    BY LenProperties, ElementOfSeq
  <1>2. a \in Seq(S) /\ Len(a) = n - 1 /\ \A i \in 1 .. (n - 1) : a[i] = t[i]
    BY <1>1, SubSeqProperties
  <1>3. b \in Seq(S) /\ Len(b) = n /\ \A i \in 1 .. n : b[i] = t[i]
    BY <1>1, SubSeqProperties
  <1> HIDE DEF a, b
  <1>4. t[n] \in S
    BY <1>1
  <1>5. /\ Append(a, t[n]) \in Seq(S) /\ Len(Append(a, t[n])) = n
        /\ \A i \in 1 .. n : Append(a, t[n])[i] = IF i = n THEN t[n] ELSE a[i]
    BY <1>1, <1>2, <1>4
  <1>6. b = Append(a, t[n])
    <2>1. \A i \in 1 .. n : b[i] = Append(a, t[n])[i]
      BY <1>1, <1>2, <1>3, <1>5
    <2> QED BY <1>3, <1>5, <2>1, SeqEqual
  <1>7. \A p \in ToSet(a) : \E i \in 1 .. (n - 1) : p = t[i]
    BY <1>1, <1>2, LenProperties DEF ToSet
  <1> QED BY <1>2, <1>6, <1>7 DEF a, b

LEMMA TailIsShifted ==
  ASSUME NEW S, NEW s \in Seq(S), s # <<>>
  PROVE  /\ Tail(s) \in Seq(S) /\ Len(Tail(s)) = Len(s) - 1 /\ Len(s) \in Nat \ {0}
         /\ \A n \in 1 .. (Len(s) - 1) : Tail(s)[n] = s[n + 1]
  OBVIOUS

LEMMA QueueAtStart == Linked \in Queue /\ Represents(Linked, Tail(Started))
  <1> DEFINE t == Tail(Started)
             m == Len(Started) - 1
             f == CHOOSE g : LinksFrom(g, Started)
             Good(n) == f[n] \in Queue /\ Represents(f[n], SubSeq(t, 1, n))
             Bad == {n \in 0 .. m : ~Good(n)}
  <1>1. /\ t \in Seq(Procs) /\ Len(t) = m /\ m \in Nat /\ NoRepeats(t)
        /\ \A n \in 1 .. m : t[n] = Started[n + 1]
    BY PreemptAssumption, TailIsShifted, TailElements
  <1> HIDE DEF t
  <1>2. LinksFrom(f, Started)
    <2>1. \E g : LinksFrom(g, Started)
      BY PreemptAssumption, LinksExist
    <2> QED BY <2>1
  <1>3. Linked = f[m]
    BY DEF Linked, LinksFrom
  <1> HIDE DEF f, m
  <1>4. f[0] = EmptyQueue /\ \A n \in 1 .. m : f[n] = Enqueue(f[n - 1], t[n])
    BY <1>1, <1>2 DEF LinksFrom, m
  <1>5. Good(0)
    <2>1. SubSeq(t, 1, 0) = <<>>
      BY <1>1
    <2> QED BY <1>4, <2>1 DEF EmptyQueue, Queue, Pointer, Represents, NoRepeats
  <1>6. ASSUME NEW n \in 1 .. m, Good(n - 1)
        PROVE  Good(n)
    <2>1. t[n] \in Procs /\ n \in 1 .. Len(t) /\ \A i \in 1 .. (n - 1) : i \in 1 .. Len(t) /\ i # n
      BY <1>1
    <2>2. \A i \in 1 .. (n - 1) : t[i] # t[n]
      BY <1>1, <2>1, LenProperties DEF NoRepeats
    <2>3. t[n] \notin ToSet(SubSeq(t, 1, n - 1))
      BY <1>1, <2>1, <2>2, PrefixGrows
    <2>4. /\ SubSeq(t, 1, n - 1) \in Seq(Procs)
          /\ SubSeq(t, 1, n) = Append(SubSeq(t, 1, n - 1), t[n])
      BY <1>1, <2>1, PrefixGrows
    <2>5. f[n] = Enqueue(f[n - 1], t[n])
      BY <1>4
    <2>6. f[n - 1] \in Queue /\ Represents(f[n - 1], SubSeq(t, 1, n - 1))
      BY <1>6
    <2>7. /\ Enqueue(f[n - 1], t[n]) \in Queue
          /\ Represents(Enqueue(f[n - 1], t[n]), Append(SubSeq(t, 1, n - 1), t[n]))
      BY <2>1, <2>3, <2>4, <2>6, EnqueueAppends
    <2> QED BY <2>4, <2>5, <2>7
  <1> HIDE DEF Good
  <1>7. Bad = {}
    <2> SUFFICES ASSUME Bad # {} PROVE FALSE
      OBVIOUS
    <2>1. PICK n \in Bad : \A y \in Bad : n <= y
      <3>1. Bad \in SUBSET Nat
        BY <1>1
      <3> HIDE DEF Bad
      <3> QED BY <3>1, LeastNatural
    <2>2. n \in 1 .. m /\ ~Good(n)
      BY <1>5, <1>1
    <2>3. n - 1 \in 0 .. m /\ n - 1 \notin Bad
      BY <1>1, <2>1, <2>2
    <2> QED BY <1>6, <2>2, <2>3
  <1>8. Good(m)
    BY <1>1, <1>7
  <1>9. SubSeq(t, 1, m) = t
    BY <1>1
  <1> QED BY <1>3, <1>8, <1>9 DEF Good, t

(* The pids at the start are the places in Started. *)
LEMMA PidsAtStart ==
  ASSUME Init
  PROVE  /\ live \subseteq Procs /\ pid \in [Procs -> Nat] /\ current \in live
         /\ \A i \in 1 .. Len(Started) : Started[i] \in Procs /\ pid[Started[i]] = i
         /\ live = {Started[i] : i \in 1 .. Len(Started)}
         /\ Len(Started) \in Nat /\ NoRepeats(Started)
  <1>1. /\ Len(Started) \in Nat /\ Len(Started) > 0 /\ DOMAIN Started = 1 .. Len(Started)
        /\ \A i \in 1 .. Len(Started) : Started[i] \in Procs
        /\ NoRepeats(Started) /\ Head(Started) = Started[1]
    BY PreemptAssumption
  <1>2. live = {Started[i] : i \in 1 .. Len(Started)}
    BY <1>1 DEF Init, ToSet
  <1>3. \A i \in 1 .. Len(Started) : pid[Started[i]] = i
    <2> TAKE i \in 1 .. Len(Started)
    <2>1. Started[i] \in ToSet(Started) /\ Started[i] \in Procs
      BY <1>1 DEF ToSet
    <2>2. \A j \in 1 .. Len(Started) : Started[j] = Started[i] => j = i
      BY <1>1 DEF NoRepeats
    <2>3. (CHOOSE j \in DOMAIN Started : Started[j] = Started[i]) = i
      BY <1>1, <2>2
    <2> QED BY <2>1, <2>3 DEF Init
  <1>4. pid \in [Procs -> Nat]
    <2>1. pid = [p \in Procs |-> pid[p]]
      BY DEF Init
    <2>2. ASSUME NEW p \in Procs PROVE pid[p] \in Nat
      <3>1. CASE p \in ToSet(Started)
        <4>1. PICK i \in 1 .. Len(Started) : Started[i] = p
          BY <1>1, <3>1 DEF ToSet
        <4> QED BY <1>3, <4>1
      <3>2. CASE p \notin ToSet(Started)
        BY <3>2 DEF Init
      <3> QED BY <3>1, <3>2
    <2> QED BY <2>1, <2>2
  <1>5. current \in live /\ live \subseteq Procs
    <2>1. current = Started[1] /\ 1 \in 1 .. Len(Started)
      BY <1>1 DEF Init
    <2> QED BY <1>1, <1>2, <2>1
  <1> QED BY <1>1, <1>2, <1>3, <1>4, <1>5

LEMMA CallInvInit == Init => CallInv
  <1> SUFFICES ASSUME Init PROVE CallInv
    OBVIOUS
  <1>1. q \in Queue
    BY QueueAtStart DEF Init
  <1> QED BY <1>1, PidsAtStart DEF Init, CallInv, Pointer

LEMMA PidInvInit == Init => PidInv
  <1> SUFFICES ASSUME Init PROVE PidInv
    OBVIOUS
  <1>1. \A r \in Procs : pc[r] = "run"
    BY DEF Init
  <1>2. Numbered = live /\ BetweenPids = {}
    BY <1>1 DEF Init, Numbered, Named, BetweenPids
  <1>3. \A a \in Numbered : \E i \in 1 .. Len(Started) : a = Started[i] /\ pid[a] = i
    BY <1>2, PidsAtStart
  <1>4. next_pid \in Nat /\ \A a \in Numbered : pid[a] < next_pid
    BY <1>3, PidsAtStart DEF Init
  <1>5. \A a, b \in Numbered : pid[a] = pid[b] => a = b
    BY <1>3
  <1> QED BY <1>2, <1>4, <1>5, PidsAtStart DEF PidInv

(* Which call an action is part of. *)
LEMMA CallInvStep == CallInv /\ [Next]_vars => CallInv'
  <1> SUFFICES ASSUME CallInv, [Next]_vars PROVE CallInv'
    OBVIOUS
  <1> USE DEF CallInv
  <1>1. /\ q.head \in Pointer /\ q.tail \in Pointer
        /\ q.next \in [Procs -> Pointer] /\ q.prev \in [Procs -> Pointer]
        /\ NULL \in Pointer
    BY DEF Queue, Pointer
  <1>2. ASSUME NEW h \in Pointer, NEW t \in Pointer,
               NEW n \in [Procs -> Pointer], NEW p \in [Procs -> Pointer]
        PROVE  [head |-> h, tail |-> t, next |-> n, prev |-> p] \in Queue
    BY DEF Queue
  <1>3. CASE CreateBegin
    <2>1. PICK p \in Procs \ (live \union InCall \union {current}) :
            /\ arg' = [arg EXCEPT ![current] = p]
            /\ pc' = [pc EXCEPT ![current] = "pid", ![p] = "run"]
      BY <1>3 DEF CreateBegin
    <2>2. /\ \A r \in Procs : pc[r] # "run" => arg[r] # p
          /\ pc[current] = "run"
          /\ q' = q /\ current' = current /\ live' = live /\ reg' = reg
      BY <1>3, <2>1 DEF CreateBegin, InCall, shared
    <2>3. p \in Pointer
      BY <2>1 DEF Pointer
    <2> QED BY <2>1, <2>2, <2>3
  <1>4. CASE CreateLoadPid
    BY <1>4 DEF CreateLoadPid, Step, shared
  <1>5. CASE CreateStorePid
    BY <1>5 DEF CreateStorePid, Step
  <1>6. CASE CreateLoadTail
    <2>1. q' \in Queue
      BY <1>1, <1>2, <1>6 DEF CreateLoadTail, Step, Queue
    <2> QED BY <1>1, <1>6, <2>1 DEF CreateLoadTail, Step
  <1>7. CASE CreateLink
    <2>1. q' \in Queue
      <3>1. arg[current] \in Procs /\ reg[current] \in Pointer /\ arg[current] \in Pointer
        BY <1>7 DEF CreateLink, Step, Pointer
      <3> QED BY <1>1, <1>7, <3>1 DEF CreateLink, Queue
    <2> QED BY <1>7, <2>1 DEF CreateLink, Step
  <1>8. CASE CreateSetTail
    <2>1. q' \in Queue
      BY <1>8 DEF CreateSetTail, Queue
    <2> QED BY <1>8, <2>1 DEF CreateSetTail, Step
  <1>9. CASE CreateClearPrev
    <2>1. q' \in Queue
      BY <1>1, <1>9 DEF CreateClearPrev, Queue
    <2> QED BY <1>9, <2>1 DEF CreateClearPrev, Step
  <1>10. CASE CreateCount
    BY <1>10 DEF CreateCount, Step
  <1>11. CASE KillBegin
    <2>1. PICK v \in live \ {current} :
            arg' = [arg EXCEPT ![current] = v] /\ live' = live \ {v}
      BY <1>11 DEF KillBegin
    <2>2. v \in Procs /\ v \in Pointer /\ \A r \in Procs : pc[r] # "run" => arg[r] # v
      BY <2>1 DEF Pointer
    <2> QED BY <1>11, <2>1, <2>2 DEF KillBegin, Step
  <1>12. CASE KillPrevNext
    <2>1. q' \in Queue
      BY <1>1, <1>12 DEF KillPrevNext, Step, Victim, Queue
    <2> QED BY <1>12, <2>1 DEF KillPrevNext, Step
  <1>13. CASE KillNextPrev
    <2>1. q' \in Queue
      BY <1>1, <1>13 DEF KillNextPrev, Step, Victim, Queue
    <2> QED BY <1>13, <2>1 DEF KillNextPrev, Step
  <1>14. CASE KillHead
    <2>1. q' \in Queue
      BY <1>1, <1>14 DEF KillHead, Step, Victim, Queue
    <2> QED BY <1>14, <2>1 DEF KillHead, Step
  <1>15. CASE KillTail
    <2>1. q' \in Queue
      BY <1>1, <1>15 DEF KillTail, Step, Victim, Queue
    <2> QED BY <1>15, <2>1 DEF KillTail, Step
  <1>16. CASE KillFree
    BY <1>16 DEF KillFree, Step
  <1>17. CASE preempt_handler
    <2> DEFINE e == Enqueue(q, current)
    <2>1. e \in Queue
      BY DEF Enqueue, Queue, Pointer
    <2>2. Dequeue(e) \in Queue
      <3> HIDE DEF e
      <3> QED BY <2>1 DEF Dequeue, Queue, Pointer
    <2>3. current' \in Procs
      <3>1. e.head \in Pointer
        BY <2>1 DEF Queue
      <3> HIDE DEF e
      <3> QED BY <1>17, <3>1 DEF preempt_handler, e, Pointer
    <2> QED BY <1>17, <2>2, <2>3 DEF preempt_handler
  <1>18. CASE UNCHANGED vars
    BY <1>18 DEF vars
  <1> QED BY <1>3, <1>4, <1>5, <1>6, <1>7, <1>8, <1>9, <1>10, <1>11, <1>12, <1>13, <1>14,
             <1>15, <1>16, <1>17, <1>18
          DEF Next, process_create, process_kill
-------------------------------------------------------------------------------

(* Pids, whatever is preempted where and whoever kills whom. *)

LEMMA PidInvStep == CallInv /\ PidInv /\ [Next]_vars => PidInv'
  <1> SUFFICES ASSUME CallInv, PidInv, [Next]_vars PROVE PidInv'
    OBVIOUS
  <1> USE DEF PidInv
  <1>1. /\ current \in Procs /\ live \subseteq Procs /\ pc \in [Procs -> Labels]
        /\ arg \in [Procs -> Pointer] /\ DOMAIN reg = Procs
        /\ \A r \in Procs : pc[r] # "run" => arg[r] \in Procs \ live
        /\ \A r, t \in Procs : pc[r] # "run" /\ pc[t] # "run" /\ arg[r] = arg[t] => r = t
    BY DEF CallInv
  <1>2. \A a : a \in Numbered <=> /\ a \notin overlapped
                                  /\ a \in live \/ \E r \in Procs : pc[r] \in Named /\ a = arg[r]
    BY DEF Numbered
  <1>3. \A a : a \in Numbered' <=> /\ a \notin overlapped'
                                   /\ a \in live' \/ \E r \in Procs : pc'[r] \in Named /\ a = arg'[r]
    BY DEF Numbered
  <1>13. /\ \A r : r \in BetweenPids <=> r \in Procs /\ pc[r] = "nextpid"
         /\ \A r : r \in BetweenPids' <=> r \in Procs /\ pc'[r] = "nextpid"
    BY DEF BetweenPids
  (* A step that names no PCB, reads no pid and leaves the pids alone. *)
  <1>4. ASSUME Numbered' \subseteq Numbered, UNCHANGED <<next_pid, pid, overlapped>>,
               \A r \in BetweenPids' : r \in BetweenPids /\ reg'[r] = reg[r] /\ arg'[r] = arg[r]
        PROVE  PidInv'
    BY <1>4
  <1>5. CASE CreateBegin
    <2>1. PICK p \in Procs \ (live \union InCall \union {current}) :
            /\ arg' = [arg EXCEPT ![current] = p]
            /\ pc' = [pc EXCEPT ![current] = "pid", ![p] = "run"]
      BY <1>5 DEF CreateBegin
    <2>2. \A r \in Procs : \/ pc'[r] = pc[r] /\ r # current
                           \/ pc'[r] \notin Named \union {"nextpid"}
      BY <1>1, <2>1 DEF Named
    <2>3. \A r \in Procs : pc'[r] \in Named \union {"nextpid"} => arg'[r] = arg[r] /\ pc[r] = pc'[r]
      BY <1>1, <2>1, <2>2
    <2>4. Numbered' \subseteq Numbered
      <3>1. live' = live /\ overlapped' = overlapped
        BY <1>5 DEF CreateBegin, shared, history
      <3> SUFFICES ASSUME NEW a, a \in Numbered' PROVE a \in Numbered
        OBVIOUS
      <3>2. /\ a \notin overlapped
            /\ a \in live \/ \E r \in Procs : pc'[r] \in Named /\ a = arg'[r]
        BY <1>3, <3>1
      <3> QED BY <1>2, <2>3, <3>2
    <2>5. \A r \in BetweenPids' : r \in BetweenPids /\ arg'[r] = arg[r]
      BY <1>13, <2>3
    <2> QED BY <1>4, <1>5, <2>4, <2>5 DEF CreateBegin, shared, history
  <1>6. CASE CreateLoadPid
    <2> DEFINE a == arg[current]
    <2>1. /\ pc[current] = "pid" /\ reg'[current] = next_pid
          /\ \A r \in Procs : pc'[r] = IF r = current THEN "nextpid" ELSE pc[r]
          /\ \A r \in Procs : r # current => reg'[r] = reg[r]
          /\ UNCHANGED <<next_pid, pid, live, arg>>
      BY <1>1, <1>6 DEF CreateLoadPid, Step, shared
    <2>2. \/ BetweenPids = {} /\ overlapped' = overlapped \ {a}
          \/ BetweenPids # {} /\ overlapped' = overlapped \union {a} \union {arg[r] : r \in BetweenPids}
      BY <1>6 DEF CreateLoadPid
    <2>3. BetweenPids' = BetweenPids \union {current} /\ current \notin BetweenPids
      BY <1>1, <1>13, <2>1
    <2>4. a \notin live /\ \A r \in Procs : pc[r] \in Named => arg[r] # a
      BY <1>1, <2>1 DEF Named
    <2>5. Numbered' \subseteq Numbered
      <3> HIDE DEF a
      <3>1. ASSUME NEW b, b \in Numbered' PROVE b \in Numbered
        <4>1. b \notin overlapped' /\ (b \in live \/ \E r \in Procs : pc'[r] \in Named /\ b = arg[r])
          BY <1>3, <2>1, <3>1
        <4>2. b \in live \/ \E r \in Procs : pc[r] \in Named /\ b = arg[r]
          BY <2>1, <4>1 DEF Named
        <4>3. b # a
          BY <2>4, <4>2
        <4> QED BY <1>2, <2>2, <4>1, <4>2, <4>3
      <3> QED BY <3>1
    <2>6. \A r, t \in BetweenPids' : r # t => arg[r] \in overlapped'
      BY <2>2, <2>3
    <2>7. \A r \in BetweenPids' : reg'[r] = IF r = current THEN next_pid ELSE reg[r]
      BY <1>13, <2>1
    <2> HIDE DEF a
    <2>8. \A b \in Numbered' : pid[b] < next_pid /\ \A r \in BetweenPids' : pid[b] < reg'[r]
      BY <2>3, <2>5, <2>7
    <2>9. \A r \in BetweenPids' : reg'[r] \in Nat
      BY <2>3, <2>7
    <2>10. \A b, c \in Numbered' : pid[b] = pid[c] => b = c
      BY <2>5
    <2> QED BY <2>1, <2>6, <2>8, <2>9, <2>10
  <1>7. CASE CreateStorePid
    <2> DEFINE a == arg[current]
               n == reg[current]
    <2>1. /\ pc[current] = "nextpid"
          /\ \A r \in Procs : pc'[r] = IF r = current THEN "enqueue" ELSE pc[r]
          /\ next_pid' = n + 1 /\ pid' = [pid EXCEPT ![a] = n]
          /\ UNCHANGED <<live, arg, reg, overlapped>>
      BY <1>1, <1>7 DEF CreateStorePid, Step, history
    <2>2. a \in Procs \ live /\ current \in BetweenPids /\ n \in Nat
      BY <1>1, <1>13, <2>1
    <2>3. a \notin Numbered
      BY <1>1, <1>2, <2>1, <2>2 DEF Named
    <2>4. Numbered' \subseteq (Numbered \union {a}) \ overlapped
      BY <1>2, <1>3, <2>1
    <2>5. \A b \in Numbered : b \in Procs /\ pid[b] \in Nat /\ pid[b] < n
      BY <1>1, <1>2, <2>2 DEF Named
    <2>6. \A r \in BetweenPids' : r \in BetweenPids /\ r # current
      BY <1>13, <2>1
    <2>7. a \notin overlapped => BetweenPids' = {}
      BY <2>2, <2>6
    <2> HIDE DEF a, n
    <2>8. \A b \in Numbered : pid'[b] = pid[b]
      BY <2>1, <2>3, <2>5
    <2>9. pid'[a] = n
      BY <2>1, <2>2
    <2>10. \A b \in Numbered' : b \in Numbered \/ (b = a /\ a \notin overlapped)
      BY <2>4
    <2>11. \A b \in Numbered' : pid'[b] < next_pid'
      BY <2>1, <2>2, <2>5, <2>8, <2>9, <2>10
    <2>12. \A b \in Numbered', r \in BetweenPids' : pid'[b] < reg'[r]
      BY <2>1, <2>6, <2>7, <2>8, <2>10
    <2>13. \A b, c \in Numbered' : pid'[b] = pid'[c] => b = c
      BY <2>2, <2>5, <2>8, <2>9, <2>10
    <2>14. next_pid' \in Nat /\ pid' \in [Procs -> Nat]
      <3>1. pid \in [Procs -> Nat]
        OBVIOUS
      <3> QED BY <2>1, <2>2, <3>1
    <2>15. /\ \A r \in BetweenPids' : reg'[r] \in Nat
           /\ \A r, t \in BetweenPids' : r # t => arg'[r] \in overlapped'
      BY <2>1, <2>6
    <2> QED BY <2>11, <2>12, <2>13, <2>14, <2>15
  <1>8. CASE \/ CreateLoadTail \/ CreateLink \/ CreateSetTail \/ CreateClearPrev
             \/ KillPrevNext \/ KillNextPrev \/ KillHead \/ KillTail \/ KillFree
    <2>1. /\ pc[current] \in Named <=> pc'[current] \in Named
          /\ \A r \in Procs \ {current} : pc'[r] = pc[r]
          /\ pc'[current] # "nextpid" /\ live' = live /\ arg' = arg
          /\ \A r \in Procs \ {current} : reg'[r] = reg[r]
          /\ UNCHANGED <<next_pid, pid, overlapped>>
      BY <1>1, <1>8
         DEF Step, Named, CreateLoadTail, CreateLink, CreateSetTail, CreateClearPrev,
             KillPrevNext, KillNextPrev, KillHead, KillTail, KillFree, history
    <2>2. Numbered' \subseteq Numbered
      BY <1>2, <1>3, <2>1
    <2>3. \A r \in BetweenPids' : r \in BetweenPids /\ reg'[r] = reg[r] /\ arg'[r] = arg[r]
      BY <1>13, <2>1
    <2> QED BY <1>4, <2>1, <2>2, <2>3
  <1>9. CASE CreateCount
    <2>1. /\ pc[current] = "count" /\ live' = live \union {arg[current]} /\ arg' = arg
          /\ \A r \in Procs : pc'[r] = IF r = current THEN "run" ELSE pc[r]
          /\ UNCHANGED <<next_pid, pid, overlapped, reg>>
      BY <1>1, <1>9 DEF CreateCount, Step, history
    <2>2. Numbered' \subseteq Numbered
      BY <1>1, <1>2, <1>3, <2>1 DEF Named
    <2>3. \A r \in BetweenPids' : r \in BetweenPids
      BY <1>13, <2>1
    <2> QED BY <1>4, <2>1, <2>2, <2>3
  <1>10. CASE KillBegin
    <2>1. /\ live' \subseteq live
          /\ \A r \in Procs : pc'[r] = IF r = current THEN "unlink" ELSE pc[r]
          /\ \A r \in Procs \ {current} : arg'[r] = arg[r]
          /\ UNCHANGED <<next_pid, pid, overlapped, reg>>
      BY <1>1, <1>10 DEF KillBegin, Step
    <2>2. Numbered' \subseteq Numbered
      BY <1>2, <1>3, <2>1 DEF Named
    <2>3. \A r \in BetweenPids' : r \in BetweenPids /\ arg'[r] = arg[r]
      BY <1>13, <2>1
    <2> QED BY <1>4, <2>1, <2>2, <2>3
  <1>11. CASE preempt_handler
    <2>1. UNCHANGED <<next_pid, pid, overlapped, reg, live, arg, pc>>
      BY <1>11 DEF preempt_handler
    <2>2. Numbered' \subseteq Numbered /\ BetweenPids' = BetweenPids
      BY <1>2, <1>3, <2>1 DEF BetweenPids
    <2> QED BY <1>4, <2>1, <2>2
  <1>12. CASE UNCHANGED vars
    <2>1. Numbered' \subseteq Numbered /\ BetweenPids' = BetweenPids
      BY <1>2, <1>3, <1>12 DEF vars, history, BetweenPids
    <2> QED BY <1>4, <1>12, <2>1 DEF vars, history
  <1> QED BY <1>5, <1>6, <1>7, <1>8, <1>9, <1>10, <1>11, <1>12
          DEF Next, process_create, process_kill

(* next_pid++ hands a pid out twice only to creations that overlap there:  *)
(* wherever processes are preempted or killed, and whatever becomes of the *)
(* queue.                                                                  *)
THEOREM PidsRepeatOnlyByOverlap == Spec => []PidsRepeatOnlyIfOverlapped
  <1>1. Init => CallInv /\ PidInv
    BY CallInvInit, PidInvInit
  <1>2. CallInv /\ PidInv /\ [Next]_vars => (CallInv /\ PidInv)'
    BY CallInvStep, PidInvStep
  <1>3. CallInv /\ PidInv => PidsRepeatOnlyIfOverlapped
    BY DEF PidInv, PidsRepeatOnlyIfOverlapped, Numbered
  <1> QED BY <1>1, <1>2, <1>3, PTL DEF Spec
-------------------------------------------------------------------------------

(* The statements of queue_enqueue, one after the other, are Enqueue, and  *)
(* those of process_kill are Unlink.                                       *)

LEMMA LinkSteps ==
  ASSUME NEW o \in Queue, NEW p \in Procs, p # o.tail
  PROVE  /\ LET l == [o EXCEPT !.next = [@ EXCEPT ![p] = NULL]]
            IN  WithLink(o, p) = IF o.tail = NULL THEN [l EXCEPT !.head = p]
                                 ELSE [l EXCEPT !.prev[p] = o.tail, !.next[o.tail] = p]
         /\ Enqueue(o, p) = IF o.tail = NULL THEN [WithTail(o, p) EXCEPT !.prev[p] = NULL]
                            ELSE WithTail(o, p)
  <1> DEFINE h == o.head
             t == o.tail
             n == o.next
             b == o.prev
  <1>1. /\ o = [head |-> h, tail |-> t, next |-> n, prev |-> b]
        /\ n \in [Procs -> Pointer] /\ b \in [Procs -> Pointer] /\ t \in Pointer
    BY DEF Queue
  <1> HIDE DEF h, t, n, b
  <1> QED BY <1>1 DEF WithLink, WithTail, Enqueue

LEMMA UnlinkSteps ==
  ASSUME NEW o \in Queue, NEW v \in Procs, o.prev[v] # v, o.next[v] # v
  PROVE  /\ LET j == JoinedNext(o, v)
            IN  JoinedPrev(o, v) = IF j.next[v] = NULL THEN j
                                   ELSE [j EXCEPT !.prev[j.next[v]] = j.prev[v]]
         /\ LET j == JoinedPrev(o, v)
            IN  HeadMoved(o, v) = IF j.head = v THEN [j EXCEPT !.head = j.next[v]] ELSE j
         /\ LET j == HeadMoved(o, v)
            IN  Unlink(o, v) = IF j.tail = v THEN [j EXCEPT !.tail = j.prev[v]] ELSE j
  <1> DEFINE h == o.head
             t == o.tail
             n == o.next
             b == o.prev
             nn == IF b[v] = NULL THEN n ELSE [n EXCEPT ![b[v]] = n[v]]
             bb == IF n[v] = NULL THEN b ELSE [b EXCEPT ![n[v]] = b[v]]
             hh == IF h = v THEN n[v] ELSE h
             tt == IF t = v THEN b[v] ELSE t
  <1>1. /\ o = [head |-> h, tail |-> t, next |-> n, prev |-> b]
        /\ n \in [Procs -> Pointer] /\ b \in [Procs -> Pointer] /\ b[v] # v /\ n[v] # v
    BY DEF Queue
  <1> HIDE DEF h, t, n, b
  <1>2. nn[v] = n[v] /\ bb[v] = b[v]
    BY <1>1
  <1>3. JoinedNext(o, v) = [head |-> h, tail |-> t, next |-> nn, prev |-> b]
    BY <1>1 DEF JoinedNext
  <1>4. JoinedPrev(o, v) = [head |-> h, tail |-> t, next |-> nn, prev |-> bb]
    BY <1>1, <1>3 DEF JoinedPrev
  <1>5. HeadMoved(o, v) = [head |-> hh, tail |-> t, next |-> nn, prev |-> bb]
    BY <1>1, <1>4 DEF HeadMoved
  <1>6. Unlink(o, v) = [head |-> hh, tail |-> tt, next |-> nn, prev |-> bb]
    <2>1. /\ o.head = h /\ o.tail = t /\ o.next = n /\ o.prev = b
      BY <1>1
    <2>2. Unlink(o, v) = [o EXCEPT !.next = nn, !.prev = bb, !.head = hh, !.tail = tt]
      BY <2>1, Zenon DEF Unlink
    <2> HIDE DEF nn, bb, hh, tt
    <2> QED BY <1>1, <2>2
  <1>7. JoinedPrev(o, v) = IF nn[v] = NULL THEN JoinedNext(o, v)
                           ELSE [JoinedNext(o, v) EXCEPT !.prev[nn[v]] = b[v]]
    BY <1>2, <1>3, <1>4
  <1> HIDE DEF nn, bb, hh, tt
  <1>8. HeadMoved(o, v) = IF h = v THEN [JoinedPrev(o, v) EXCEPT !.head = nn[v]]
                          ELSE JoinedPrev(o, v)
    BY <1>2, <1>4, <1>5 DEF hh
  <1>9. Unlink(o, v) = IF t = v THEN [HeadMoved(o, v) EXCEPT !.tail = bb[v]]
                       ELSE HeadMoved(o, v)
    BY <1>2, <1>5, <1>6 DEF tt
  <1>10. /\ JoinedNext(o, v).next = nn /\ JoinedNext(o, v).prev = b
         /\ JoinedPrev(o, v).head = h /\ JoinedPrev(o, v).next = nn
         /\ HeadMoved(o, v).tail = t /\ HeadMoved(o, v).prev = bb
    BY <1>3, <1>4, <1>5
  <1> QED BY <1>7, <1>8, <1>9, <1>10

(* No element of a list is its own neighbour, and only the last is the     *)
(* tail.                                                                   *)
LEMMA NoLoops ==
  ASSUME NEW o \in Queue, NEW s \in Seq(Procs), Represents(o, s)
  PROVE  /\ \A v \in ToSet(s) : o.prev[v] # v /\ o.next[v] # v
         /\ o.tail # NULL => o.tail \in ToSet(s) /\ o.next[o.tail] = NULL
         /\ o.tail = NULL => s = <<>>
  <1> DEFINE n == Len(s)
  <1>1. n \in Nat /\ DOMAIN s = 1 .. n /\ \A i \in 1 .. n : s[i] \in Procs /\ s[i] # NULL
    BY LenProperties, ElementOfSeq, NullAssumption
  <1>2. \A i, j \in 1 .. n : s[i] = s[j] => i = j
    BY <1>1 DEF Represents, NoRepeats
  <1>3. \A i \in 1 .. n : /\ o.next[s[i]] = IF i = n THEN NULL ELSE s[i + 1]
                          /\ o.prev[s[i]] = IF i = 1 THEN NULL ELSE s[i - 1]
    BY <1>1 DEF Represents
  <1>4. o.tail = IF s = <<>> THEN NULL ELSE s[n]
    BY DEF Represents
  <1>5. \A v \in ToSet(s) : \E i \in 1 .. n : v = s[i]
    BY <1>1 DEF ToSet
  <1>6. s # <<>> => n \in 1 .. n
    BY <1>1, EmptySeq
  <1> HIDE DEF n
  <1>7. \A i \in 1 .. n : o.next[s[i]] # s[i]
    <2> TAKE i \in 1 .. n
    <2>1. CASE i = n
      BY <1>1, <1>3, <2>1
    <2>2. CASE i # n
      <3>1. i + 1 \in 1 .. n /\ i + 1 # i
        BY <1>1, <2>2
      <3> QED BY <1>2, <1>3, <2>2, <3>1
    <2> QED BY <2>1, <2>2
  <1>8. \A i \in 1 .. n : o.prev[s[i]] # s[i]
    <2> TAKE i \in 1 .. n
    <2>1. CASE i = 1
      BY <1>1, <1>3, <2>1
    <2>2. CASE i # 1
      <3>1. i - 1 \in 1 .. n /\ i - 1 # i
        BY <1>1, <2>2
      <3> QED BY <1>2, <1>3, <2>2, <3>1
    <2> QED BY <2>1, <2>2
  <1>9. o.tail # NULL => o.tail \in ToSet(s) /\ o.next[o.tail] = NULL
    BY <1>1, <1>3, <1>4, <1>6 DEF ToSet
  <1>10. o.tail = NULL => s = <<>>
    BY <1>1, <1>4, <1>6
  <1> QED BY <1>5, <1>7, <1>8, <1>9, <1>10
-------------------------------------------------------------------------------

(* The queue, as long as no update was torn. *)

LEMMA ListInvInit == Init => ListInv
  <1> SUFFICES ASSUME Init PROVE ListInv
    OBVIOUS
  <1>1. /\ \A r \in Procs : pc[r] = "run"
        /\ Doomed = {}
    BY DEF Init, Doomed, Unlinking
  <1>2. Started \in Seq(Procs) /\ Started # <<>> /\ NoRepeats(Started)
    BY PreemptAssumption
  <1>3. Tail(Started) \in Seq(Procs) /\ ToSet(Tail(Started)) = live \ {current}
    BY <1>2, TailElements, TailIsShifted DEF Init
  <1>4. q \in Queue /\ Represents(q, Tail(Started))
    BY QueueAtStart DEF Init
  <1>5. current \in live /\ current \in Procs
    BY PidsAtStart
  <1>6. UpdateOf(q, pc[current], arg[current])
    BY <1>1, <1>5 DEF UpdateOf
  <1>7. Queued(Tail(Started), q)
    BY <1>1, <1>3, <1>4, <1>5, <1>6 DEF Queued
  <1> QED BY <1>1, <1>5, <1>7 DEF ListInv, Outside, Killing

LEMMA ListInvStep ==
  ASSUME CallInv, ListInv, [Next]_vars, ~torn'
  PROVE  ListInv'
  <1>1. /\ q \in Queue /\ current \in Procs /\ live \subseteq Procs
        /\ pc \in [Procs -> Labels] /\ arg \in [Procs -> Pointer]
        /\ \A r \in Procs : pc[r] # "run" => arg[r] \in Procs \ live
        /\ \A r, t \in Procs : pc[r] # "run" /\ pc[t] # "run" /\ arg[r] = arg[t] => r = t
    BY DEF CallInv
  <1>2. PICK s, o : Queued(s, o)
    BY DEF ListInv
  <1>3. /\ s \in Seq(Procs) /\ o \in Queue /\ Represents(o, s)
        /\ ToSet(s) = (live \union Doomed) \ {current}
        /\ UpdateOf(o, pc[current], arg[current])
        /\ pc[current] \in {"link", "tail", "prev"} => reg[current] = o.tail
    BY <1>2 DEF Queued
  <1>4. /\ \A r \in Procs \ {current} : pc[r] \in Outside
        /\ current \in live \union Doomed
        /\ \A r \in Procs : pc[r] \in Killing => r \in live
    BY DEF ListInv
  <1>5. \A a : a \in Doomed <=> \E r \in Procs : pc[r] \in Unlinking /\ a = arg[r]
    BY DEF Doomed
  <1>6. \A a : a \in Doomed' <=> \E r \in Procs : pc'[r] \in Unlinking /\ a = arg'[r]
    BY DEF Doomed
  <1>7. \A a \in Doomed : a \in Procs \ live
    BY <1>1, <1>5 DEF Unlinking, Killing
  (* What is created by somebody is neither counted nor doomed. *)
  <1>8. \A r \in Procs : pc[r] \notin Unlinking \union {"run"} => arg[r] \notin live \union Doomed
    BY <1>1, <1>5 DEF Unlinking, Killing
  (* A step inside a call changes neither who is counted nor who is doomed *)
  (* nor who runs.                                                         *)
  <1>9. ASSUME UNCHANGED <<current, live, arg>>, NEW at \in Labels,
               pc' = [pc EXCEPT ![current] = at],
               pc[current] \in Unlinking <=> at \in Unlinking,
               at \in Killing => pc[current] \in Killing,
               NEW r0, r0 = reg'[current], at \in {"link", "tail", "prev"} => r0 = o.tail,
               UpdateOf(o, at, arg[current])'
        PROVE  ListInv'
    <2>1. \A r \in Procs : pc'[r] \in Unlinking <=> pc[r] \in Unlinking
      BY <1>1, <1>9
    <2>2. Doomed' = Doomed
      BY <1>5, <1>6, <1>9, <2>1
    <2>3. pc'[current] = at /\ \A r \in Procs \ {current} : pc'[r] = pc[r]
      BY <1>1, <1>9
    <2>4. Queued(s, o)'
      BY <1>3, <1>9, <2>2, <2>3 DEF Queued
    <2>5. \A r \in Procs : pc'[r] \in Killing => r \in live
      BY <1>4, <1>9, <2>3
    <2> QED BY <1>4, <1>9, <2>2, <2>3, <2>4, <2>5 DEF ListInv
  <1>10. ASSUME pc[current] \in Outside PROVE q = o
    BY <1>3, <1>10 DEF UpdateOf
  <1> DEFINE a == arg[current]
  <1>11. CASE CreateBegin
    <2>1. PICK p \in Procs \ (live \union InCall \union {current}) :
            /\ arg' = [arg EXCEPT ![current] = p]
            /\ pc' = [pc EXCEPT ![current] = "pid", ![p] = "run"]
      BY <1>11 DEF CreateBegin
    <2>2. pc[current] = "run" /\ q' = q /\ current' = current /\ live' = live /\ reg' = reg
      BY <1>11 DEF CreateBegin, shared
    <2>3. /\ \A r \in Procs \ {current, p} : pc'[r] = pc[r] /\ arg'[r] = arg[r]
          /\ pc'[current] = "pid" /\ pc'[p] = "run" /\ pc[p] \notin Killing
      BY <1>1, <1>4, <2>1
    <2>4. \A r \in Procs : pc'[r] \in Unlinking <=> pc[r] \in Unlinking
      BY <1>1, <2>2, <2>3 DEF Unlinking, Killing
    <2>5. Doomed' = Doomed
      <3>1. \A r \in Procs : pc[r] \in Unlinking => arg'[r] = arg[r]
        BY <2>2, <2>3 DEF Unlinking, Killing
      <3> QED BY <1>5, <1>6, <2>4, <3>1
    <2>6. UpdateOf(o, pc[current], arg[current])'
      BY <1>10, <2>2, <2>3 DEF UpdateOf, Outside
    <2>7. Queued(s, o)'
      BY <1>3, <2>2, <2>3, <2>5, <2>6 DEF Queued
    <2>8. \A r \in Procs \ {current} : pc'[r] \in Outside
      BY <1>4, <2>3 DEF Outside
    <2>9. \A r \in Procs : pc'[r] \in Killing => r \in live
      BY <1>4, <2>3 DEF Unlinking, Killing
    <2> QED BY <1>4, <2>2, <2>5, <2>7, <2>8, <2>9 DEF ListInv
  <1>12. CASE CreateLoadPid
    <2>1. UpdateOf(o, "nextpid", a)'
      BY <1>10, <1>12 DEF CreateLoadPid, Step, shared, UpdateOf, Outside
    <2> QED BY <1>9, <1>12, <2>1 DEF CreateLoadPid, Step, shared, Unlinking, Killing
  <1>13. CASE CreateStorePid
    <2>1. UpdateOf(o, "enqueue", a)'
      BY <1>10, <1>13 DEF CreateStorePid, Step, UpdateOf, Outside
    <2> QED BY <1>9, <1>13, <2>1 DEF CreateStorePid, Step, Unlinking, Killing
  (* The PCB that is enqueued is not in the queue. *)
  <1>14. ASSUME pc[current] \in {"enqueue", "link", "tail", "prev", "count"}
         PROVE  /\ a \in Procs \ live /\ a \notin ToSet(s) /\ a # o.tail /\ a # current
                /\ a \notin Doomed
    <2>1. a \in Procs \ live /\ a \notin live \union Doomed
      BY <1>1, <1>8, <1>14 DEF Unlinking, Killing
    <2>2. o.tail # NULL => o.tail \in ToSet(s)
      BY <1>3, NoLoops
    <2> QED BY <1>3, <1>4, <2>1, <2>2, NullAssumption
  <1>15. CASE CreateLoadTail
    <2>1. q = o /\ pc[current] = "enqueue"
      BY <1>10, <1>15 DEF CreateLoadTail, Step, Outside
    <2>2. q' = [o EXCEPT !.next = [@ EXCEPT ![a] = NULL]] /\ reg'[current] = o.tail
      BY <1>1, <1>15, <2>1 DEF CreateLoadTail, CallInv
    <2>3. UpdateOf(o, "link", a)'
      BY <1>15, <2>2 DEF CreateLoadTail, UpdateOf, Outside
    <2> QED BY <1>9, <1>15, <2>2, <2>3 DEF CreateLoadTail, Step, Unlinking, Killing
  <1>16. CASE CreateLink
    <2>1. /\ pc[current] = "link" /\ reg[current] = o.tail
          /\ q = [o EXCEPT !.next = [@ EXCEPT ![a] = NULL]]
      BY <1>3, <1>16 DEF CreateLink, Step, UpdateOf
    <2>2. q' = WithLink(o, a)
      BY <1>3, <1>14, <1>16, <2>1, LinkSteps DEF CreateLink
    <2>3. UpdateOf(o, "tail", a)'
      BY <1>16, <2>2 DEF CreateLink, UpdateOf, Outside
    <2> QED BY <1>9, <1>16, <2>1, <2>3 DEF CreateLink, Step, Unlinking, Killing
  <1>17. CASE CreateSetTail
    <2>1. pc[current] = "tail" /\ reg[current] = o.tail /\ q = WithLink(o, a)
      BY <1>3, <1>17 DEF CreateSetTail, Step, UpdateOf
    <2>2. UpdateOf(o, "prev", a)'
      BY <1>17, <2>1 DEF CreateSetTail, UpdateOf, Outside, WithTail
    <2> QED BY <1>9, <1>17, <2>1, <2>2 DEF CreateSetTail, Step, Unlinking, Killing
  <1>18. CASE CreateClearPrev
    <2>1. pc[current] = "prev" /\ reg[current] = o.tail /\ q = WithTail(o, a)
      BY <1>3, <1>18 DEF CreateClearPrev, Step, UpdateOf
    <2>2. q' = Enqueue(o, a)
      BY <1>3, <1>14, <1>18, <2>1, LinkSteps DEF CreateClearPrev
    <2>3. UpdateOf(o, "count", a)'
      BY <1>18, <2>2 DEF CreateClearPrev, UpdateOf, Outside
    <2> QED BY <1>9, <1>18, <2>1, <2>3 DEF CreateClearPrev, Step, Unlinking, Killing
  <1>19. CASE CreateCount
    <2>1. /\ pc[current] = "count" /\ q = Enqueue(o, a) /\ q' = q /\ current' = current
          /\ live' = live \union {a} /\ arg' = arg
          /\ \A r \in Procs : pc'[r] = IF r = current THEN "run" ELSE pc[r]
      BY <1>1, <1>3, <1>19 DEF CreateCount, Step, UpdateOf
    <2>2. q' \in Queue /\ Represents(q', Append(s, a)) /\ a # current
      BY <1>3, <1>14, <2>1, EnqueueAppends
    <2>3. Doomed' = Doomed
      BY <1>5, <1>6, <2>1 DEF Unlinking, Killing
    <2>4. ToSet(Append(s, a)) = (live' \union Doomed') \ {current'} /\ Append(s, a) \in Seq(Procs)
      BY <1>3, <1>14, <2>1, <2>2, <2>3, AppendElements
    <2>5. PICK u : u = q'
      OBVIOUS
    <2>6. Queued(Append(s, a), u)'
      BY <1>1, <2>1, <2>2, <2>4, <2>5 DEF Queued, UpdateOf
    <2>7. \A r \in Procs : pc'[r] \in Killing => r \in live'
      BY <1>4, <2>1 DEF Unlinking, Killing
    <2> QED BY <1>4, <2>1, <2>3, <2>6, <2>7 DEF ListInv
  <1>20. CASE KillBegin
    <2>1. PICK v \in live \ {current} :
            /\ arg' = [arg EXCEPT ![current] = v] /\ live' = live \ {v}
            /\ torn' = (torn \/ pc[v] \in Killing \/ current \notin live)
      BY <1>20 DEF KillBegin
    (* Neither killer nor victim is in the way of another kill. *)
    <2>3. pc[v] \notin Killing /\ current \in live
      BY <2>1
    <2>2. /\ pc[current] = "run" /\ q' = q /\ current' = current
          /\ \A r \in Procs : pc'[r] = IF r = current THEN "unlink" ELSE pc[r]
      BY <1>1, <1>20 DEF KillBegin, Step
    <2>4. Doomed' = Doomed \union {v}
      <3>1. \A r \in Procs : pc'[r] \in Unlinking <=> r = current \/ pc[r] \in Unlinking
        BY <2>2 DEF Unlinking, Killing
      <3>2. arg'[current] = v /\ \A r \in Procs : r # current => arg'[r] = arg[r]
        BY <1>1, <2>1
      <3>3. pc[current] \notin Unlinking
        BY <2>2 DEF Unlinking, Killing
      <3> QED BY <1>1, <1>5, <1>6, <3>1, <3>2, <3>3
    <2>5. (live' \union Doomed') \ {current'} = (live \union Doomed) \ {current}
      BY <1>1, <2>1, <2>2, <2>4
    <2>6. q = o
      BY <1>10, <2>2 DEF Outside
    <2>7. Queued(s, o)'
      BY <1>1, <1>3, <2>1, <2>2, <2>5, <2>6 DEF Queued, UpdateOf
    <2>8. \A r \in Procs : pc'[r] \in Killing => r \in live'
      BY <1>4, <2>1, <2>2, <2>3
    <2>9. \A r \in Procs \ {current'} : pc'[r] \in Outside
      BY <1>4, <2>2
    <2> QED BY <2>1, <2>2, <2>3, <2>7, <2>8, <2>9 DEF ListInv
  (* The victim is in the queue. *)
  <1>21. ASSUME pc[current] \in Unlinking
         PROVE  /\ a \in ToSet(s) /\ a \in Procs /\ o.prev[a] # a /\ o.next[a] # a
                /\ current \in live /\ a \in Doomed /\ a \notin live
    <2>1. current \in live /\ a \in Doomed /\ a \in Procs \ live
      BY <1>1, <1>4, <1>5, <1>21 DEF Unlinking, Killing
    <2> QED BY <1>3, <2>1, NoLoops
  <1>22. CASE KillPrevNext
    <2>1. pc[current] = "unlink" /\ q = o
      BY <1>10, <1>22 DEF KillPrevNext, Step, Outside
    <2>2. q' = JoinedNext(o, a)
      BY <1>22, <2>1 DEF KillPrevNext, JoinedNext, Victim
    <2>3. UpdateOf(o, "relink", a)'
      BY <1>22, <2>2 DEF KillPrevNext, UpdateOf, Outside
    <2> QED BY <1>9, <1>22, <2>1, <2>3 DEF KillPrevNext, Step, Unlinking, Killing
  <1>23. CASE KillNextPrev
    <2>1. pc[current] = "relink" /\ q = JoinedNext(o, a)
      BY <1>3, <1>23 DEF KillNextPrev, Step, UpdateOf
    <2>2. q' = JoinedPrev(o, a)
      BY <1>3, <1>21, <1>23, <2>1, UnlinkSteps DEF KillNextPrev, Victim, Unlinking, Killing
    <2>3. UpdateOf(o, "head", a)'
      BY <1>23, <2>2 DEF KillNextPrev, UpdateOf, Outside
    <2> QED BY <1>9, <1>23, <2>1, <2>3 DEF KillNextPrev, Step, Unlinking, Killing
  <1>24. CASE KillHead
    <2>1. pc[current] = "head" /\ q = JoinedPrev(o, a)
      BY <1>3, <1>24 DEF KillHead, Step, UpdateOf
    <2>2. q' = HeadMoved(o, a)
      BY <1>3, <1>21, <1>24, <2>1, UnlinkSteps DEF KillHead, Victim, Unlinking, Killing
    <2>3. UpdateOf(o, "killtail", a)'
      BY <1>24, <2>2 DEF KillHead, UpdateOf, Outside
    <2> QED BY <1>9, <1>24, <2>1, <2>3 DEF KillHead, Step, Unlinking, Killing
  <1>25. CASE KillTail
    <2>1. /\ pc[current] = "killtail" /\ q = HeadMoved(o, a)
          /\ current' = current /\ live' = live /\ arg' = arg
          /\ \A r \in Procs : pc'[r] = IF r = current THEN "free" ELSE pc[r]
      BY <1>1, <1>3, <1>25 DEF KillTail, Step, UpdateOf
    <2>2. q' = Unlink(o, a)
      BY <1>3, <1>21, <1>25, <2>1, UnlinkSteps DEF KillTail, Victim, Unlinking, Killing
    <2>3. PICK k \in 1 .. Len(s) : s[k] = a
      BY <1>3, <1>21, <2>1, LenProperties DEF ToSet, Unlinking, Killing
    <2>4. q' \in Queue /\ Represents(q', RemoveAt(s, k))
      BY <1>3, <2>2, <2>3, UnlinkRemoves
    <2>5. RemoveAt(s, k) \in Seq(Procs) /\ ToSet(RemoveAt(s, k)) = ToSet(s) \ {a}
      BY <1>3, <2>3, RemoveAtShape, RemoveAtElements DEF Represents
    <2>7. Doomed' = Doomed \ {a}
      <3>1. \A r \in Procs : pc'[r] \in Unlinking <=> pc[r] \in Unlinking /\ r # current
        BY <2>1 DEF Unlinking, Killing
      <3>2. \A r \in Procs : pc[r] \in Unlinking /\ r # current => arg[r] # a
        BY <1>1, <2>1 DEF Unlinking, Killing
      <3> QED BY <1>5, <1>6, <2>1, <3>1, <3>2
    <2>8. current \in live /\ a \notin live
      BY <1>21, <2>1 DEF Unlinking, Killing
    <2>9. ToSet(RemoveAt(s, k)) = (live' \union Doomed') \ {current'}
      BY <1>3, <2>1, <2>5, <2>7, <2>8
    <2>10. PICK u : u = q'
      OBVIOUS
    <2>11. Queued(RemoveAt(s, k), u)'
      BY <1>1, <2>1, <2>4, <2>5, <2>9, <2>10 DEF Queued, UpdateOf
    <2>12. \A r \in Procs : pc'[r] \in Killing => r \in live'
      BY <1>4, <2>1 DEF Unlinking, Killing
    <2> QED BY <1>4, <2>1, <2>7, <2>8, <2>11, <2>12 DEF ListInv
  <1>26. CASE KillFree
    <2>1. q = o /\ pc[current] = "free"
      BY <1>10, <1>26 DEF KillFree, Step, Outside
    <2>2. UpdateOf(o, "run", a)'
      BY <1>26, <2>1 DEF KillFree, UpdateOf
    <2> QED BY <1>9, <1>26, <2>1, <2>2 DEF KillFree, Step, Unlinking, Killing
  <1>27. CASE preempt_handler
    <2> DEFINE e == Enqueue(q, current)
    <2>1. /\ pc[current] \in Outside /\ q = o
          /\ q' = Dequeue(e) /\ current' = IF e.head = NULL THEN current ELSE e.head
          /\ UNCHANGED <<live, pc, arg>>
      <3>1. pc[current] \in Labels /\ pc[current] \notin Updating
        BY <1>1, <1>27 DEF preempt_handler
      <3>2. pc[current] \in Outside
        BY <3>1 DEF Updating, Outside
      <3> QED BY <1>10, <1>27, <3>2 DEF preempt_handler
    <2>2. current \notin ToSet(s)
      BY <1>3
    <2>3. /\ e.head \in ToSet(s) \union {current} /\ e.head \in Procs
          /\ Dequeue(e) \in Queue /\ Tail(Append(s, current)) \in Seq(Procs)
          /\ Represents(Dequeue(e), Tail(Append(s, current)))
          /\ ToSet(Tail(Append(s, current))) = (ToSet(s) \union {current}) \ {e.head}
      BY <1>1, <1>3, <2>1, <2>2, RotationRotates
    <2> HIDE DEF e
    <2>4. current' = e.head
      BY <2>1, <2>3, NullAssumption
    <2>5. Doomed' = Doomed
      BY <1>5, <1>6, <2>1
    <2>6. \A r \in Procs : pc'[r] \in Outside
      BY <1>4, <2>1
    <2>7. ToSet(Tail(Append(s, current))) = (live' \union Doomed') \ {current'}
      BY <1>3, <1>4, <2>1, <2>3, <2>4, <2>5
    <2>8. current' \in live' \union Doomed'
      BY <1>3, <1>4, <2>1, <2>3, <2>4, <2>5
    <2>9. PICK u, z : u = q' /\ z = Tail(Append(s, current))
      OBVIOUS
    <2>10. pc'[current'] \in Outside
      BY <2>3, <2>4, <2>6
    <2>11. UpdateOf(u, pc[current], arg[current])'
      BY <2>9, <2>10 DEF UpdateOf, Outside
    <2>12. Queued(z, u)'
      BY <2>1, <2>3, <2>7, <2>9, <2>10, <2>11 DEF Queued, Outside
    <2> QED BY <1>4, <2>1, <2>6, <2>8, <2>12 DEF ListInv
  <1>28. CASE UNCHANGED vars
    <2>1. Doomed' = Doomed
      BY <1>28 DEF vars, Doomed
    <2>2. Queued(s, o)'
      BY <1>2, <1>28, <2>1 DEF vars, Queued, UpdateOf
    <2> QED BY <1>4, <1>28, <2>1, <2>2 DEF vars, ListInv
  <1> QED BY <1>11, <1>12, <1>13, <1>15, <1>16, <1>17, <1>18, <1>19, <1>20, <1>22, <1>23, <1>24,
             <1>25, <1>26, <1>27, <1>28
          DEF Next, process_create, process_kill

-------------------------------------------------------------------------------

(* What a list's pointers lead to includes every element, if they do not   *)
(* lead out of the list early.                                             *)
LEMMA ElementsAreMet ==
  ASSUME NEW o \in Queue, NEW s \in Seq(Procs), Represents(o, s), NEW met \in SUBSET Procs,
         s # <<>> => o.head \in met,
         \A r \in met \intersect ToSet(s) : o.next[r] \in met \union {NULL}
  PROVE  ToSet(s) \subseteq met
  <1> DEFINE n == Len(s)
             Bad == {i \in 1 .. n : s[i] \notin met}
  <1>1. n \in Nat /\ DOMAIN s = 1 .. n /\ \A i \in 1 .. n : s[i] \in Procs /\ s[i] \in ToSet(s)
    BY LenProperties, ElementOfSeq DEF ToSet
  <1>2. /\ s # <<>> => o.head = s[1]
        /\ \A i \in 1 .. n : i # n => o.next[s[i]] = s[i + 1]
    BY <1>1 DEF Represents
  <1>3. Bad = {}
    <2> SUFFICES ASSUME Bad # {} PROVE FALSE
      OBVIOUS
    <2>1. PICK k \in Bad : \A y \in Bad : k <= y
      <3>1. Bad \in SUBSET Nat
        BY <1>1
      <3> HIDE DEF Bad
      <3> QED BY <3>1, LeastNatural
    <2>2. k \in 1 .. n /\ s[k] \notin met /\ s # <<>>
      BY <1>1, EmptySeq
    <2>3. k # 1
      BY <1>2, <2>2
    <2>4. k - 1 \in 1 .. n /\ k - 1 # n /\ (k - 1) + 1 = k /\ k - 1 \notin Bad
      BY <1>1, <2>1, <2>2, <2>3
    <2>5. s[k - 1] \in met /\ o.next[s[k - 1]] = s[k]
      BY <1>2, <2>4
    <2> QED BY <1>1, <2>2, <2>4, <2>5, NullAssumption
  <1> QED BY <1>1, <1>3 DEF ToSet

(* Also half-way through an update, whether of process_create or of        *)
(* process_kill, the pointers lead to all who wait but the victim.         *)
LEMMA WalkMeetsAll ==
  ASSUME CallInv, ListInv
  PROVE  NobodyStranded
  <1>1. /\ current \in Procs /\ live \subseteq Procs /\ q \in Queue
        /\ arg \in [Procs -> Pointer] /\ pc \in [Procs -> Labels]
        /\ \A r \in Procs : pc[r] # "run" => arg[r] \in Procs \ live
        /\ \A r, t \in Procs : pc[r] # "run" /\ pc[t] # "run" /\ arg[r] = arg[t] => r = t
    BY DEF CallInv
  <1>2. PICK s, o : Queued(s, o)
    BY DEF ListInv
  <1> DEFINE a == arg[current]
             at == pc[current]
  <1>3. /\ s \in Seq(Procs) /\ o \in Queue /\ Represents(o, s)
        /\ ToSet(s) = (live \union Doomed) \ {current}
        /\ UpdateOf(o, at, a)
    BY <1>2 DEF Queued
  <1>4. SUFFICES ASSUME NEW p \in live, p # current, NEW met \in SUBSET Procs,
                        {q.head} \union {q.next[r] : r \in met} \subseteq met \union {NULL}
                 PROVE  p \in met
    BY <1>1 DEF NobodyStranded, Walk
  <1>5. q.head \in met \union {NULL} /\ \A r \in met : q.next[r] \in met \union {NULL}
    BY <1>4
  <1>6. p \in ToSet(s) /\ p \in Procs
    BY <1>1, <1>3, <1>4
  <1>7. /\ o.head \in Pointer /\ o.tail \in Pointer
        /\ o.next \in [Procs -> Pointer] /\ o.prev \in [Procs -> Pointer]
        /\ o = [head |-> o.head, tail |-> o.tail, next |-> o.next, prev |-> o.prev]
    BY <1>3 DEF Queue
  <1>8. /\ s # <<>> => o.head \in ToSet(s) /\ o.head # NULL
        /\ \A v \in ToSet(s) : v # NULL
    <2>1. s # <<>> => Len(s) \in Nat /\ 1 \in 1 .. Len(s) /\ s[1] \in Procs
      BY <1>3, EmptySeq, LenProperties, ElementOfSeq
    <2>2. \A v \in ToSet(s) : v \in Procs
      BY <1>1, <1>3 DEF Doomed, Unlinking
    <2> QED BY <1>3, <2>1, <2>2, LenProperties, NullAssumption DEF Represents, ToSet
  <1>9. CASE at \in Outside
    <2>1. q = o
      BY <1>3, <1>9 DEF UpdateOf
    <2> QED BY <1>3, <1>5, <1>6, <1>8, <2>1, ElementsAreMet
  <1>10. CASE at \in {"link", "tail", "prev", "count"}
    <2>1. a \notin ToSet(s) /\ a \in Procs
      <3>1. a \notin Doomed /\ a \in Procs \ live
        BY <1>1, <1>10 DEF Doomed, Unlinking
      <3> QED BY <1>3, <3>1
    <2>2. o.tail # NULL /\ o.next[o.tail] = NULL
      BY <1>3, <1>6, NoLoops DEF ToSet
    <2>3. /\ q.head = o.head
          /\ \A r \in Procs : r # a /\ r # o.tail => q.next[r] = o.next[r]
      <3>1. \/ q = [o EXCEPT !.next = [@ EXCEPT ![a] = NULL]]
            \/ q = WithLink(o, a) \/ q = WithTail(o, a) \/ q = Enqueue(o, a)
        BY <1>3, <1>10 DEF UpdateOf
      <3>2. ASSUME NEW z, z = [o EXCEPT !.next = [@ EXCEPT ![a] = NULL]]
                   \/ z = WithLink(o, a) \/ z = WithTail(o, a) \/ z = Enqueue(o, a)
            PROVE  /\ z.head = o.head
                   /\ z.next = [o.next EXCEPT ![a] = NULL]
                      \/ z.next = [o.next EXCEPT ![a] = NULL, ![o.tail] = a]
        BY <1>7, <2>2, <3>2 DEF WithLink, WithTail, Enqueue
      <3> QED BY <1>7, <3>1, <3>2
    <2>4. \A r \in met \intersect ToSet(s) : o.next[r] \in met \union {NULL}
      BY <1>5, <2>1, <2>2, <2>3
    <2> QED BY <1>3, <1>5, <1>6, <1>8, <2>3, <2>4, ElementsAreMet
  <1>11. CASE at \in {"relink", "head", "killtail"}
    <2> DEFINE u == Unlink(o, a)
    <2>1. /\ current \in live /\ a \in Doomed /\ a \in Procs \ live /\ a # current
      BY <1>1, <1>11 DEF ListInv, Doomed, Unlinking, Killing
    <2>2. a \in ToSet(s) /\ a # p /\ o.next[a] # a /\ o.prev[a] # a
      BY <1>3, <1>4, <2>1, NoLoops
    <2>3. PICK k \in 1 .. Len(s) : s[k] = a
      BY <1>3, <2>2, LenProperties DEF ToSet
    <2>4. /\ u \in Queue /\ Represents(u, RemoveAt(s, k)) /\ RemoveAt(s, k) \in Seq(Procs)
          /\ ToSet(RemoveAt(s, k)) = ToSet(s) \ {a}
      <3>1. NoRepeats(s)
        BY <1>3 DEF Represents
      <3>2. u \in Queue /\ Represents(u, RemoveAt(s, k))
        BY <1>3, <2>3, UnlinkRemoves
      <3>3. RemoveAt(s, k) \in Seq(Procs) /\ ToSet(RemoveAt(s, k)) = ToSet(s) \ {a}
        BY <1>3, <2>3, <3>1, RemoveAtShape, RemoveAtElements
      <3> QED BY <3>2, <3>3
    <2>5. /\ u.head = IF o.head = a THEN o.next[a] ELSE o.head
          /\ u.next = IF o.prev[a] = NULL THEN o.next
                      ELSE [o.next EXCEPT ![o.prev[a]] = o.next[a]]
      BY <1>7 DEF Unlink
    <2>6. /\ q.next = u.next
          /\ q.head = o.head \/ q.head = u.head
      BY <1>3, <1>7, <1>11, <2>5
         DEF UpdateOf, JoinedNext, JoinedPrev, HeadMoved, Outside
    <2>7. u.next[a] = o.next[a]
      BY <1>7, <2>2, <2>5
    <2>8. u.head \in met \union {NULL}
      <3>1. CASE q.head = u.head
        BY <1>5, <3>1
      <3>2. CASE q.head = o.head /\ o.head # a
        BY <1>5, <2>5, <3>2
      <3>3. CASE q.head = o.head /\ o.head = a
        <4>1. a \in met
          BY <1>5, <1>8, <2>2, <3>3
        <4> QED BY <1>5, <2>5, <2>6, <2>7, <3>3, <4>1
      <3> QED BY <2>6, <3>1, <3>2, <3>3
    <2>9. RemoveAt(s, k) # <<>> => u.head # NULL
      <3>1. RemoveAt(s, k) # <<>> => u.head \in ToSet(RemoveAt(s, k))
        <4>1. RemoveAt(s, k) # <<>> => Len(RemoveAt(s, k)) \in Nat /\ 1 \in 1 .. Len(RemoveAt(s, k))
          BY <2>4, EmptySeq, LenProperties
        <4> QED BY <2>4, <4>1, LenProperties DEF Represents, ToSet
      <3> QED BY <1>8, <2>4, <3>1
    <2>10. \A r \in met \intersect ToSet(RemoveAt(s, k)) : u.next[r] \in met \union {NULL}
      BY <1>5, <2>6
    <2> HIDE DEF u
    <2>11. ToSet(RemoveAt(s, k)) \subseteq met
      BY <2>4, <2>8, <2>9, <2>10, ElementsAreMet
    <2> QED BY <1>6, <2>2, <2>4, <2>11
  <1> QED BY <1>1, <1>9, <1>10, <1>11 DEF Outside

(* Torn or not, a torn update stays recorded. *)
LEMMA TornStays == torn /\ [Next]_vars => torn'
  BY DEF Next, vars, history, process_create, process_kill, CreateBegin, CreateLoadPid,
         CreateStorePid, CreateLoadTail, CreateLink, CreateSetTail, CreateClearPrev,
         CreateCount, KillBegin, KillPrevNext, KillNextPrev, KillHead, KillTail, KillFree,
         preempt_handler

(* Until an update is torn, every process runs or the queue leads to it.   *)
THEOREM StrandedOnlyByTearing == Spec => []StrandedOnlyIfTorn
  <1>1. Init => CallInv /\ ListInv
    BY CallInvInit, ListInvInit
  <1>2. CallInv /\ (torn \/ ListInv) /\ [Next]_vars => (CallInv /\ (torn \/ ListInv))'
    BY CallInvStep, ListInvStep, TornStays
  <1>3. CallInv /\ (torn \/ ListInv) => StrandedOnlyIfTorn
    BY WalkMeetsAll DEF StrandedOnlyIfTorn
  <1> QED BY <1>1, <1>2, <1>3, PTL DEF Spec

-------------------------------------------------------------------------------

(* A sequence without repeats is as long as its set of elements.           *)
LEMMA AsManyElements ==
  ASSUME NEW s \in Seq(Procs), NoRepeats(s)
  PROVE  /\ IsFiniteSet(ToSet(s)) /\ Cardinality(ToSet(s)) = Len(s)
         /\ s \in SetToSeqs(ToSet(s))
  <1>1. /\ Len(s) \in Nat /\ DOMAIN s = 1 .. Len(s)
        /\ ToSet(s) = {s[i] : i \in 1 .. Len(s)}
        /\ \A i, j \in 1 .. Len(s) : s[i] = s[j] => i = j
    BY LenProperties DEF ToSet, NoRepeats
  <1>2. s \in [1 .. Len(s) -> ToSet(s)]
    BY <1>1, LenProperties
  <1>3. ExistsBijection(1 .. Len(s), ToSet(s))
    BY <1>1, <1>2 DEF ExistsBijection, Bijection, Injection, Surjection, IsInjective
  <1>4. IsFiniteSet(1 .. Len(s)) /\ Cardinality(1 .. Len(s)) = Len(s)
    BY <1>1, FS_Interval
  <1>5. IsFiniteSet(ToSet(s)) /\ Cardinality(ToSet(s)) = Len(s)
    BY <1>3, <1>4, FS_Bijection
  <1> QED BY <1>1, <1>2, <1>5 DEF SetToSeqs

LEMMA CountInvInit == Init => CountInv
  <1> SUFFICES ASSUME Init PROVE CountInv
    OBVIOUS
  <1>1. IsFiniteSet(live) /\ Cardinality(live) = Len(Started)
    BY AsManyElements, PreemptAssumption DEF Init
  <1>2. Killings = {}
    BY DEF Init, Killings, Killing
  <1> QED BY <1>1, <1>2, PreemptAssumption, LenProperties, FS_EmptySet DEF Init, CountInv

LEMMA CountInvStep ==
  ASSUME CallInv, ListInv, CountInv, [Next]_vars, ~torn'
  PROVE  CountInv'
  <1>1. /\ current \in Procs /\ live \subseteq Procs /\ pc \in [Procs -> Labels]
        /\ \A r \in Procs : pc[r] # "run" => arg[r] \in Procs \ live
    BY DEF CallInv
  <1>3. Killings \subseteq live
    BY DEF ListInv, Killings
  <1>2. /\ IsFiniteSet(live) /\ Cardinality(live) \in Nat
        /\ IsFiniteSet(Killings) /\ Cardinality(Killings) \in Nat
        /\ process_count = Cardinality(live) + Cardinality(Killings)
    BY <1>3, FS_Subset, FS_CardinalityType DEF CountInv
  <1>4. ASSUME UNCHANGED <<process_count, live>>, Killings' = Killings
        PROVE  CountInv'
    BY <1>2, <1>4 DEF CountInv
  <1>5. CASE CreateBegin
    <2>1. PICK p \in Procs \ (live \union InCall \union {current}) :
            pc' = [pc EXCEPT ![current] = "pid", ![p] = "run"]
      BY <1>5 DEF CreateBegin
    <2>2. pc[current] = "run" /\ pc[p] \notin Killing /\ p # current
      BY <1>3, <1>5, <2>1 DEF CreateBegin, Killings
    <2>3. \A r \in Procs : pc'[r] \in Killing <=> pc[r] \in Killing
      BY <1>1, <2>1, <2>2 DEF Killing
    <2> QED BY <1>4, <1>5, <2>3 DEF CreateBegin, shared, Killings
  <1>6. CASE \/ CreateLoadPid \/ CreateStorePid \/ CreateLoadTail \/ CreateLink
             \/ CreateSetTail \/ CreateClearPrev
             \/ KillPrevNext \/ KillNextPrev \/ KillHead \/ KillTail
    <2>1. /\ UNCHANGED <<process_count, live>>
          /\ \A r \in Procs : r # current => pc'[r] = pc[r]
          /\ pc[current] \in Killing <=> pc'[current] \in Killing
      BY <1>1, <1>6
         DEF Step, shared, Killing, CreateLoadPid, CreateStorePid, CreateLoadTail, CreateLink,
             CreateSetTail, CreateClearPrev, KillPrevNext, KillNextPrev, KillHead, KillTail
    <2>2. Killings' = Killings
      BY <1>1, <2>1 DEF Killings
    <2> QED BY <1>4, <2>1, <2>2
  <1>7. CASE CreateCount
    <2>1. /\ pc[current] = "count" /\ process_count' = process_count + 1
          /\ live' = live \union {arg[current]}
          /\ \A r \in Procs : pc'[r] = IF r = current THEN "run" ELSE pc[r]
      BY <1>1, <1>7 DEF CreateCount, Step
    <2>2. IsFiniteSet(live') /\ Cardinality(live') = Cardinality(live) + 1
      BY <1>1, <1>2, <2>1, FS_AddElement
    <2>3. Killings' = Killings
      BY <1>1, <2>1 DEF Killings, Killing
    <2> QED BY <1>2, <2>1, <2>2, <2>3 DEF CountInv
  <1>8. CASE KillBegin
    <2>1. PICK v \in live \ {current} : live' = live \ {v}
      BY <1>8 DEF KillBegin
    <2>2. /\ pc[current] = "run" /\ process_count' = process_count
          /\ \A r \in Procs : pc'[r] = IF r = current THEN "unlink" ELSE pc[r]
      BY <1>1, <1>8 DEF KillBegin, Step
    <2>3. Killings' = Killings \union {current} /\ current \notin Killings
      BY <1>1, <2>2 DEF Killings, Killing
    <2>4. IsFiniteSet(live') /\ Cardinality(live') = Cardinality(live) - 1
      BY <1>2, <2>1, FS_RemoveElement
    <2>5. Cardinality(Killings') = Cardinality(Killings) + 1
      BY <1>2, <2>3, FS_AddElement
    <2> QED BY <1>2, <2>2, <2>4, <2>5 DEF CountInv
  <1>9. CASE KillFree
    <2>1. /\ pc[current] = "free" /\ process_count' = process_count - 1 /\ live' = live
          /\ \A r \in Procs : pc'[r] = IF r = current THEN "run" ELSE pc[r]
      BY <1>1, <1>9 DEF KillFree, Step
    <2>2. Killings' = Killings \ {current} /\ current \in Killings
      BY <1>1, <2>1 DEF Killings, Killing
    <2>3. Cardinality(Killings') = Cardinality(Killings) - 1
      BY <1>2, <2>2, FS_RemoveElement
    <2> QED BY <1>2, <2>1, <2>3 DEF CountInv
  <1>10. CASE preempt_handler
    BY <1>4, <1>10 DEF preempt_handler, Killings
  <1>11. CASE UNCHANGED vars
    BY <1>4, <1>11 DEF vars, Killings
  <1> QED BY <1>5, <1>6, <1>7, <1>8, <1>9, <1>10, <1>11
          DEF Next, process_create, process_kill

(* Until an update is torn, when the calls have returned, the queue is a   *)
(* list of exactly those who wait, and process_count their number and one. *)
THEOREM RestoredUntilTorn == Spec => []RestoredUnlessTorn
  <1> DEFINE I == CallInv /\ (torn \/ (ListInv /\ CountInv))
  <1>1. Init => I
    BY CallInvInit, ListInvInit, CountInvInit
  <1>2. I /\ [Next]_vars => I'
    BY CallInvStep, ListInvStep, CountInvStep, TornStays
  <1>4. ASSUME CallInv, ListInv, CountInv PROVE QueueRestored
    <2> SUFFICES ASSUME \A p \in live : pc[p] = "run"
                 PROVE  /\ \E s \in SetToSeqs(live \ {current}) : Represents(q, s)
                        /\ process_count = Cardinality(live)
      BY DEF QueueRestored
    <2>1. \A r \in Procs : pc[r] \notin Killing
      BY <1>4 DEF ListInv, Killing
    <2>2. Doomed = {} /\ Killings = {}
      BY <2>1 DEF Doomed, Killings, Unlinking, Killing
    <2>3. current \in live /\ pc[current] = "run"
      BY <1>4, <2>2 DEF ListInv
    <2>4. PICK s, o : Queued(s, o)
      BY <1>4 DEF ListInv
    <2>5. s \in Seq(Procs) /\ Represents(q, s) /\ ToSet(s) = live \ {current}
      BY <2>2, <2>3, <2>4 DEF Queued, UpdateOf, Outside
    <2>6. s \in SetToSeqs(live \ {current})
      BY <2>5, AsManyElements DEF Represents
    <2>7. process_count = Cardinality(live)
      BY <1>4, <2>2, FS_EmptySet, FS_CardinalityType DEF CountInv
    <2> QED BY <2>5, <2>6, <2>7
  <1>3. I => RestoredUnlessTorn
    BY <1>4 DEF RestoredUnlessTorn
  <1> HIDE DEF I
  <1> QED BY <1>1, <1>2, <1>3, PTL DEF Spec
================================================================================
