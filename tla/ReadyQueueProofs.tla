--------------------------- MODULE ReadyQueueProofs ---------------------------
(***************************************************************************)
(* What the three queue operations of process.c do to the sequence the     *)
(* pointers represent, for every queue: enqueue appends, dequeue takes the *)
(* head off, and process_kill's unlinking removes one element wherever it  *)
(* is.                                                                     *)
(***************************************************************************)
EXTENDS ReadyQueue, SequenceTheorems, TLAPS

(* Appending p to s adds p to the elements of s. *)
LEMMA AppendElements ==
  ASSUME NEW S, NEW s \in Seq(S), NEW p \in S
  PROVE  ToSet(Append(s, p)) = ToSet(s) \union {p}
  <1>1. /\ DOMAIN Append(s, p) = 1..(Len(s) + 1)
        /\ DOMAIN s = 1..Len(s)
        /\ \A i \in 1..Len(s) : Append(s, p)[i] = s[i]
        /\ Append(s, p)[Len(s) + 1] = p
        /\ Len(s) \in Nat
    OBVIOUS
  <1>2. \A i \in 1..(Len(s) + 1) : i \in 1..Len(s) \/ i = Len(s) + 1
    BY <1>1
  <1>3. ToSet(Append(s, p)) \subseteq ToSet(s) \union {p}
    BY <1>1, <1>2 DEF ToSet
  <1>4. ToSet(s) \union {p} \subseteq ToSet(Append(s, p))
    BY <1>1 DEF ToSet
  <1> QED BY <1>3, <1>4

(* A sequence without repetitions stays one when a new element joins it.   *)
LEMMA AppendNoRepeats ==
  ASSUME NEW S, NEW s \in Seq(S), NEW p \in S, NoRepeats(s), p \notin ToSet(s)
  PROVE  NoRepeats(Append(s, p))
  BY DEF NoRepeats, ToSet

(* queue_enqueue: the pointers represent the old sequence with p behind it.*)
THEOREM EnqueueAppends ==
  ASSUME NEW q \in Queue, NEW s \in Seq(Procs), NEW p \in Procs,
         Represents(q, s), p \notin ToSet(s)
  PROVE  /\ Enqueue(q, p) \in Queue
         /\ Represents(Enqueue(q, p), Append(s, p))
  <1>1. Enqueue(q, p) \in Queue
    BY DEF Enqueue, Queue, Pointer
  <1>2. NoRepeats(Append(s, p))
    BY AppendNoRepeats DEF Represents
  <1>3. CASE s = <<>>
    <2> DEFINE e == Enqueue(q, p)
    <2>1. q.tail = NULL
      BY <1>3 DEF Represents
    <2>2. e.head = p /\ e.tail = p /\ e.next[p] = NULL /\ e.prev[p] = NULL
      BY <2>1 DEF Enqueue, Queue
    <2>3. /\ Append(s, p) # <<>> /\ Len(Append(s, p)) = 1
          /\ DOMAIN Append(s, p) = {1} /\ Append(s, p)[1] = p
      BY <1>3
    <2> HIDE DEF e
    <2>4. Represents(e, Append(s, p))
      BY <1>2, <2>2, <2>3 DEF Represents
    <2> QED BY <1>1, <2>4 DEF e
  <1>4. CASE s # <<>>
    <2> DEFINE n == Len(s)
               e == Enqueue(q, p)
    <2>1. n \in Nat /\ n > 0 /\ s[n] \in Procs /\ q.tail = s[n] /\ q.tail # NULL
      BY <1>4, NullAssumption DEF Represents
    <2>2. e = [q EXCEPT !.tail = p,
                        !.next = [@ EXCEPT ![p] = NULL, ![q.tail] = p],
                        !.prev = [@ EXCEPT ![p] = q.tail]]
      BY <2>1 DEF Enqueue
    <2>3. /\ e.head = q.head
          /\ e.tail = p
          /\ e.next = [[q.next EXCEPT ![p] = NULL] EXCEPT ![s[n]] = p]
          /\ e.prev = [q.prev EXCEPT ![p] = s[n]]
      BY <2>1, <2>2 DEF Queue
    <2>4. \A i \in 1..n : s[i] \in Procs /\ s[i] # p
      BY DEF ToSet
    <2>5. \A i \in 1..n : s[i] = s[n] => i = n
      BY <2>1 DEF Represents, NoRepeats
    <2>6. \A i \in 1..n :
            /\ e.next[s[i]] = IF i = n THEN p ELSE s[i + 1]
            /\ e.prev[s[i]] = IF i = 1 THEN NULL ELSE s[i - 1]
      BY <2>1, <2>3, <2>4, <2>5 DEF Represents, Queue
    <2>7. e.next[p] = NULL /\ e.prev[p] = s[n]
      BY <2>1, <2>3, <2>4 DEF Queue
    <2>8. /\ Append(s, p) # <<>> /\ Len(Append(s, p)) = n + 1
          /\ \A i \in 1..n : Append(s, p)[i] = s[i]
          /\ Append(s, p)[n + 1] = p
          /\ DOMAIN Append(s, p) = 1..(n + 1)
      OBVIOUS
    <2>9. e.head = s[1]
      BY <1>4, <2>3 DEF Represents
    <2> HIDE DEF e
    <2>10. \A i \in 1..(n + 1) :
             /\ e.next[Append(s, p)[i]] =
                  IF i = n + 1 THEN NULL ELSE Append(s, p)[i + 1]
             /\ e.prev[Append(s, p)[i]] =
                  IF i = 1 THEN NULL ELSE Append(s, p)[i - 1]
      <3> TAKE i \in 1..(n + 1)
      <3>1. CASE i = n + 1
        BY <3>1, <2>1, <2>7, <2>8
      <3>2. CASE i \in 1..n
        BY <3>2, <2>1, <2>6, <2>8
      <3> QED BY <3>1, <3>2, <2>1
    <2>11. e.head = Append(s, p)[1] /\ e.tail = Append(s, p)[n + 1]
      BY <2>1, <2>3, <2>8, <2>9
    <2> HIDE DEF n
    <2>12. Represents(e, Append(s, p))
      BY <1>2, <2>8, <2>10, <2>11 DEF Represents
    <2> QED BY <1>1, <2>12 DEF e
  <1> QED BY <1>1, <1>3, <1>4

(* The elements of a sequence without repetitions, minus its head.         *)
LEMMA TailElements ==
  ASSUME NEW S, NEW s \in Seq(S), s # <<>>, NoRepeats(s)
  PROVE  /\ ToSet(Tail(s)) = ToSet(s) \ {Head(s)}
         /\ NoRepeats(Tail(s))
  <1>1. /\ Len(s) \in Nat \ {0} /\ Head(s) = s[1]
        /\ DOMAIN s = 1..Len(s)
        /\ DOMAIN Tail(s) = 1..(Len(s) - 1)
        /\ \A i \in 1..(Len(s) - 1) : Tail(s)[i] = s[i + 1]
    OBVIOUS
  <1>2. \A i \in 1..(Len(s) - 1) : i + 1 \in 1..Len(s) /\ i + 1 # 1
    BY <1>1
  <1>3. \A i \in 1..Len(s) : i = 1 \/ (i - 1 \in 1..(Len(s) - 1) /\ (i - 1) + 1 = i)
    BY <1>1
  <1>4. ToSet(Tail(s)) \subseteq ToSet(s) \ {Head(s)}
    BY <1>1, <1>2 DEF ToSet, NoRepeats
  <1>5. ToSet(s) \ {Head(s)} \subseteq ToSet(Tail(s))
    <2> SUFFICES ASSUME NEW i \in 1..Len(s), i # 1
                 PROVE  s[i] \in ToSet(Tail(s))
      BY <1>1 DEF ToSet
    <2>1. i - 1 \in 1..(Len(s) - 1) /\ Tail(s)[i - 1] = s[i]
      BY <1>1, <1>3
    <2> QED BY <1>1, <2>1 DEF ToSet
  <1>6. NoRepeats(Tail(s))
    BY <1>1, <1>2 DEF NoRepeats
  <1> QED BY <1>4, <1>5, <1>6

(* queue_dequeue: it returns the oldest element, and the pointers          *)
(* represent what is left.                                                 *)
THEOREM DequeueTakesHead ==
  ASSUME NEW q \in Queue, NEW s \in Seq(Procs), Represents(q, s), s # <<>>
  PROVE  /\ Dequeue(q) \in Queue
         /\ q.head = Head(s) /\ q.head \in Procs
         /\ Represents(Dequeue(q), Tail(s))
  <1> DEFINE n == Len(s)
             t == Tail(s)
             d == Dequeue(q)
  <1>1. /\ n \in Nat /\ n > 0 /\ 1 \in 1..n /\ n \in 1..n
        /\ n # 1 => 2 \in 1..n
        /\ DOMAIN s = 1..n /\ n = Len(s)
        /\ \A i \in 1..n : s[i] \in Procs
    <2>1. n \in Nat \ {0} /\ DOMAIN s = 1..n /\ n = Len(s)
      BY EmptySeq, LenProperties
    <2>2. \A i \in 1..n : s[i] \in Procs
      BY ElementOfSeq
    <2> HIDE DEF n
    <2>3. n > 0 /\ 1 \in 1..n /\ n \in 1..n /\ (n # 1 => 2 \in 1..n)
      BY <2>1
    <2> QED BY <2>1, <2>2, <2>3
  <1>2. /\ t \in Seq(Procs) /\ Len(t) = n - 1 /\ DOMAIN t = 1..(n - 1)
        /\ \A i \in 1..(n - 1) : t[i] = s[i + 1]
        /\ t = Tail(s) /\ Head(s) = s[1]
    BY HeadTailProperties, LenProperties
  <1> HIDE DEF n, t
  <1>3. (t = <<>>) = (n = 1)
    <2>1. t # <<>> => Len(t) # 0
      BY <1>2, EmptySeq
    <2>2. t = <<>> => Len(t) = 0
      BY EmptySeq
    <2>3. (Len(t) = 0) = (n = 1)
      BY <1>1, <1>2
    <2> QED BY <2>1, <2>2, <2>3
  <1>4. /\ \A i, j \in 1..n : s[i] = s[j] => i = j
        /\ q.head = s[1] /\ q.tail = s[n]
        /\ \A i \in 1..n :
             /\ q.next[s[i]] = IF i = n THEN NULL ELSE s[i + 1]
             /\ q.prev[s[i]] = IF i = 1 THEN NULL ELSE s[i - 1]
    BY <1>1 DEF Represents, NoRepeats
  <1>5. q.head # NULL /\ s[1] \in Procs
    <2>1. s[1] \in Procs
      BY <1>1
    <2> QED BY <2>1, <1>4, NullAssumption
  <1> DEFINE first == q.next[s[1]]
  <1>6. first = IF n = 1 THEN NULL ELSE s[2]
    <2>1. 1 \in 1..n /\ 1 + 1 = 2
      BY <1>1
    <2>2. q.next[s[1]] = IF 1 = n THEN NULL ELSE s[1 + 1]
      BY <2>1, <1>4
    <2> QED BY <2>1, <2>2
  <1>7. /\ d.head = first
        /\ d.tail = IF first = NULL THEN NULL ELSE q.tail
        /\ d.next = [q.next EXCEPT ![s[1]] = NULL]
        /\ d.prev = [x \in Procs |-> IF x \in {s[1], first} THEN NULL ELSE q.prev[x]]
    BY <1>4, <1>5 DEF Dequeue, Queue
  <1>8. d \in Queue
    BY <1>4, <1>5 DEF Dequeue, Queue, Pointer
  <1> HIDE DEF d, first
  <1>9. (first = NULL) = (n = 1)
    BY <1>1, <1>6, NullAssumption
  <1>10. NoRepeats(t)
    BY TailElements, <1>2 DEF Represents
  <1>11. d.head = IF t = <<>> THEN NULL ELSE t[1]
    BY <1>1, <1>2, <1>3, <1>6, <1>7
  <1>12. d.tail = IF t = <<>> THEN NULL ELSE t[Len(t)]
    <2>1. n # 1 => n - 1 \in 1..(n - 1) /\ (n - 1) + 1 = n
      BY <1>1
    <2>2. n # 1 => t[Len(t)] = s[n]
      BY <2>1, <1>2
    <2> QED BY <2>2, <1>3, <1>4, <1>7, <1>9
  <1>13. ASSUME NEW i \in 1..(n - 1)
         PROVE  /\ d.next[t[i]] = IF i = n - 1 THEN NULL ELSE t[i + 1]
                /\ d.prev[t[i]] = IF i = 1 THEN NULL ELSE t[i - 1]
    <2>1. /\ i + 1 \in 1..n /\ i + 1 # 1 /\ t[i] = s[i + 1] /\ s[i + 1] \in Procs
          /\ (i + 1 = n <=> i = n - 1) /\ 1 \in 1..n
          /\ i # n - 1 => i + 1 \in 1..(n - 1)
      <3>1. /\ i + 1 \in 1..n /\ i + 1 # 1
            /\ (i + 1 = n <=> i = n - 1) /\ 1 \in 1..n
            /\ i # n - 1 => i + 1 \in 1..(n - 1)
        <4>1. n \in Nat /\ i \in Int /\ 1 <= i /\ i <= n - 1
          BY <1>1
        <4> QED BY <4>1
      <3> QED BY <3>1, <1>1, <1>2
    <2>2. s[i + 1] # s[1]
      BY <1>4, <2>1
    <2>3. d.next[t[i]] = q.next[s[i + 1]]
      BY <2>1, <2>2, <1>5, <1>7 DEF Queue
    <2>4. q.next[s[i + 1]] = IF i + 1 = n THEN NULL ELSE s[(i + 1) + 1]
      BY <1>4, <2>1
    <2>5. d.next[t[i]] = IF i = n - 1 THEN NULL ELSE t[i + 1]
      BY <1>2, <2>1, <2>3, <2>4
    <2>6. CASE i = 1
      <3>1. s[i + 1] = first
        BY <2>6, <1>1, <1>6
      <3>2. d.prev[t[i]] = NULL
        BY <3>1, <2>1, <1>7
      <3> QED BY <3>2, <2>5, <2>6
    <2>7. CASE i # 1
      <3>1. /\ i \in 1..n /\ i - 1 \in 1..(n - 1) /\ (i - 1) + 1 = i /\ (i + 1) - 1 = i
            /\ n # 1 /\ 2 \in 1..n /\ i + 1 # 2
        BY <2>7, <1>1
      <3>2. s[i + 1] # s[2]
        BY <3>1, <2>1, <1>4
      <3>3. d.prev[t[i]] = q.prev[s[i + 1]]
        BY <3>1, <3>2, <2>1, <2>2, <1>6, <1>7
      <3>4. q.prev[s[i + 1]] = s[i] /\ t[i - 1] = s[i]
        BY <3>1, <2>1, <1>2, <1>4
      <3> QED BY <3>3, <3>4, <2>5, <2>7
    <2> QED BY <2>6, <2>7
  <1>14. Represents(d, t)
    BY <1>2, <1>10, <1>11, <1>12, <1>13 DEF Represents
  <1> QED BY <1>2, <1>4, <1>5, <1>8, <1>14 DEF d

(* Removing the k-th element of a sequence moves the later ones up.        *)
LEMMA RemoveAtShape ==
  ASSUME NEW S, NEW s \in Seq(S), NEW k \in 1..Len(s)
  PROVE  /\ RemoveAt(s, k) \in Seq(S)
         /\ Len(RemoveAt(s, k)) = Len(s) - 1
         /\ \A i \in 1..(Len(s) - 1) :
              RemoveAt(s, k)[i] = IF i < k THEN s[i] ELSE s[i + 1]
  <1> DEFINE n == Len(s)
             a == SubSeq(s, 1, k - 1)
             b == SubSeq(s, k + 1, n)
  <1>1. n \in Nat /\ k \in Int /\ 1 <= k /\ k <= n
    BY LenProperties
  <1>2. \A i \in 1..n : s[i] \in S
    BY ElementOfSeq
  <1> HIDE DEF n
  <1>3. /\ a \in Seq(S) /\ Len(a) = k - 1
        /\ \A i \in 1..(k - 1) : a[i] = s[i]
    <2>1. \A i \in 1..(k - 1) : s[i] \in S
      BY <1>1, <1>2
    <2>2. /\ a \in Seq(S)
          /\ Len(a) = IF 1 <= k - 1 THEN (k - 1) - 1 + 1 ELSE 0
          /\ \A i \in 1..((k - 1) - 1 + 1) : a[i] = s[1 + i - 1]
      BY <2>1, <1>1, SubSeqProperties
    <2> HIDE DEF a
    <2> QED BY <2>2, <1>1
  <1>4. /\ b \in Seq(S) /\ Len(b) = n - k
        /\ \A i \in 1..(n - k) : b[i] = s[k + i]
    <2>1. \A i \in (k + 1)..n : s[i] \in S
      BY <1>1, <1>2
    <2>2. /\ b \in Seq(S)
          /\ Len(b) = IF k + 1 <= n THEN n - (k + 1) + 1 ELSE 0
          /\ \A i \in 1..(n - (k + 1) + 1) : b[i] = s[(k + 1) + i - 1]
      <3>1. k + 1 \in Int /\ n \in Int
        BY <1>1
      <3> QED BY <3>1, <2>1, SubSeqProperties
    <2> HIDE DEF b
    <2>3. /\ n - (k + 1) + 1 = n - k
          /\ Len(b) = n - k
          /\ \A i \in 1..(n - k) : (k + 1) + i - 1 = k + i
      BY <2>2, <1>1
    <2> QED BY <2>2, <2>3
  <1>5. RemoveAt(s, k) = a \o b
    BY DEF RemoveAt, n
  <1> HIDE DEF a, b
  <1>6. /\ a \o b \in Seq(S)
        /\ Len(a \o b) = Len(a) + Len(b)
        /\ \A i \in 1..(Len(a) + Len(b)) :
             (a \o b)[i] = IF i <= Len(a) THEN a[i] ELSE b[i - Len(a)]
    BY <1>3, <1>4, ConcatProperties
  <1>7. Len(a) + Len(b) = n - 1
    BY <1>1, <1>3, <1>4
  <1>8. ASSUME NEW i \in 1..(n - 1)
        PROVE  (a \o b)[i] = IF i < k THEN s[i] ELSE s[i + 1]
    <2>1. i \in Int /\ 1 <= i /\ i <= n - 1
      BY <1>1
    <2>2. (a \o b)[i] = IF i <= k - 1 THEN a[i] ELSE b[i - (k - 1)]
      BY <1>3, <1>6, <1>7
    <2>3. CASE i < k
      BY <2>1, <2>2, <2>3, <1>1, <1>3
    <2>4. CASE ~(i < k)
      <3>1. i - (k - 1) \in 1..(n - k) /\ k + (i - (k - 1)) = i + 1 /\ ~(i <= k - 1)
        BY <2>1, <2>4, <1>1
      <3> QED BY <3>1, <2>2, <2>4, <1>4
    <2> QED BY <2>3, <2>4
  <1> QED BY <1>5, <1>6, <1>7, <1>8 DEF n

(* Without repetitions that removes one element of the set, and the result *)
(* has no repetitions either.                                              *)
LEMMA RemoveAtElements ==
  ASSUME NEW S, NEW s \in Seq(S), NEW k \in 1..Len(s), NoRepeats(s)
  PROVE  /\ ToSet(RemoveAt(s, k)) = ToSet(s) \ {s[k]}
         /\ NoRepeats(RemoveAt(s, k))
  <1> DEFINE n == Len(s)
             t == RemoveAt(s, k)
  <1>1. n \in Nat /\ k \in Int /\ 1 <= k /\ k <= n /\ DOMAIN s = 1..n
    BY LenProperties
  <1>2. /\ DOMAIN t = 1..(n - 1)
        /\ \A i \in 1..(n - 1) : t[i] = IF i < k THEN s[i] ELSE s[i + 1]
    BY RemoveAtShape, LenProperties
  <1>3. \A i, j \in 1..n : s[i] = s[j] => i = j
    BY <1>1 DEF NoRepeats
  <1> HIDE DEF n, t
  <1>4. ASSUME NEW i \in 1..(n - 1)
        PROVE  \E j \in 1..n : j # k /\ t[i] = s[j] /\ j = IF i < k THEN i ELSE i + 1
    <2>1. i \in Int /\ 1 <= i /\ i <= n - 1
      BY <1>1
    <2>2. i \in 1..n /\ i + 1 \in 1..n
      BY <2>1, <1>1
    <2>3. (i < k => i # k) /\ (~(i < k) => i + 1 # k)
      BY <2>1, <1>1
    <2> QED BY <2>2, <2>3, <1>2
  <1>5. ASSUME NEW j \in 1..n, j # k
        PROVE  \E i \in 1..(n - 1) : t[i] = s[j]
    <2>1. j \in Int /\ 1 <= j /\ j <= n
      BY <1>1
    <2>2. CASE j < k
      <3>1. j \in 1..(n - 1)
        BY <2>1, <2>2, <1>1
      <3> QED BY <3>1, <2>2, <1>2
    <2>3. CASE ~(j < k)
      <3>1. j - 1 \in 1..(n - 1) /\ ~(j - 1 < k) /\ (j - 1) + 1 = j
        BY <2>1, <2>3, <1>1, <1>5
      <3> QED BY <3>1, <1>2
    <2> QED BY <2>2, <2>3
  <1>6. ToSet(t) \subseteq ToSet(s) \ {s[k]}
    <2> SUFFICES ASSUME NEW i \in 1..(n - 1)
                 PROVE  t[i] \in ToSet(s) /\ t[i] # s[k]
      BY <1>2 DEF ToSet
    <2>1. PICK j \in 1..n : j # k /\ t[i] = s[j]
      BY <1>4
    <2>2. k \in 1..n
      BY <1>1
    <2> QED BY <2>1, <2>2, <1>1, <1>3 DEF ToSet
  <1>7. ToSet(s) \ {s[k]} \subseteq ToSet(t)
    <2> SUFFICES ASSUME NEW j \in 1..n, s[j] # s[k]
                 PROVE  s[j] \in ToSet(t)
      BY <1>1 DEF ToSet
    <2>1. PICK i \in 1..(n - 1) : t[i] = s[j]
      BY <1>5
    <2> QED BY <2>1, <1>2 DEF ToSet
  <1>8. NoRepeats(t)
    <2> SUFFICES ASSUME NEW i \in 1..(n - 1), NEW m \in 1..(n - 1), t[i] = t[m]
                 PROVE  i = m
      BY <1>2 DEF NoRepeats
    <2>1. PICK a \in 1..n : t[i] = s[a] /\ a = IF i < k THEN i ELSE i + 1
      BY <1>4
    <2>2. PICK b \in 1..n : t[m] = s[b] /\ b = IF m < k THEN m ELSE m + 1
      BY <1>4
    <2>3. a = b
      BY <2>1, <2>2, <1>3
    <2> QED BY <2>1, <2>2, <2>3, <1>1
  <1> QED BY <1>6, <1>7, <1>8 DEF t

(* In a sequence without repetitions the first occurrence is the only one. *)
LEMMA RemoveFirstIsRemoveAt ==
  ASSUME NEW S, NEW s \in Seq(S), NEW k \in 1..Len(s), NoRepeats(s)
  PROVE  RemoveFirst(s, s[k]) = RemoveAt(s, k)
  <1>1. {i \in 1..Len(s) : s[i] = s[k]} = {k}
    BY LenProperties DEF NoRepeats
  <1>2. SelectInSeq(s, LAMBDA v : v = s[k]) = k
    BY <1>1 DEF SelectInSeq, Min
  <1> QED BY <1>2 DEF RemoveFirst

(* process_kill's unlinking: whichever element p is, first, last, only or  *)
(* in the middle, the pointers represent the sequence without it.          *)
THEOREM UnlinkRemoves ==
  ASSUME NEW q \in Queue, NEW s \in Seq(Procs), Represents(q, s),
         NEW k \in 1..Len(s)
  PROVE  /\ Unlink(q, s[k]) \in Queue
         /\ Represents(Unlink(q, s[k]), RemoveAt(s, k))
  <1> DEFINE n == Len(s)
             p == s[k]
             t == RemoveAt(s, k)
             u == Unlink(q, p)
             before == q.prev[p]
             after == q.next[p]
  <1>1. n \in Nat /\ k \in Int /\ 1 <= k /\ k <= n /\ DOMAIN s = 1..n
    BY LenProperties
  <1>2. \A i \in 1..n : s[i] \in Procs
    BY ElementOfSeq
  <1>3. /\ t \in Seq(Procs) /\ Len(t) = n - 1 /\ DOMAIN t = 1..(n - 1)
        /\ \A i \in 1..(n - 1) : t[i] = IF i < k THEN s[i] ELSE s[i + 1]
    BY RemoveAtShape, LenProperties
  <1>4. NoRepeats(t)
    BY RemoveAtElements DEF Represents
  <1>5. s # <<>>
    BY <1>1, EmptySeq
  <1>6. (t = <<>>) <=> (n = 1)
    <2>1. t # <<>> => Len(t) # 0
      BY <1>3, EmptySeq
    <2>2. t = <<>> => Len(t) = 0
      BY EmptySeq
    <2> HIDE DEF n, t
    <2> QED BY <2>1, <2>2, <1>1, <1>3
  <1>7. /\ \A i, j \in 1..n : s[i] = s[j] => i = j
        /\ q.head = s[1] /\ q.tail = s[n]
        /\ \A i \in 1..n :
             /\ q.next[s[i]] = IF i = n THEN NULL ELSE s[i + 1]
             /\ q.prev[s[i]] = IF i = 1 THEN NULL ELSE s[i - 1]
    BY <1>1, <1>5 DEF Represents, NoRepeats
  <1> HIDE DEF n, t
  <1>8. k \in 1..n /\ 1 \in 1..n /\ n \in 1..n
    BY <1>1
  <1>9. /\ before = IF k = 1 THEN NULL ELSE s[k - 1]
        /\ after = IF k = n THEN NULL ELSE s[k + 1]
        /\ p \in Procs
    BY <1>2, <1>7, <1>8
  <1>10. /\ u.next = IF before = NULL THEN q.next ELSE [q.next EXCEPT ![before] = after]
         /\ u.prev = IF after = NULL THEN q.prev ELSE [q.prev EXCEPT ![after] = before]
         /\ u.head = IF q.head = p THEN after ELSE q.head
         /\ u.tail = IF q.tail = p THEN before ELSE q.tail
    BY DEF Unlink, Queue
  <1>11. u \in Queue
    BY <1>9 DEF Unlink, Queue, Pointer
  <1> HIDE DEF p, u, before, after
  <1>12. /\ (before = NULL) <=> (k = 1)
         /\ (after = NULL) <=> (k = n)
    <2>1. k # 1 => k - 1 \in 1..n
      BY <1>1
    <2>2. k # n => k + 1 \in 1..n
      BY <1>1
    <2> QED BY <2>1, <2>2, <1>2, <1>9, NullAssumption
  <1>13. u.head = IF t = <<>> THEN NULL ELSE t[1]
    <2>1. q.head = p <=> k = 1
      BY <1>7, <1>8 DEF p
    <2>2. CASE n = 1
      <3>1. k = 1 /\ k = n
        BY <2>2, <1>1
      <3> QED BY <3>1, <2>1, <2>2, <1>6, <1>10, <1>12
    <2>3. CASE n # 1 /\ k = 1
      <3>1. 1 \in 1..(n - 1) /\ ~(1 < k) /\ 1 + 1 = k + 1
        BY <2>3, <1>1
      <3>2. t[1] = s[k + 1] /\ k # n
        BY <3>1, <2>3, <1>3
      <3> QED BY <3>2, <2>1, <2>3, <1>6, <1>9, <1>10
    <2>4. CASE n # 1 /\ k # 1
      <3>1. 1 \in 1..(n - 1) /\ 1 < k
        BY <2>4, <1>1
      <3>2. t[1] = s[1]
        BY <3>1, <1>3
      <3> QED BY <3>2, <2>1, <2>4, <1>6, <1>7, <1>10
    <2> QED BY <2>2, <2>3, <2>4
  <1>14. u.tail = IF t = <<>> THEN NULL ELSE t[Len(t)]
    <2>1. q.tail = p <=> k = n
      BY <1>7, <1>8 DEF p
    <2>2. CASE n = 1
      <3>1. k = 1 /\ k = n
        BY <2>2, <1>1
      <3> QED BY <3>1, <2>1, <2>2, <1>6, <1>10, <1>12
    <2>3. CASE n # 1 /\ k = n
      <3>1. n - 1 \in 1..(n - 1) /\ n - 1 < k /\ k - 1 = n - 1 /\ k # 1
        BY <2>3, <1>1
      <3>2. t[Len(t)] = s[k - 1]
        BY <3>1, <1>3
      <3> QED BY <3>1, <3>2, <2>1, <2>3, <1>6, <1>9, <1>10
    <2>4. CASE n # 1 /\ k # n
      <3>1. n - 1 \in 1..(n - 1) /\ ~(n - 1 < k) /\ (n - 1) + 1 = n
        BY <2>4, <1>1
      <3>2. t[Len(t)] = s[n]
        BY <3>1, <1>3
      <3> QED BY <3>2, <2>1, <2>4, <1>6, <1>7, <1>10
    <2> QED BY <2>2, <2>3, <2>4
  <1>15. ASSUME NEW j \in 1..n, j # k
         PROVE  /\ u.next[s[j]] = IF j = k - 1 THEN after ELSE q.next[s[j]]
                /\ u.prev[s[j]] = IF j = k + 1 THEN before ELSE q.prev[s[j]]
    <2>1. s[j] \in Procs
      BY <1>2
    <2>2. k # 1 => (k - 1 \in 1..n /\ s[k - 1] \in Procs)
      BY <1>1, <1>2
    <2>3. k # n => (k + 1 \in 1..n /\ s[k + 1] \in Procs)
      BY <1>1, <1>2
    <2>4. (k = 1 => j # k - 1) /\ (k = n => j # k + 1)
      BY <1>1
    <2>5. u.next[s[j]] = IF j = k - 1 THEN after ELSE q.next[s[j]]
      <3>1. CASE k = 1
        BY <3>1, <2>4, <1>10, <1>12
      <3>2. CASE k # 1
        <4>1. s[j] = s[k - 1] <=> j = k - 1
          BY <3>2, <2>2, <1>7
        <4>2. u.next = [q.next EXCEPT ![s[k - 1]] = after]
          BY <3>2, <1>9, <1>10, <1>12
        <4> QED BY <4>1, <4>2, <2>1 DEF Queue
      <3> QED BY <3>1, <3>2
    <2>6. u.prev[s[j]] = IF j = k + 1 THEN before ELSE q.prev[s[j]]
      <3>1. CASE k = n
        BY <3>1, <2>4, <1>10, <1>12
      <3>2. CASE k # n
        <4>1. s[j] = s[k + 1] <=> j = k + 1
          BY <3>2, <2>3, <1>7
        <4>2. u.prev = [q.prev EXCEPT ![s[k + 1]] = before]
          BY <3>2, <1>9, <1>10, <1>12
        <4> QED BY <4>1, <4>2, <2>1 DEF Queue
      <3> QED BY <3>1, <3>2
    <2> QED BY <2>5, <2>6
  <1>16. ASSUME NEW i \in 1..(n - 1)
         PROVE  /\ u.next[t[i]] = IF i = n - 1 THEN NULL ELSE t[i + 1]
                /\ u.prev[t[i]] = IF i = 1 THEN NULL ELSE t[i - 1]
    <2>1. i \in Int /\ 1 <= i /\ i <= n - 1
      BY <1>1
    <2>2. CASE i < k - 1
      <3>1. /\ i \in 1..n /\ i # k /\ i # k - 1 /\ i # k + 1 /\ i < k /\ i + 1 < k
            /\ i # n /\ i # n - 1 /\ i + 1 \in 1..(n - 1)
            /\ i # 1 => i - 1 \in 1..(n - 1) /\ i - 1 < k
        BY <2>1, <2>2, <1>1
      <3>2. t[i] = s[i] /\ t[i + 1] = s[i + 1] /\ (i # 1 => t[i - 1] = s[i - 1])
        BY <3>1, <1>3
      <3> QED BY <3>1, <3>2, <1>7, <1>15
    <2>3. CASE i = k - 1
      <3>1. /\ i \in 1..n /\ i # k /\ i # k + 1 /\ i < k /\ ~(i + 1 < k) /\ i + 1 = k
            /\ (i = n - 1 <=> k = n) /\ (i # n - 1 => i + 1 \in 1..(n - 1))
            /\ i # 1 => i - 1 \in 1..(n - 1) /\ i - 1 < k
        BY <2>1, <2>3, <1>1
      <3>2. /\ t[i] = s[i] /\ (i # n - 1 => t[i + 1] = s[k + 1])
            /\ (i # 1 => t[i - 1] = s[i - 1])
        BY <3>1, <1>3
      <3> QED BY <3>1, <3>2, <2>3, <1>7, <1>9, <1>15
    <2>4. CASE i = k
      <3>1. /\ i + 1 \in 1..n /\ i + 1 # k /\ i + 1 # k - 1 /\ i + 1 = k + 1 /\ ~(i < k)
            /\ (i = n - 1 <=> i + 1 = n)
            /\ (i # n - 1 => i + 1 \in 1..(n - 1) /\ ~(i + 1 < k))
            /\ (i # 1 => i - 1 \in 1..(n - 1) /\ i - 1 < k)
        BY <2>1, <2>4, <1>1
      <3>2. /\ t[i] = s[i + 1] /\ (i # n - 1 => t[i + 1] = s[(i + 1) + 1])
            /\ (i # 1 => t[i - 1] = s[k - 1])
        BY <3>1, <2>4, <1>3
      <3>3. /\ u.next[s[i + 1]] = q.next[s[i + 1]]
            /\ u.prev[s[i + 1]] = before
        BY <3>1, <1>15
      <3>4. q.next[s[i + 1]] = IF i + 1 = n THEN NULL ELSE s[(i + 1) + 1]
        BY <3>1, <1>7
      <3> QED BY <3>1, <3>2, <3>3, <3>4, <2>4, <1>9
    <2>5. CASE i > k
      <3>1. /\ i + 1 \in 1..n /\ i + 1 # k /\ i + 1 # k - 1 /\ i + 1 # k + 1 /\ ~(i < k)
            /\ (i = n - 1 <=> i + 1 = n) /\ i + 1 # 1
            /\ (i # n - 1 => i + 1 \in 1..(n - 1) /\ ~(i + 1 < k))
            /\ i # 1 /\ i - 1 \in 1..(n - 1) /\ ~(i - 1 < k)
            /\ (i - 1) + 1 = i /\ (i + 1) - 1 = i
        BY <2>1, <2>5, <1>1
      <3>2. /\ t[i] = s[i + 1] /\ (i # n - 1 => t[i + 1] = s[(i + 1) + 1])
            /\ t[i - 1] = s[i]
        BY <3>1, <1>3
      <3>3. /\ u.next[s[i + 1]] = q.next[s[i + 1]]
            /\ u.prev[s[i + 1]] = q.prev[s[i + 1]]
        BY <3>1, <1>15
      <3>4. /\ q.next[s[i + 1]] = IF i + 1 = n THEN NULL ELSE s[(i + 1) + 1]
            /\ q.prev[s[i + 1]] = s[i]
        BY <3>1, <1>7
      <3> QED BY <3>1, <3>2, <3>3, <3>4
    <2> QED BY <2>1, <2>2, <2>3, <2>4, <2>5, <1>1
  <1>17. Represents(u, t)
    BY <1>3, <1>4, <1>13, <1>14, <1>16 DEF Represents
  <1> QED BY <1>11, <1>17 DEF p, t, u

(* preempt_handler and scheduler_pick_next: the old current process c is   *)
(* enqueued and the head dequeued.  The queue is never empty in between,   *)
(* so there always is a next process (c itself, if nobody else waits).     *)
THEOREM RotationRotates ==
  ASSUME NEW q \in Queue, NEW s \in Seq(Procs), Represents(q, s),
         NEW c \in Procs, c \notin ToSet(s)
  PROVE  /\ Enqueue(q, c).head = Head(Append(s, c))
         /\ Enqueue(q, c).head \in ToSet(s) \union {c}
         /\ Enqueue(q, c).head \in Procs
         /\ Dequeue(Enqueue(q, c)) \in Queue
         /\ Tail(Append(s, c)) \in Seq(Procs)
         /\ Represents(Dequeue(Enqueue(q, c)), Tail(Append(s, c)))
         /\ ToSet(Tail(Append(s, c))) =
              (ToSet(s) \union {c}) \ {Enqueue(q, c).head}
  <1> DEFINE e == Enqueue(q, c)
             a == Append(s, c)
  <1>1. e \in Queue /\ Represents(e, a)
    BY EnqueueAppends
  <1>2. a \in Seq(Procs) /\ a # <<>> /\ ToSet(a) = ToSet(s) \union {c}
    BY AppendElements
  <1>3. NoRepeats(a)
    BY <1>1 DEF Represents
  <1> HIDE DEF e, a
  <1>4. /\ Dequeue(e) \in Queue /\ e.head = Head(a) /\ e.head \in Procs
        /\ Represents(Dequeue(e), Tail(a))
    BY <1>1, <1>2, DequeueTakesHead
  <1>5. ToSet(Tail(a)) = ToSet(a) \ {Head(a)}
    BY <1>2, <1>3, TailElements
  <1>6. Head(a) \in ToSet(a) /\ Tail(a) \in Seq(Procs)
    <2>1. 1 \in DOMAIN a /\ Head(a) = a[1]
      BY <1>2, EmptySeq, LenProperties
    <2> QED BY <2>1, <1>2, HeadTailProperties DEF ToSet
  <1> QED BY <1>2, <1>4, <1>5, <1>6 DEF e, a
===============================================================================
