----------------------------- MODULE ConsoleProofs -----------------------------
(***************************************************************************)
(* Theorems about the keyboard's ring and the screen, for every size of    *)
(* both, every set of keys and characters, and every order of the calls    *)
(* and the interrupts.  First the keyboard, then the screen: arithmetic of *)
(* its cells, one character typed on it, a call cut into its steps; last   *)
(* the two together, as the shell uses them.                               *)
(***************************************************************************)
EXTENDS Console, SequenceTheorems, TLAPS

--------------------------------------------------------------------------------

LEMMA NextIndex ==
  ASSUME NEW i \in Indices
  PROVE  (i + 1) % KB_BUFFER_SIZE = IF i = KB_BUFFER_SIZE - 1 THEN 0 ELSE i + 1
  <1>1. KB_BUFFER_SIZE \in Nat /\ KB_BUFFER_SIZE > 1
    BY KeyboardAssumption
  <1>2. CASE i = KB_BUFFER_SIZE - 1
    BY <1>1, <1>2 DEF Indices
  <1>3. CASE i # KB_BUFFER_SIZE - 1
    BY <1>1, <1>3 DEF Indices
  <1> QED BY <1>2, <1>3

LEMMA Wrapped ==
  ASSUME NEW k \in 0 .. (2 * KB_BUFFER_SIZE - 1)
  PROVE  k % KB_BUFFER_SIZE = IF k < KB_BUFFER_SIZE THEN k ELSE k - KB_BUFFER_SIZE
  <1>1. KB_BUFFER_SIZE \in Nat /\ KB_BUFFER_SIZE > 1
    BY KeyboardAssumption
  <1>2. CASE k < KB_BUFFER_SIZE
    BY <1>1, <1>2
  <1>3. CASE ~(k < KB_BUFFER_SIZE)
    <2> DEFINE j == k - KB_BUFFER_SIZE
    <2>1. j \in 0 .. (KB_BUFFER_SIZE - 1) /\ k = KB_BUFFER_SIZE + j
      BY <1>1, <1>3
    <2> HIDE DEF j
    <2>2. PICK q \in Nat, r \in 0 .. (KB_BUFFER_SIZE - 1) :
            /\ k = q * KB_BUFFER_SIZE + r
            /\ r = k % KB_BUFFER_SIZE
      <3> DEFINE q == k \div KB_BUFFER_SIZE
      <3>1. k \in Nat /\ q \in Nat /\ k % KB_BUFFER_SIZE \in 0 .. (KB_BUFFER_SIZE - 1)
            /\ k = q * KB_BUFFER_SIZE + (k % KB_BUFFER_SIZE)
        BY <1>1
      <3> QED BY <3>1
    <2>3. q = 1
      <3>1. CASE q = 0
        BY <1>1, <1>3, <2>2, <3>1
      <3>2. CASE q >= 2
        <4>1. q * KB_BUFFER_SIZE >= 2 * KB_BUFFER_SIZE
          BY <1>1, <3>2
        <4> QED BY <1>1, <2>1, <2>2, <4>1
      <3> QED BY <3>1, <3>2
    <2> QED BY <1>1, <1>3, <2>2, <2>3
  <1> QED BY <1>2, <1>3

--------------------------------------------------------------------------------

LEMMA FunctionIsSeq ==
  ASSUME NEW S, NEW n \in Nat, NEW q \in [1 .. n -> S]
  PROVE  q \in Seq(S) /\ Len(q) = n
  <1>1. q \in Seq(S)
    OBVIOUS
  <1>2. DOMAIN q = 1 .. n /\ DOMAIN q = 1 .. Len(q) /\ Len(q) \in Nat
    BY <1>1
  <1> QED BY <1>1, <1>2

LEMMA AppendIs ==
  ASSUME NEW S, NEW s \in Seq(S), NEW t \in Seq(S), NEW e \in S,
         Len(t) = Len(s) + 1, t[Len(s) + 1] = e,
         \A i \in 1 .. Len(s) : t[i] = s[i]
  PROVE  t = Append(s, e)
  <1>1. /\ Append(s, e) \in Seq(S)
        /\ Len(Append(s, e)) = Len(s) + 1
        /\ \A i \in 1 .. Len(s) : Append(s, e)[i] = s[i]
        /\ Append(s, e)[Len(s) + 1] = e
    OBVIOUS
  <1>2. \A i \in 1 .. Len(t) : t[i] = Append(s, e)[i]
    BY <1>1
  <1> QED BY <1>1, <1>2, SeqEqual

LEMMA TailIs ==
  ASSUME NEW S, NEW s \in Seq(S), NEW t \in Seq(S), s # <<>>,
         Len(t) = Len(s) - 1,
         \A i \in 1 .. Len(t) : t[i] = s[i + 1]
  PROVE  t = Tail(s)
  <1>1. /\ Tail(s) \in Seq(S)
        /\ Len(Tail(s)) = Len(s) - 1
        /\ \A i \in 1 .. Len(Tail(s)) : Tail(s)[i] = s[i + 1]
    BY HeadTailProperties
  <1> QED BY <1>1, SeqEqual

(* How many characters the ring holds, and where the i-th is.              *)
Held(read, write) ==
  IF write >= read THEN write - read ELSE write + KB_BUFFER_SIZE - read
Slot(read, i) ==
  IF read + i - 1 < KB_BUFFER_SIZE THEN read + i - 1 ELSE read + i - 1 - KB_BUFFER_SIZE

LEMMA RingIs ==
  ASSUME NEW read \in Indices, NEW write \in Indices,
         NEW buffer \in [Indices -> Chars \union {Nothing}]
  PROVE  LET q == [i \in 1 .. ((write + KB_BUFFER_SIZE - read) % KB_BUFFER_SIZE)
                     |-> buffer[(read + i - 1) % KB_BUFFER_SIZE]]
         IN  /\ q \in Seq(Chars \union {Nothing})
             /\ Len(q) = Held(read, write)
             /\ Held(read, write) \in 0 .. (KB_BUFFER_SIZE - 1)
             /\ \A i \in 1 .. Held(read, write) :
                  Slot(read, i) \in Indices /\ q[i] = buffer[Slot(read, i)]
  <1> DEFINE n == (write + KB_BUFFER_SIZE - read) % KB_BUFFER_SIZE
             e(i) == buffer[(read + i - 1) % KB_BUFFER_SIZE]
             q == [i \in 1 .. n |-> e(i)]
  <1>1. KB_BUFFER_SIZE \in Nat /\ KB_BUFFER_SIZE > 1
    BY KeyboardAssumption
  <1>2. n = Held(read, write) /\ n \in 0 .. (KB_BUFFER_SIZE - 1)
    <2>1. write + KB_BUFFER_SIZE - read \in 0 .. (2 * KB_BUFFER_SIZE - 1)
      BY <1>1 DEF Indices
    <2>2. n = IF write + KB_BUFFER_SIZE - read < KB_BUFFER_SIZE
              THEN write + KB_BUFFER_SIZE - read
              ELSE (write + KB_BUFFER_SIZE - read) - KB_BUFFER_SIZE
      BY <2>1, Wrapped
    <2> HIDE DEF n
    <2> QED BY <1>1, <2>2 DEF Held, Indices
  <1> HIDE DEF n
  <1>3. ASSUME NEW i \in 1 .. n
        PROVE  Slot(read, i) \in Indices /\ e(i) = buffer[Slot(read, i)]
    <2>1. read + i - 1 \in 0 .. (2 * KB_BUFFER_SIZE - 1)
      BY <1>1, <1>2 DEF Indices
    <2>2. (read + i - 1) % KB_BUFFER_SIZE = Slot(read, i)
      <3> DEFINE k == read + i - 1
      <3>1. k \in 0 .. (2 * KB_BUFFER_SIZE - 1)
        BY <2>1
      <3>2. Slot(read, i) = IF k < KB_BUFFER_SIZE THEN k ELSE k - KB_BUFFER_SIZE
        BY <1>1 DEF Slot, Indices
      <3> HIDE DEF k
      <3>3. k % KB_BUFFER_SIZE = Slot(read, i)
        BY <3>1, <3>2, Wrapped
      <3> QED BY <3>3 DEF k
    <2>3. Slot(read, i) \in Indices
      BY <1>1, <1>2, <2>1 DEF Slot, Indices
    <2> QED BY <2>2, <2>3
  <1>4. q \in Seq(Chars \union {Nothing}) /\ Len(q) = n
    <2>1. \A i \in 1 .. n : e(i) \in Chars \union {Nothing}
      BY <1>3
    <2>2. n \in Nat
      BY <1>1, <1>2
    <2> HIDE DEF e
    <2>3. q \in [1 .. n -> Chars \union {Nothing}]
      BY <2>1
    <2> HIDE DEF q
    <2> QED BY <2>2, <2>3, FunctionIsSeq
  <1>5. \A i \in 1 .. n : q[i] = e(i)
    OBVIOUS
  <1> HIDE DEF e, q
  <1>6. /\ q \in Seq(Chars \union {Nothing})
        /\ Len(q) = Held(read, write)
        /\ Held(read, write) \in 0 .. (KB_BUFFER_SIZE - 1)
        /\ \A i \in 1 .. Held(read, write) :
             Slot(read, i) \in Indices /\ q[i] = buffer[Slot(read, i)]
    BY <1>2, <1>3, <1>4, <1>5
  <1> QED BY <1>6 DEF q, n, e

(* The contents of the ring, before and after a step.                      *)
LEMMA ContentsAre ==
  ASSUME TypeOK
  PROVE  /\ Contents \in Seq(Chars \union {Nothing})
         /\ Len(Contents) = Held(kb_buffer_read, kb_buffer_write)
         /\ Held(kb_buffer_read, kb_buffer_write) \in 0 .. (KB_BUFFER_SIZE - 1)
         /\ \A i \in 1 .. Held(kb_buffer_read, kb_buffer_write) :
              /\ Slot(kb_buffer_read, i) \in Indices
              /\ Contents[i] = kb_buffer[Slot(kb_buffer_read, i)]
  BY RingIs DEF TypeOK, Contents

LEMMA TypingInit == Init => TypeOK
  <1>1. 0 \in Indices
    BY KeyboardAssumption DEF Indices
  <1> QED BY <1>1 DEF Init, TypeOK

LEMMA NextIndexTyped ==
  ASSUME NEW i \in Indices
  PROVE  (i + 1) % KB_BUFFER_SIZE \in Indices
  BY NextIndex, KeyboardAssumption DEF Indices

LEMMA TypingNext == TypeOK /\ [Next]_vars => TypeOK'
  <1> SUFFICES ASSUME TypeOK, [Next]_vars PROVE TypeOK'
    OBVIOUS
  <1> USE DEF TypeOK, ring
  <1>1. Woken \in [Readers -> {"idle", "test", "hlt", "halted", "load", "advance"}]
    BY DEF Woken
  <1>2. ASSUME NEW k \in ShiftKeys, PressShift(k) \/ ReleaseShift(k) PROVE TypeOK'
    BY <1>1, <1>2 DEF PressShift, ReleaseShift
  <1>3. ASSUME NEW k \in Keys, PressKey(k) PROVE TypeOK'
    <2> DEFINE char == [key |-> k, shifted |-> shift_pressed]
    <2>1. char \in Chars
      BY DEF Chars
    <2> HIDE DEF char
    <2>2. kb_buffer' \in [Indices -> Chars \union {Nothing}] /\ kb_buffer_write' \in Indices
      BY <1>3, <2>1, NextIndexTyped DEF PressKey, kb_buffer_add, char
    <2> QED BY <1>1, <1>3, <2>2 DEF PressKey
  <1>4. CASE Tick
    BY <1>1, <1>4 DEF Tick
  <1>5. ASSUME NEW r \in Readers, keyboard_getchar(r) PROVE TypeOK'
    <2>1. CASE Call(r)
      BY <2>1 DEF Call
    <2>2. CASE Test(r)
      BY <2>2 DEF Test
    <2>3. CASE Halt(r)
      BY <2>3 DEF Halt
    <2>4. CASE Load(r)
      BY <2>4 DEF Load
    <2>5. CASE Advance(r)
      BY <2>5, NextIndexTyped DEF Advance
    <2> QED BY <1>5, <2>1, <2>2, <2>3, <2>4, <2>5 DEF keyboard_getchar
  <1>6. CASE UNCHANGED vars
    BY <1>6 DEF vars
  <1> QED BY <1>2, <1>3, <1>4, <1>5, <1>6 DEF Next, keyboard_handler

LEMMA KeyboardTypeOK == Spec => []TypeOK
  BY TypingInit, TypingNext, PTL DEF Spec

(* A key that finds room adds its character at the end; otherwise nothing  *)
(* changes.                                                                *)
LEMMA PressKeyAdds ==
  ASSUME TypeOK, NEW k \in Keys, PressKey(k)
  PROVE  IF Len(Contents) < KB_BUFFER_SIZE - 1
         THEN Contents' = Append(Contents, [key |-> k, shifted |-> shift_pressed])
         ELSE Contents' = Contents
  <1> DEFINE char == [key |-> k, shifted |-> shift_pressed]
             next_write == (kb_buffer_write + 1) % KB_BUFFER_SIZE
             n == Held(kb_buffer_read, kb_buffer_write)
  <1>1. /\ KB_BUFFER_SIZE \in Nat /\ KB_BUFFER_SIZE > 1
        /\ kb_buffer_read \in 0 .. KB_BUFFER_SIZE - 1 /\ kb_buffer_write \in 0 .. KB_BUFFER_SIZE - 1
        /\ kb_buffer \in [Indices -> Chars \union {Nothing}]
    BY KeyboardAssumption DEF TypeOK, Indices
  <1>2. next_write = IF kb_buffer_write = KB_BUFFER_SIZE - 1 THEN 0 ELSE kb_buffer_write + 1
    BY NextIndex DEF TypeOK
  <1>3. /\ kb_buffer_read' = kb_buffer_read
        /\ IF next_write # kb_buffer_read
           THEN /\ kb_buffer' = [kb_buffer EXCEPT ![kb_buffer_write] = char]
                /\ kb_buffer_write' = next_write
           ELSE UNCHANGED <<kb_buffer, kb_buffer_write>>
    BY DEF PressKey, kb_buffer_add
  <1>4. char \in Chars \union {Nothing}
    BY DEF TypeOK, Chars
  <1>5. TypeOK'
    BY TypingNext DEF Next, keyboard_handler
  <1> HIDE DEF next_write, char
  <1>6. n < KB_BUFFER_SIZE - 1 <=> next_write # kb_buffer_read
    BY <1>1, <1>2 DEF Held
  <1>7. CASE next_write # kb_buffer_read
    <2>1. Held(kb_buffer_read', kb_buffer_write') = n + 1
      BY <1>1, <1>2, <1>3, <1>7 DEF Held
    <2>2. /\ n + 1 \in 1 .. KB_BUFFER_SIZE - 1
          /\ Slot(kb_buffer_read, n + 1) = kb_buffer_write
      BY <1>1, <1>2, <1>7 DEF Held, Slot
    <2>3. \A i \in 1 .. n : Slot(kb_buffer_read, i) # kb_buffer_write
      BY <1>1, <1>2, <1>7 DEF Held, Slot
    <2> HIDE DEF n
    <2>4. /\ Contents' \in Seq(Chars \union {Nothing}) /\ Len(Contents') = n + 1
          /\ \A i \in 1 .. n + 1 :
                /\ Slot(kb_buffer_read, i) \in Indices
                /\ Contents'[i] = kb_buffer'[Slot(kb_buffer_read, i)]
      <3>1. /\ Contents' \in Seq(Chars \union {Nothing})
            /\ Len(Contents') = Held(kb_buffer_read', kb_buffer_write')
            /\ \A i \in 1 .. Held(kb_buffer_read', kb_buffer_write') :
                 /\ Slot(kb_buffer_read', i) \in Indices
                 /\ Contents'[i] = kb_buffer'[Slot(kb_buffer_read', i)]
        BY <1>5, RingIs DEF TypeOK, Contents
      <3> QED BY <1>3, <2>1, <3>1
    <2>5. /\ Contents \in Seq(Chars \union {Nothing}) /\ Len(Contents) = n
          /\ \A i \in 1 .. n : Contents[i] = kb_buffer[Slot(kb_buffer_read, i)]
      BY ContentsAre DEF n
    <2>6. Contents'[n + 1] = char
      BY <1>1, <1>3, <1>7, <2>2, <2>4
    <2>7. \A i \in 1 .. n : Contents'[i] = Contents[i]
      BY <1>1, <1>3, <1>7, <2>2, <2>3, <2>4, <2>5
    <2>8. Contents' = Append(Contents, char)
      BY <1>4, <2>4, <2>5, <2>6, <2>7, AppendIs
    <2> QED BY <1>6, <1>7, <2>5, <2>8 DEF n, char
  <1>8. CASE next_write = kb_buffer_read
    BY <1>3, <1>6, <1>8, ContentsAre DEF Contents
  <1> QED BY <1>7, <1>8

(* A reader takes the first character.                                     *)
LEMMA AdvanceTakes ==
  ASSUME TypeOK, NEW r \in Readers, Advance(r), kb_buffer_read # kb_buffer_write
  PROVE  /\ Contents # <<>> /\ Head(Contents) = kb_buffer[kb_buffer_read]
         /\ Contents' = Tail(Contents)
  <1> DEFINE n == Held(kb_buffer_read, kb_buffer_write)
             next_read == (kb_buffer_read + 1) % KB_BUFFER_SIZE
  <1>1. /\ KB_BUFFER_SIZE \in Nat /\ KB_BUFFER_SIZE > 1
        /\ kb_buffer_read \in 0 .. KB_BUFFER_SIZE - 1 /\ kb_buffer_write \in 0 .. KB_BUFFER_SIZE - 1
        /\ kb_buffer \in [Indices -> Chars \union {Nothing}]
    BY KeyboardAssumption DEF TypeOK, Indices
  <1>2. next_read = IF kb_buffer_read = KB_BUFFER_SIZE - 1 THEN 0 ELSE kb_buffer_read + 1
    BY NextIndex DEF TypeOK
  <1>3. /\ kb_buffer_read' = next_read
        /\ UNCHANGED <<kb_buffer, kb_buffer_write>>
    BY DEF Advance
  <1>4. TypeOK'
    BY TypingNext DEF Next, keyboard_getchar
  <1> HIDE DEF next_read
  <1>5. n \in 1 .. KB_BUFFER_SIZE - 1 /\ Held(kb_buffer_read', kb_buffer_write') = n - 1
    BY <1>1, <1>2, <1>3 DEF Held
  <1>6. Slot(kb_buffer_read, 1) = kb_buffer_read
    BY <1>1 DEF Slot
  <1>7. \A i \in 1 .. n - 1 : Slot(kb_buffer_read', i) = Slot(kb_buffer_read, i + 1)
    BY <1>1, <1>2, <1>3, <1>5 DEF Slot
  <1> HIDE DEF n
  <1>8. /\ Contents' \in Seq(Chars \union {Nothing}) /\ Len(Contents') = n - 1
        /\ \A i \in 1 .. n - 1 : Contents'[i] = kb_buffer[Slot(kb_buffer_read', i)]
    <2>1. /\ Contents' \in Seq(Chars \union {Nothing})
          /\ Len(Contents') = Held(kb_buffer_read', kb_buffer_write')
          /\ \A i \in 1 .. Held(kb_buffer_read', kb_buffer_write') :
               /\ Slot(kb_buffer_read', i) \in Indices
               /\ Contents'[i] = kb_buffer'[Slot(kb_buffer_read', i)]
      BY <1>4, RingIs DEF TypeOK, Contents
    <2> QED BY <1>3, <1>5, <2>1
  <1>9. /\ Contents \in Seq(Chars \union {Nothing}) /\ Len(Contents) = n
        /\ \A i \in 1 .. n : Contents[i] = kb_buffer[Slot(kb_buffer_read, i)]
    BY ContentsAre DEF n
  <1>10. Contents # <<>>
    BY <1>5, <1>9
  <1>11. Head(Contents) = kb_buffer[kb_buffer_read]
    BY <1>5, <1>6, <1>9, <1>10
  <1>12. \A i \in 1 .. n - 1 : Contents'[i] = Contents[i + 1]
    BY <1>5, <1>7, <1>8, <1>9
  <1>13. Contents' = Tail(Contents)
    BY <1>8, <1>9, <1>10, <1>12, TailIs
  <1> QED BY <1>10, <1>11, <1>13

(* The kernel has one reader of the keyboard, its shell: with more, a      *)
(* character may be read twice.                                            *)
OneReader == \A r, s \in Readers : r = s

(* What a reader knows of the ring stays true while it is interrupted.     *)
ReaderInv ==
  \A r \in Readers :
    /\ pc[r] \in {"load", "advance"} => kb_buffer_read # kb_buffer_write
    /\ pc[r] = "advance" => c[r] = kb_buffer[kb_buffer_read]

LEMMA ReaderInvNext ==
  ASSUME OneReader, TypeOK, ReaderInv, [Next]_vars
  PROVE  ReaderInv'
  <1> USE DEF ReaderInv, TypeOK, ring
  <1>1. \A r \in Readers : Woken[r] \in {"load", "advance"} => Woken[r] = pc[r]
    BY DEF Woken
  <1>2. ASSUME NEW k \in ShiftKeys, PressShift(k) \/ ReleaseShift(k) PROVE ReaderInv'
    BY <1>1, <1>2 DEF PressShift, ReleaseShift
  <1>3. ASSUME NEW k \in Keys, PressKey(k) PROVE ReaderInv'
    BY <1>1, <1>3 DEF PressKey, kb_buffer_add
  <1>4. CASE Tick
    BY <1>1, <1>4 DEF Tick
  <1>5. ASSUME NEW r \in Readers, keyboard_getchar(r) PROVE ReaderInv'
    <2>1. \A s \in Readers : s = r
      BY DEF OneReader
    <2>2. CASE Call(r)
      BY <2>1, <2>2 DEF Call
    <2>3. CASE Test(r)
      BY <2>1, <2>3 DEF Test, keyboard_has_input
    <2>4. CASE Halt(r)
      BY <2>1, <2>4 DEF Halt
    <2>5. CASE Load(r)
      BY <2>1, <2>5 DEF Load
    <2>6. CASE Advance(r)
      BY <2>1, <2>6 DEF Advance
    <2> QED BY <1>5, <2>2, <2>3, <2>4, <2>5, <2>6 DEF keyboard_getchar
  <1>6. CASE UNCHANGED vars
    BY <1>6 DEF vars
  <1> QED BY <1>2, <1>3, <1>4, <1>5, <1>6 DEF Next, keyboard_handler

(* Every step of the driver is a step of the queue, or leaves it alone.    *)
LEMMA FifoStep ==
  ASSUME TypeOK, ReaderInv, [Next]_vars
  PROVE  [Fifo!Type \/ Fifo!Read]_<<Contents, returned>>
  <1>1. ASSUME UNCHANGED <<ring, returned>>
        PROVE  UNCHANGED <<Contents, returned>>
    BY <1>1 DEF ring, Contents
  <1>2. ASSUME NEW k \in ShiftKeys, PressShift(k) \/ ReleaseShift(k)
        PROVE  UNCHANGED <<Contents, returned>>
    BY <1>1, <1>2 DEF PressShift, ReleaseShift
  <1>3. ASSUME NEW k \in Keys, PressKey(k)
        PROVE  [Fifo!Type]_<<Contents, returned>>
    <2> DEFINE char == [key |-> k, shifted |-> shift_pressed]
    <2>1. char \in Chars /\ returned' = returned
      BY <1>3 DEF Chars, TypeOK, PressKey
    <2>2. IF Len(Contents) < KB_BUFFER_SIZE - 1
          THEN Contents' = Append(Contents, char) ELSE Contents' = Contents
      BY <1>3, PressKeyAdds
    <2> QED BY <2>1, <2>2 DEF Fifo!Type
  <1>4. CASE Tick
    BY <1>1, <1>4 DEF Tick
  <1>5. ASSUME NEW r \in Readers, keyboard_getchar(r)
        PROVE  [Fifo!Read]_<<Contents, returned>>
    <2>1. CASE Call(r) \/ Test(r) \/ Halt(r) \/ Load(r)
      BY <1>1, <2>1 DEF Call, Test, Halt, Load
    <2>2. CASE Advance(r)
      <3>1. kb_buffer_read # kb_buffer_write /\ returned' = kb_buffer[kb_buffer_read]
        BY <2>2 DEF Advance, ReaderInv
      <3> QED BY <2>2, <3>1, AdvanceTakes DEF Fifo!Read
    <2> QED BY <1>5, <2>1, <2>2 DEF keyboard_getchar
  <1>6. CASE UNCHANGED vars
    BY <1>1, <1>6 DEF vars, ring
  <1> QED BY <1>2, <1>3, <1>4, <1>5, <1>6 DEF Next, keyboard_handler

LEMMA FifoInit == Init => Fifo!Init
  <1> SUFFICES ASSUME Init PROVE Fifo!Init
    OBVIOUS
  <1>1. /\ TypeOK /\ returned = Nothing
        /\ kb_buffer_read = 0 /\ kb_buffer_write = 0
    BY TypingInit DEF Init
  <1>2. Contents \in Seq(Chars \union {Nothing}) /\ Len(Contents) = 0
    BY <1>1, ContentsAre DEF Held
  <1>3. Contents = <<>>
    BY <1>2, EmptySeq
  <1> QED BY <1>1, <1>3 DEF Fifo!Init

(* With one reader the ring is a queue: what the interrupt puts in comes   *)
(* out of keyboard_getchar once and in order.                              *)
THEOREM KeyboardIsFifo == OneReader => (Spec => ImplementsFifo)
  <1> SUFFICES ASSUME OneReader PROVE Spec => ImplementsFifo
    OBVIOUS
  <1>1. Init => ReaderInv
    BY DEF Init, ReaderInv
  <1>2. TypeOK /\ ReaderInv /\ [Next]_vars => ReaderInv'
    BY ReaderInvNext
  <1>3. TypeOK /\ ReaderInv /\ [Next]_vars => [Fifo!Type \/ Fifo!Read]_<<Contents, returned>>
    BY FifoStep
  <1> QED BY <1>1, <1>2, <1>3, FifoInit, KeyboardTypeOK, PTL DEF Spec, ImplementsFifo, Fifo!Spec

(* A dropped key needs a full ring, however many readers there are.        *)
THEOREM KeysDroppedOnlyWhenFull == Spec => DroppedOnlyWhenFull
  <1>1. TypeOK => [\A k \in Keys :
                      (PressKey(k) /\ Len(Contents) < KB_BUFFER_SIZE - 1) =>
                         Len(Contents') = Len(Contents) + 1]_vars
    <2> SUFFICES ASSUME TypeOK, NEW k \in Keys, PressKey(k), Len(Contents) < KB_BUFFER_SIZE - 1
                 PROVE  Len(Contents') = Len(Contents) + 1
      OBVIOUS
    <2>1. Contents' = Append(Contents, [key |-> k, shifted |-> shift_pressed])
      BY PressKeyAdds
    <2>2. Contents \in Seq(Chars \union {Nothing})
      BY ContentsAre
    <2>3. [key |-> k, shifted |-> shift_pressed] \in Chars \union {Nothing}
      BY DEF TypeOK, Chars
    <2> QED BY <2>1, <2>2, <2>3
  <1> QED BY <1>1, KeyboardTypeOK, PTL DEF DroppedOnlyWhenFull

--------------------------------------------------------------------------------

LEMMA ScreenSize ==
  /\ VGA_WIDTH \in Nat \ {0} /\ VGA_HEIGHT \in Nat \ {0, 1} /\ TabStop \in Nat \ {0}
  /\ VGA_WIDTH * VGA_HEIGHT \in Nat
  <1>1. VGA_WIDTH \in Nat \ {0} /\ VGA_HEIGHT \in Nat \ {0, 1} /\ TabStop \in Nat \ {0}
    BY VgaAssumption
  <1> QED BY <1>1

LEMMA MulMono ==
  ASSUME NEW a \in Nat, NEW b \in Nat, a <= b, NEW n \in Nat
  PROVE  a * n <= b * n
  OBVIOUS

LEMMA DivUnique ==
  ASSUME NEW d \in Nat \ {0}, NEW p \in Nat, NEW q \in Nat,
         NEW r \in 0 .. d - 1, NEW s \in 0 .. d - 1, p * d + r = q * d + s
  PROVE  p = q /\ r = s
  <1>1. p * d \in Nat /\ q * d \in Nat /\ (p + 1) * d = p * d + d /\ (q + 1) * d = q * d + d
    OBVIOUS
  <1>2. CASE p < q
    <2>1. (p + 1) * d <= q * d
      BY <1>2, MulMono
    <2> QED BY <1>1, <2>1
  <1>3. CASE q < p
    <2>1. (q + 1) * d <= p * d
      BY <1>3, MulMono
    <2> QED BY <1>1, <2>1
  <1> QED BY <1>1, <1>2, <1>3

Columns == 0 .. VGA_WIDTH - 1
Lines == 0 .. VGA_HEIGHT - 1

(* Every place on the screen has a cell of its own, and the cell below it  *)
(* is VGA_WIDTH further.                                                   *)
LEMMA Positions ==
  /\ \A x \in Columns, y \in Lines : Position(x, y) \in Cells
  /\ \A x, x2 \in Columns, y, y2 \in Lines :
       Position(x, y) = Position(x2, y2) => x = x2 /\ y = y2
  /\ \A x \in Columns, y \in Lines :
       /\ Position(x, y) + VGA_WIDTH = Position(x, y + 1)
       /\ Position(x, y) + VGA_WIDTH \in Cells <=> y + 1 \in Lines
  <1> DEFINE W == VGA_WIDTH
             H == VGA_HEIGHT
  <1>1. W \in Nat \ {0} /\ H \in Nat \ {0} /\ W * H \in Nat /\ W * H = H * W
    BY ScreenSize
  <1>2. Columns = 0 .. W - 1 /\ Lines = 0 .. H - 1 /\ Cells = 0 .. W * H - 1
    BY DEF Columns, Lines, Cells
  <1>3. \A x, y : Position(x, y) = y * W + x
    BY DEF Position
  <1> HIDE DEF W, H
  <1>4. ASSUME NEW x \in 0 .. W - 1, NEW y \in 0 .. H - 1
        PROVE  y * W + x \in 0 .. W * H - 1
    <2>1. (y + 1) * W <= H * W
      BY <1>1, MulMono
    <2>2. (y + 1) * W = y * W + W /\ y * W \in Nat
      BY <1>1
    <2> QED BY <1>1, <2>1, <2>2
  <1>5. ASSUME NEW x \in 0 .. W - 1, NEW y \in 0 .. H - 1
        PROVE  /\ y * W + x + W = (y + 1) * W + x
               /\ y * W + x + W \in 0 .. W * H - 1 <=> y + 1 \in 0 .. H - 1
    <2>1. (y + 1) * W = y * W + W /\ y * W \in Nat
      BY <1>1
    <2>2. CASE y + 1 \in 0 .. H - 1
      BY <1>4, <2>1, <2>2, <1>1
    <2>3. CASE y + 1 = H
      BY <1>1, <2>1, <2>3
    <2> QED BY <1>1, <2>1, <2>2, <2>3
  <1>6. ASSUME NEW x \in 0 .. W - 1, NEW x2 \in 0 .. W - 1,
               NEW y \in 0 .. H - 1, NEW y2 \in 0 .. H - 1, y * W + x = y2 * W + x2
        PROVE  x = x2 /\ y = y2
    BY <1>1, <1>6, DivUnique
  <1>7. \A x \in Columns, y \in Lines : Position(x, y) \in Cells
    BY <1>2, <1>3, <1>4
  <1>8. \A x, x2 \in Columns, y, y2 \in Lines :
          Position(x, y) = Position(x2, y2) => x = x2 /\ y = y2
    BY <1>2, <1>3, <1>6
  <1>9. \A x \in Columns, y \in Lines :
          /\ Position(x, y) + VGA_WIDTH = Position(x, y + 1)
          /\ Position(x, y) + VGA_WIDTH \in Cells <=> y + 1 \in Lines
    BY <1>2, <1>3, <1>5 DEF W
  <1> QED BY <1>7, <1>8, <1>9

--------------------------------------------------------------------------------

(* What is printed, rows of it, and the screen as vga_putchar sees it.     *)
Characters == {Letter, SummaryLetter, Newline, Tab, Blank}
Row == Seq(Characters)
Screen == [cells : [Cells -> Characters], x : Columns, y : 0 .. VGA_HEIGHT,
           stray : BOOLEAN]

(* The screen shows rows, and the cursor is at the end of the last one.    *)
Shown(rows, x, y) ==
  IF y < Len(rows) /\ x < Len(rows[y + 1]) THEN rows[y + 1][x + 1] ELSE Blank
CellsShow(rows, cells) ==
  \A x \in Columns, y \in Lines : cells[Position(x, y)] = Shown(rows, x, y)
Shows(rows, s) ==
  /\ CellsShow(rows, s.cells)
  /\ s.x = Len(rows[Len(rows)]) /\ s.y = Len(rows) - 1

(* A tab moves to the next multiple of TabStop, and a row typed on paper   *)
(* gets as many blanks.                                                    *)
LEMMA TabStops ==
  ASSUME NEW x \in Nat
  PROVE  /\ TabStop - (x % TabStop) \in Nat \ {0}
         /\ ((x + TabStop) \div TabStop) * TabStop = x + (TabStop - (x % TabStop))
  <1> DEFINE T == TabStop
             q == x \div T
             r == x % T
             q1 == (x + T) \div T
             r1 == (x + T) % T
  <1>1. T \in Nat \ {0}
    BY ScreenSize
  <1>2. q \in Nat /\ r \in 0 .. T - 1 /\ x = q * T + r
    BY <1>1
  <1>3. q1 \in Nat /\ r1 \in 0 .. T - 1 /\ x + T = q1 * T + r1
    BY <1>1
  <1> HIDE DEF T, q, r, q1, r1
  <1>4. (q + 1) * T = q * T + T /\ q * T \in Nat
    BY <1>1, <1>2
  <1>5. (q + 1) * T + r = q1 * T + r1
    BY <1>1, <1>2, <1>3, <1>4
  <1>6. q1 = q + 1
    BY <1>1, <1>2, <1>3, <1>5, DivUnique
  <1>7. q1 * T = x + (T - r) /\ T - r \in Nat \ {0}
    BY <1>1, <1>2, <1>4, <1>6
  <1> QED BY <1>7 DEF T, q1, r

(* The row being written, with the character after it.                     *)
Longer(last, ch) ==
  CASE ch = Newline -> last
    [] ch = Tab -> last \o [i \in 1 .. (TabStop - (Len(last) % TabStop)) |-> Blank]
    [] OTHER -> Append(last, ch)

LEMMA LongerRow ==
  ASSUME NEW last \in Row, NEW ch \in Characters
  PROVE  /\ Longer(last, ch) \in Row
         /\ ch # Newline => Len(Longer(last, ch)) = NextColumn(ch, Len(last))
         /\ Len(Longer(last, ch)) >= Len(last)
         /\ \A i \in 1 .. Len(last) : Longer(last, ch)[i] = last[i]
         /\ \A i \in Len(last) + 1 .. Len(Longer(last, ch)) :
              Longer(last, ch)[i] = IF ch = Tab THEN Blank ELSE ch
         /\ ch \notin {Newline, Tab} => Len(Longer(last, ch)) = Len(last) + 1
         /\ ch = Newline => Len(Longer(last, ch)) = Len(last)
  <1>0. last \in Seq(Characters) /\ Len(last) \in Nat /\ Newline # Tab
    BY VgaAssumption DEF Row
  <1>1. CASE ch = Newline
    <2>1. Longer(last, ch) = last
      BY <1>0, <1>1, Zenon DEF Longer
    <2> QED BY <1>0, <1>1, <2>1 DEF Row
  <1>2. CASE ch = Tab
    <2> DEFINE n == TabStop - (Len(last) % TabStop)
               pad == [i \in 1 .. n |-> Blank]
    <2>1. Longer(last, ch) = last \o pad
      BY <1>0, <1>2, Zenon DEF Longer
    <2>2. n \in Nat \ {0} /\ NextColumn(ch, Len(last)) = Len(last) + n
      <3>1. NextColumn(ch, Len(last)) = ((Len(last) + TabStop) \div TabStop) * TabStop
        BY <1>0, <1>2, Zenon DEF NextColumn
      <3> QED BY <1>0, <3>1, TabStops
    <2> HIDE DEF n
    <2>3. pad \in [1 .. n -> Characters]
      BY DEF Characters
    <2>4. pad \in Seq(Characters) /\ Len(pad) = n /\ \A i \in 1 .. n : pad[i] = Blank
      BY <2>2, <2>3, FunctionIsSeq
    <2> HIDE DEF pad
    <2>5. /\ last \o pad \in Seq(Characters) /\ Len(last \o pad) = Len(last) + n
          /\ \A i \in 1 .. Len(last) + n : (last \o pad)[i] =
                IF i <= Len(last) THEN last[i] ELSE pad[i - Len(last)]
      BY <1>0, <2>2, <2>4, ConcatProperties
    <2>6. \A i \in Len(last) + 1 .. Len(last) + n : i - Len(last) \in 1 .. n
      BY <1>0, <2>2
    <2> QED BY <1>0, <1>2, <2>1, <2>2, <2>4, <2>5, <2>6 DEF Row
  <1>3. CASE ch \notin {Newline, Tab}
    <2>1. Longer(last, ch) = Append(last, ch) /\ NextColumn(ch, Len(last)) = Len(last) + 1
      BY <1>3, Zenon DEF Longer, NextColumn
    <2>2. /\ Append(last, ch) \in Seq(Characters)
          /\ Len(Append(last, ch)) = Len(last) + 1
          /\ \A i \in 1 .. Len(last) : Append(last, ch)[i] = last[i]
          /\ Append(last, ch)[Len(last) + 1] = ch
      BY <1>0
    <2> QED BY <1>0, <1>3, <2>1, <2>2 DEF Row
  <1> QED BY <1>1, <1>2, <1>3

LastRow(rows) == rows[Len(rows)]
Full(rows, ch) == ch = Newline \/ Len(Longer(LastRow(rows), ch)) >= VGA_WIDTH
Grown(rows, ch, i) == IF i = Len(rows) THEN Longer(LastRow(rows), ch) ELSE rows[i]

(* Typed, a row at a time.                                                 *)
LEMMA TypedRows ==
  ASSUME NEW rows \in Seq(Row), Len(rows) \in 1 .. VGA_HEIGHT, NEW ch \in Characters
  PROVE  /\ Typed(rows, ch) \in Seq(Row)
         /\ Len(Typed(rows, ch)) \in 1 .. VGA_HEIGHT
         /\ ~Full(rows, ch) =>
              /\ Len(Typed(rows, ch)) = Len(rows)
              /\ \A i \in 1 .. Len(rows) : Typed(rows, ch)[i] = Grown(rows, ch, i)
         /\ Full(rows, ch) /\ Len(rows) < VGA_HEIGHT =>
              /\ Len(Typed(rows, ch)) = Len(rows) + 1
              /\ \A i \in 1 .. Len(rows) : Typed(rows, ch)[i] = Grown(rows, ch, i)
              /\ Typed(rows, ch)[Len(rows) + 1] = <<>>
         /\ Full(rows, ch) /\ Len(rows) = VGA_HEIGHT =>
              /\ Len(Typed(rows, ch)) = VGA_HEIGHT
              /\ \A i \in 1 .. VGA_HEIGHT - 1 : Typed(rows, ch)[i] = Grown(rows, ch, i + 1)
              /\ Typed(rows, ch)[VGA_HEIGHT] = <<>>
  <1> DEFINE L == Len(rows)
             row == Longer(rows[Len(rows)], ch)
             full == ch = Newline \/ Len(row) >= VGA_WIDTH
             all == Front(rows) \o (IF full THEN <<row, <<>>>> ELSE <<row>>)
  <1>1. VGA_HEIGHT \in Nat \ {0, 1} /\ L \in 1 .. VGA_HEIGHT
    BY ScreenSize
  <1>2. Typed(rows, ch) = IF Len(all) > VGA_HEIGHT THEN Tail(all) ELSE all
    BY DEF Typed, Longer
  <1>3. row \in Row /\ <<>> \in Row
    BY <1>1, LongerRow DEF Row
  <1>4. Full(rows, ch) <=> full
    BY DEF Full, LastRow
  <1>5. \A i : Grown(rows, ch, i) = IF i = L THEN row ELSE rows[i]
    BY DEF Grown, LastRow
  <1> HIDE DEF row
  <1>6. /\ Front(rows) \in Seq(Row) /\ Len(Front(rows)) = L - 1
        /\ \A i \in 1 .. L - 1 : Front(rows)[i] = rows[i]
    <2>1. Front(rows) = SubSeq(rows, 1, L - 1)
      BY DEF Front
    <2>2. \A i \in 1 .. L - 1 : rows[i] \in Row
      BY <1>1
    <2> DEFINE k == L - 1
    <2>3. k \in Nat /\ k = L - 1
      BY <1>1
    <2> HIDE DEF k
    <2>4. /\ SubSeq(rows, 1, k) \in Seq(Row) /\ Len(SubSeq(rows, 1, k)) = IF 1 <= k THEN k - 1 + 1 ELSE 0
          /\ \A i \in 1 .. k - 1 + 1 : SubSeq(rows, 1, k)[i] = rows[1 + i - 1]
      BY <2>2, <2>3, SubSeqProperties
    <2> QED BY <1>1, <2>1, <2>3, <2>4
  <1>7. CASE ~full
    <2>1. <<row>> \in Seq(Row) /\ Len(<<row>>) = 1 /\ <<row>>[1] = row
      BY <1>3
    <2>2. /\ all \in Seq(Row) /\ Len(all) = L
          /\ \A i \in 1 .. L : all[i] = IF i <= L - 1 THEN Front(rows)[i] ELSE <<row>>[i - (L - 1)]
      BY <1>1, <1>6, <1>7, <2>1, ConcatProperties
    <2>3. \A i \in 1 .. L : all[i] = IF i = L THEN row ELSE rows[i]
      BY <1>1, <1>6, <2>1, <2>2
    <2> HIDE DEF all, full, L
    <2>4. Typed(rows, ch) = all
      BY <1>1, <1>2, <2>2
    <2> QED BY <1>1, <1>4, <1>5, <1>7, <2>2, <2>3, <2>4 DEF L
  <1>8. CASE full
    <2> DEFINE two == <<row, <<>>>>
    <2>1. two \in Seq(Row) /\ Len(two) = 2 /\ two[1] = row /\ two[2] = <<>>
      BY <1>3
    <2>2. all = Front(rows) \o two
      BY <1>8
    <2> HIDE DEF two, all, full
    <2>3. /\ all \in Seq(Row) /\ Len(all) = L + 1
          /\ \A i \in 1 .. L + 1 : all[i] = IF i <= L - 1 THEN Front(rows)[i] ELSE two[i - (L - 1)]
      <3>1. /\ all \in Seq(Row) /\ Len(all) = Len(Front(rows)) + Len(two)
            /\ \A i \in 1 .. Len(Front(rows)) + Len(two) : all[i] =
                  IF i <= Len(Front(rows)) THEN Front(rows)[i] ELSE two[i - Len(Front(rows))]
        BY <1>6, <2>1, <2>2, ConcatProperties
      <3>2. Len(Front(rows)) + Len(two) = L + 1 /\ Len(Front(rows)) = L - 1
        BY <1>1, <1>6, <2>1
      <3> HIDE DEF L
      <3> QED BY <3>1, <3>2
    <2>4. /\ \A i \in 1 .. L : all[i] = IF i = L THEN row ELSE rows[i]
          /\ all[L + 1] = <<>>
      <3>1. L \in Nat \ {0} /\ L - (L - 1) = 1 /\ (L + 1) - (L - 1) = 2
        BY <1>1
      <3> HIDE DEF L
      <3>2. all[L] = row /\ all[L + 1] = <<>>
        BY <2>1, <2>3, <3>1
      <3>3. \A i \in 1 .. L - 1 : all[i] = rows[i]
        BY <1>6, <2>3, <3>1
      <3> QED BY <3>1, <3>2, <3>3
    <2> HIDE DEF L
    <2>5. CASE L < VGA_HEIGHT
      <3>1. Typed(rows, ch) = all
        BY <1>1, <1>2, <2>3, <2>5
      <3>2. \A i \in 1 .. L : all[i] = Grown(rows, ch, i)
        BY <1>5, <2>4
      <3> QED BY <1>1, <1>4, <1>8, <2>3, <2>4, <2>5, <3>1, <3>2 DEF L
    <2>6. CASE L = VGA_HEIGHT
      <3>1. Typed(rows, ch) = Tail(all)
        BY <1>1, <1>2, <2>3, <2>6
      <3>2. /\ Tail(all) \in Seq(Row) /\ Len(Tail(all)) = L
            /\ \A i \in 1 .. L : Tail(all)[i] = all[i + 1]
        BY <1>1, <2>3, HeadTailProperties
      <3> QED BY <1>1, <1>4, <1>5, <1>8, <2>3, <2>4, <2>6, <3>1, <3>2 DEF L
    <2> QED BY <1>1, <2>5, <2>6
  <1> QED BY <1>7, <1>8

--------------------------------------------------------------------------------

(* The two parts of vga_putchar: the cell, and the cursor.                 *)
Written(s, ch) ==
  [s EXCEPT !.cells = [i \in Cells |-> IF i = Position(s.x, s.y) THEN ch ELSE @[i]]]
NextLine(s) ==
  IF s.y + 1 < VGA_HEIGHT THEN [s EXCEPT !.x = 0, !.y = s.y + 1]
  ELSE [s EXCEPT !.x = 0, !.y = VGA_HEIGHT - 1, !.cells = Scrolled(s.cells)]
Moved(s, ch) ==
  IF NextColumn(ch, s.x) < VGA_WIDTH THEN [s EXCEPT !.x = NextColumn(ch, s.x)] ELSE NextLine(s)
Put(s, ch) == IF ch \in {Newline, Tab} THEN s ELSE Written(s, ch)

LEMMA ScrolledCells ==
  ASSUME NEW cells \in [Cells -> Characters]
  PROVE  Scrolled(cells) \in [Cells -> Characters]
  BY DEF Scrolled, Characters

LEMMA Columnwise ==
  ASSUME NEW x \in Columns, NEW ch \in Characters
  PROVE  /\ NextColumn(ch, x) \in Nat
         /\ ch = Newline => NextColumn(ch, x) = VGA_WIDTH
  <1>1. VGA_WIDTH \in Nat /\ x \in Nat /\ Newline # Tab
    BY ScreenSize, VgaAssumption DEF Columns
  <1>2. CASE ch = Newline
    <2>1. NextColumn(ch, x) = VGA_WIDTH
      BY <1>1, <1>2, Zenon DEF NextColumn
    <2> QED BY <1>1, <2>1
  <1>3. CASE ch = Tab
    <2>1. NextColumn(ch, x) = ((x + TabStop) \div TabStop) * TabStop
      BY <1>1, <1>3, Zenon DEF NextColumn
    <2>2. TabStop - (x % TabStop) \in Nat /\ NextColumn(ch, x) = x + (TabStop - (x % TabStop))
      BY <1>1, <2>1, TabStops
    <2> QED BY <1>1, <1>3, <2>2
  <1>4. CASE ch \notin {Newline, Tab}
    <2>1. NextColumn(ch, x) = x + 1
      BY <1>4, Zenon DEF NextColumn
    <2> QED BY <1>1, <1>4, <2>1
  <1> QED BY <1>2, <1>3, <1>4


LEMMA MovedTyped ==
  ASSUME NEW s \in Screen, NEW ch \in Characters
  PROVE  /\ NextLine(s) \in Screen /\ NextLine(s).y \in Lines /\ NextLine(s).stray = s.stray
         /\ s.y \in Lines =>
              Moved(s, ch) \in Screen /\ Moved(s, ch).y \in Lines /\ Moved(s, ch).stray = s.stray
  <1>1. VGA_WIDTH \in Nat \ {0} /\ VGA_HEIGHT \in Nat \ {0, 1}
    BY ScreenSize
  <1>2. NextColumn(ch, s.x) \in Nat
    BY Columnwise DEF Screen
  <1>3. Scrolled(s.cells) \in [Cells -> Characters]
    BY ScrolledCells DEF Screen
  <1>4. NextLine(s) \in Screen /\ NextLine(s).y \in Lines /\ NextLine(s).stray = s.stray
    <2>1. 0 \in Columns /\ VGA_HEIGHT - 1 \in Lines /\ Lines \subseteq 0 .. VGA_HEIGHT
      BY <1>1 DEF Columns, Lines
    <2>2. CASE s.y + 1 < VGA_HEIGHT
      <3>1. NextLine(s) = [s EXCEPT !.x = 0, !.y = s.y + 1] /\ s.y + 1 \in Lines
        BY <1>1, <2>2 DEF NextLine, Lines, Screen
      <3> QED BY <2>1, <3>1 DEF Screen
    <2>3. CASE ~(s.y + 1 < VGA_HEIGHT)
      <3>1. NextLine(s) = [s EXCEPT !.x = 0, !.y = VGA_HEIGHT - 1, !.cells = Scrolled(s.cells)]
        BY <2>3 DEF NextLine
      <3> QED BY <1>3, <2>1, <3>1 DEF Screen
    <2> QED BY <2>2, <2>3
  <1>5. CASE NextColumn(ch, s.x) < VGA_WIDTH
    <2>1. Moved(s, ch) = [s EXCEPT !.x = NextColumn(ch, s.x)]
      BY <1>5 DEF Moved
    <2>2. NextColumn(ch, s.x) \in Columns
      BY <1>1, <1>2, <1>5 DEF Columns
    <2> QED BY <1>4, <2>1, <2>2 DEF Screen
  <1>6. CASE ~(NextColumn(ch, s.x) < VGA_WIDTH)
    BY <1>4, <1>6 DEF Moved
  <1> QED BY <1>4, <1>5, <1>6

LEMMA PutTyped ==
  ASSUME NEW s \in Screen, s.y \in Lines, NEW ch \in Characters
  PROVE  /\ Put(s, ch) \in Screen
         /\ Put(s, ch).x = s.x /\ Put(s, ch).y = s.y /\ Put(s, ch).stray = s.stray
  BY DEF Put, Written, Screen

(* vga_putchar is its two parts; on the screen it writes on the screen.    *)
LEMMA PutcharParts ==
  ASSUME NEW s \in Screen, s.y \in Lines, NEW ch \in Characters
  PROVE  /\ vga_putchar(s, ch) = Moved(Put(s, ch), ch)
         /\ vga_putchar(s, ch) \in Screen /\ vga_putchar(s, ch).y \in Lines
         /\ vga_putchar(s, ch).stray = s.stray
  <1>1. vga_putchar(s, ch) = Moved(Put(s, ch), ch)
    <2>1. Position(s.x, s.y) \in Cells
      BY Positions DEF Screen
    <2> DEFINE cells2 == [i \in Cells |-> IF i = Position(s.x, s.y) THEN ch ELSE s.cells[i]]
    <2>2. CASE ch \in {Newline, Tab}
      BY <2>2 DEF vga_putchar, Moved, Put, NextLine, Screen
    <2>3. CASE ch \notin {Newline, Tab}
      <3> DEFINE w == [s EXCEPT !.cells = cells2]
      <3>1. [s EXCEPT !.cells = cells2, !.stray = @ \/ Position(s.x, s.y) \notin Cells] = w
        BY <2>1 DEF Screen
      <3>2. Put(s, ch) = w
        BY <2>3 DEF Put, Written
      <3>3. w.x = s.x /\ w.y = s.y /\ w.cells = cells2
        BY DEF Screen
      <3>4. vga_putchar(s, ch) =
              IF NextColumn(ch, s.x) < VGA_WIDTH THEN [w EXCEPT !.x = NextColumn(ch, s.x)]
              ELSE IF s.y + 1 < VGA_HEIGHT THEN [w EXCEPT !.x = 0, !.y = @ + 1]
              ELSE [w EXCEPT !.x = 0, !.y = VGA_HEIGHT - 1, !.cells = Scrolled(@)]
        BY <2>3, <3>1 DEF vga_putchar
      <3> HIDE DEF w
      <3> QED BY <3>2, <3>3, <3>4 DEF Moved, NextLine
    <2> QED BY <2>2, <2>3
  <1>2. Put(s, ch) \in Screen /\ Put(s, ch).y \in Lines /\ Put(s, ch).stray = s.stray
    BY PutTyped
  <1> QED BY <1>1, <1>2, MovedTyped

(* A newline brings a cursor that is below the screen back to it.          *)
LEMMA NewlineReturns ==
  ASSUME NEW s \in Screen
  PROVE  /\ vga_putchar(s, Newline) \in Screen
         /\ vga_putchar(s, Newline).y \in Lines
         /\ vga_putchar(s, Newline).stray = s.stray
  <1>1. NextColumn(Newline, s.x) = VGA_WIDTH /\ VGA_WIDTH \in Nat
    BY Columnwise, ScreenSize DEF Screen, Characters
  <1>2. vga_putchar(s, Newline) = NextLine(s)
    BY <1>1 DEF vga_putchar, NextLine, Screen
  <1> QED BY <1>2, MovedTyped DEF Characters

--------------------------------------------------------------------------------

(* The screen shows rows with ch after the last one, not yet wrapped.      *)
GrownShow(rows, ch, cells) ==
  \A x \in Columns, y \in Lines :
    cells[Position(x, y)] =
      IF y < Len(rows) /\ x < Len(Grown(rows, ch, y + 1)) THEN Grown(rows, ch, y + 1)[x + 1]
      ELSE Blank

LEMMA PutShows ==
  ASSUME NEW rows \in Seq(Row), Len(rows) \in 1 .. VGA_HEIGHT, NEW s \in Screen, Shows(rows, s),
         NEW ch \in Characters
  PROVE  GrownShow(rows, ch, Put(s, ch).cells)
  <1> DEFINE last == LastRow(rows)
             L == Len(rows)
             put == Put(s, ch).cells
  <1>1. /\ VGA_HEIGHT \in Nat \ {0, 1} /\ VGA_WIDTH \in Nat \ {0}
        /\ L \in 1 .. VGA_HEIGHT /\ last \in Row /\ Len(last) \in Nat
        /\ s.x = Len(last) /\ s.y = L - 1 /\ s.x \in Columns /\ s.y \in Lines
    <2>1. VGA_HEIGHT \in Nat \ {0, 1} /\ VGA_WIDTH \in Nat \ {0}
      BY ScreenSize
    <2>2. last \in Row /\ Len(last) \in Nat
      BY <2>1 DEF LastRow, Row
    <2>3. s.x = Len(last) /\ s.y = L - 1 /\ s.x \in Columns
      BY DEF LastRow, Shows, Screen
    <2>4. s.y \in Lines
      BY <2>1, <2>3 DEF Lines
    <2> QED BY <2>1, <2>2, <2>3, <2>4
  <1>2. ASSUME NEW x \in Columns, NEW y \in Lines
        PROVE  put[Position(x, y)] =
                 IF ch \notin {Newline, Tab} /\ x = s.x /\ y = s.y THEN ch
                 ELSE Shown(rows, x, y)
    <2>1. s.cells[Position(x, y)] = Shown(rows, x, y) /\ Position(x, y) \in Cells
      BY Positions DEF Shows, CellsShow
    <2>2. Position(x, y) = Position(s.x, s.y) <=> x = s.x /\ y = s.y
      BY <1>1, Positions
    <2>3. CASE ch \in {Newline, Tab}
      BY <2>1, <2>3 DEF Put
    <2>4. CASE ch \notin {Newline, Tab}
      <3>1. put = [i \in Cells |-> IF i = Position(s.x, s.y) THEN ch ELSE s.cells[i]]
        BY <2>4 DEF Put, Written, Screen
      <3> HIDE DEF put
      <3> QED BY <2>1, <2>2, <2>4, <3>1
    <2> QED BY <2>3, <2>4
  <1>3. /\ \A i \in 1 .. Len(last) : Longer(last, ch)[i] = last[i]
        /\ Len(Longer(last, ch)) \in Nat /\ Len(Longer(last, ch)) >= Len(last)
        /\ \A i \in Len(last) + 1 .. Len(Longer(last, ch)) :
              Longer(last, ch)[i] = IF ch = Tab THEN Blank ELSE ch
        /\ ch \notin {Newline, Tab} => Len(Longer(last, ch)) = Len(last) + 1
        /\ ch = Newline => Len(Longer(last, ch)) = Len(last)
    <2> HIDE DEF last
    <2> DEFINE longer == Longer(last, ch)
    <2>1. last \in Row
      BY <1>1
    <2>2. /\ longer \in Row
          /\ Len(longer) >= Len(last)
          /\ \A i \in 1 .. Len(last) : longer[i] = last[i]
          /\ \A i \in Len(last) + 1 .. Len(longer) : longer[i] = IF ch = Tab THEN Blank ELSE ch
          /\ ch \notin {Newline, Tab} => Len(longer) = Len(last) + 1
          /\ ch = Newline => Len(longer) = Len(last)
      BY <2>1, LongerRow, Zenon
    <2> HIDE DEF longer
    <2>3. Len(longer) \in Nat
      BY <2>2 DEF Row
    <2> QED BY <2>2, <2>3 DEF longer
  <1> HIDE DEF put
  <1>4. ASSUME NEW x \in Columns, NEW y \in Lines
        PROVE  put[Position(x, y)] =
                 IF y < L /\ x < Len(Grown(rows, ch, y + 1)) THEN Grown(rows, ch, y + 1)[x + 1]
                 ELSE Blank
    <2>1. x \in Nat /\ y \in Nat
      BY <1>1 DEF Columns, Lines
    <2>2. CASE y # s.y
      <3>1. y + 1 # L
        BY <1>1, <2>1, <2>2
      <3>2. Grown(rows, ch, y + 1) = rows[y + 1]
        BY <3>1 DEF Grown
      <3> QED BY <1>2, <2>2, <3>2 DEF Shown
    <2>3. CASE y = s.y
      <3>1. y + 1 = L /\ y < L
        BY <1>1, <2>3
      <3>2. Grown(rows, ch, y + 1) = Longer(last, ch) /\ rows[y + 1] = last
        BY <3>1 DEF Grown, LastRow
      <3>3. put[Position(x, y)] =
              IF ch \notin {Newline, Tab} /\ x = Len(last) THEN ch
              ELSE IF x < Len(last) THEN last[x + 1] ELSE Blank
        BY <1>1, <1>2, <2>3, <3>1, <3>2 DEF Shown
      <3> HIDE DEF last
      <3>4. CASE x < Len(last)
        <4>1. x + 1 \in 1 .. Len(last) /\ x < Len(Longer(last, ch))
          BY <1>1, <1>3, <2>1, <3>4
        <4> QED BY <1>1, <1>3, <3>1, <3>2, <3>3, <3>4, <4>1
      <3>5. CASE x >= Len(last) /\ x < Len(Longer(last, ch))
        <4>1. x + 1 \in Len(last) + 1 .. Len(Longer(last, ch))
          BY <1>1, <1>3, <2>1, <3>5
        <4>2. ch # Newline
          BY <1>1, <1>3, <2>1, <3>5
        <4>3. ch # Tab => x = Len(last)
          BY <1>1, <1>3, <2>1, <3>5, <4>2
        <4> QED BY <1>1, <1>3, <2>1, <3>1, <3>2, <3>3, <3>5, <4>1, <4>2, <4>3
      <3>6. CASE x >= Len(Longer(last, ch))
        <4>1. x >= Len(last) /\ (ch \notin {Newline, Tab} => x # Len(last))
          BY <1>1, <1>3, <2>1, <3>6
        <4> QED BY <1>1, <1>3, <2>1, <3>2, <3>3, <3>6, <4>1
      <3> QED BY <1>1, <1>3, <2>1, <3>4, <3>5, <3>6
    <2> QED BY <2>2, <2>3
  <1> QED BY <1>4 DEF GrownShow, put

LEMMA MovedShows ==
  ASSUME NEW rows \in Seq(Row), Len(rows) \in 1 .. VGA_HEIGHT, NEW s \in Screen,
         NEW ch \in Characters, GrownShow(rows, ch, s.cells),
         s.x = Len(LastRow(rows)), s.y = Len(rows) - 1
  PROVE  Shows(Typed(rows, ch), Moved(s, ch))
  <1> DEFINE L == Len(rows)
             next == NextColumn(ch, s.x)
             text == Typed(rows, ch)
             longer == Longer(LastRow(rows), ch)
  <1>1. /\ VGA_HEIGHT \in Nat \ {0, 1} /\ VGA_WIDTH \in Nat \ {0} /\ L \in 1 .. VGA_HEIGHT
        /\ s.x \in Columns /\ next \in Nat /\ s.y = L - 1
        /\ text \in Seq(Row) /\ Len(<<>>) = 0
    BY ScreenSize, Columnwise, TypedRows DEF Screen
  <1>2. Full(rows, ch) <=> ~(next < VGA_WIDTH)
    <2>1. LastRow(rows) \in Row
      BY <1>1 DEF LastRow
    <2>2. ch # Newline => Len(longer) = next
      BY <2>1, LongerRow
    <2>3. ch = Newline => next = VGA_WIDTH
      BY <1>1, Columnwise
    <2> HIDE DEF next
    <2> QED BY <1>1, <2>2, <2>3 DEF Full
  <1>3. CASE ~Full(rows, ch)
    <2>1. Moved(s, ch) = [s EXCEPT !.x = next]
      BY <1>2, <1>3 DEF Moved
    <2>2. Moved(s, ch).cells = s.cells /\ Moved(s, ch).x = next /\ Moved(s, ch).y = L - 1
      BY <1>1, <2>1 DEF Screen
    <2>3. Len(text) = L /\ \A i \in 1 .. L : text[i] = Grown(rows, ch, i)
      BY <1>3, TypedRows
    <2>4. Len(text[Len(text)]) = next
      <3>1. ch # Newline /\ LastRow(rows) \in Row
        BY <1>1, <1>3 DEF Full, LastRow
      <3>2. text[Len(text)] = longer
        BY <1>1, <2>3 DEF Grown
      <3> QED BY <3>1, <3>2, LongerRow
    <2> HIDE DEF text, next
    <2>5. CellsShow(text, s.cells)
      <3> SUFFICES ASSUME NEW x \in Columns, NEW y \in Lines
                   PROVE  s.cells[Position(x, y)] = Shown(text, x, y)
        BY DEF CellsShow
      <3>1. y \in Nat /\ (y < L => y + 1 \in 1 .. L)
        BY <1>1 DEF Lines
      <3> QED BY <2>3, <3>1 DEF GrownShow, Shown
    <2> QED BY <2>2, <2>3, <2>4, <2>5 DEF Shows, text
  <1>4. CASE Full(rows, ch) /\ L < VGA_HEIGHT
    <2>1. Moved(s, ch) = [s EXCEPT !.x = 0, !.y = s.y + 1]
      BY <1>1, <1>2, <1>4 DEF Moved, NextLine
    <2>2. Moved(s, ch).cells = s.cells /\ Moved(s, ch).x = 0 /\ Moved(s, ch).y = L
      BY <1>1, <2>1 DEF Screen
    <2>3. /\ Len(text) = L + 1 /\ \A i \in 1 .. L : text[i] = Grown(rows, ch, i)
          /\ text[L + 1] = <<>>
      BY <1>4, TypedRows
    <2> HIDE DEF text, next
    <2>4. CellsShow(text, s.cells)
      <3> SUFFICES ASSUME NEW x \in Columns, NEW y \in Lines
                   PROVE  s.cells[Position(x, y)] = Shown(text, x, y)
        BY DEF CellsShow
      <3>1. x \in Nat /\ y \in Nat
        BY <1>1 DEF Lines, Columns
      <3>2. CASE y < L
        <4>1. text[y + 1] = Grown(rows, ch, y + 1) /\ y < Len(text)
          BY <1>1, <2>3, <3>1, <3>2
        <4> QED BY <3>2, <4>1 DEF GrownShow, Shown
      <3>3. CASE y >= L
        <4>1. s.cells[Position(x, y)] = Blank
          BY <1>1, <3>1, <3>3 DEF GrownShow
        <4>2. Shown(text, x, y) = Blank
          BY <1>1, <2>3, <3>1, <3>3 DEF Shown
        <4> QED BY <4>1, <4>2
      <3> QED BY <1>1, <3>1, <3>2, <3>3
    <2> QED BY <1>1, <2>2, <2>3, <2>4 DEF Shows, text
  <1>5. CASE Full(rows, ch) /\ L = VGA_HEIGHT
    <2>1. Moved(s, ch) = [s EXCEPT !.x = 0, !.y = VGA_HEIGHT - 1, !.cells = Scrolled(s.cells)]
      BY <1>1, <1>2, <1>5 DEF Moved, NextLine
    <2>2. /\ Moved(s, ch).cells = Scrolled(s.cells)
          /\ Moved(s, ch).x = 0 /\ Moved(s, ch).y = VGA_HEIGHT - 1
      BY <1>1, <2>1 DEF Screen
    <2>3. /\ Len(text) = VGA_HEIGHT
          /\ \A i \in 1 .. VGA_HEIGHT - 1 : text[i] = Grown(rows, ch, i + 1)
          /\ text[VGA_HEIGHT] = <<>>
      BY <1>5, TypedRows
    <2> HIDE DEF text, next
    <2>4. CellsShow(text, Scrolled(s.cells))
      <3> SUFFICES ASSUME NEW x \in Columns, NEW y \in Lines
                   PROVE  Scrolled(s.cells)[Position(x, y)] = Shown(text, x, y)
        BY DEF CellsShow
      <3>1. x \in Nat /\ y \in 0 .. VGA_HEIGHT - 1
        BY <1>1 DEF Lines, Columns
      <3>2. Scrolled(s.cells)[Position(x, y)] =
              IF y + 1 \in Lines THEN s.cells[Position(x, y + 1)] ELSE Blank
        BY Positions DEF Scrolled
      <3>3. CASE y + 1 \in Lines
        <4>1. y + 1 < L /\ y < Len(text) /\ y + 1 \in 1 .. VGA_HEIGHT - 1
          BY <1>1, <1>5, <2>3, <3>1, <3>3 DEF Lines
        <4>2. text[y + 1] = Grown(rows, ch, (y + 1) + 1)
          BY <2>3, <4>1
        <4> QED BY <3>2, <3>3, <4>1, <4>2 DEF GrownShow, Shown
      <3>4. CASE y + 1 \notin Lines
        <4>1. y + 1 = VGA_HEIGHT
          BY <1>1, <3>1, <3>4 DEF Lines
        <4>2. Shown(text, x, y) = Blank
          BY <1>1, <2>3, <3>1, <4>1 DEF Shown
        <4> QED BY <3>2, <3>4, <4>2
      <3> QED BY <3>3, <3>4
    <2> QED BY <1>1, <2>2, <2>3, <2>4 DEF Shows, text
  <1> QED BY <1>1, <1>3, <1>4, <1>5

(* vga_putchar on the screen is typing on the paper.                       *)
LEMMA PutcharShows ==
  ASSUME NEW rows \in Seq(Row), Len(rows) \in 1 .. VGA_HEIGHT, NEW s \in Screen, s.y \in Lines,
         Shows(rows, s), NEW ch \in Characters
  PROVE  Shows(Typed(rows, ch), vga_putchar(s, ch))
  <1>1. vga_putchar(s, ch) = Moved(Put(s, ch), ch)
    BY PutcharParts
  <1>2. Put(s, ch) \in Screen /\ Put(s, ch).x = s.x /\ Put(s, ch).y = s.y
    BY PutTyped
  <1>3. s.x = Len(LastRow(rows)) /\ s.y = Len(rows) - 1
    BY DEF Shows, LastRow
  <1> QED BY <1>1, <1>2, <1>3, PutShows, MovedShows

--------------------------------------------------------------------------------

(* What the loops over a string come to, for the strings that are printed  *)
(* in one step: one character, and the summary line.                       *)
LEMMA PrintThree ==
  ASSUME NEW s, NEW a, NEW b, NEW e
  PROVE  vga_print(s, <<a, b, e>>) = vga_putchar(vga_putchar(vga_putchar(s, a), b), e)
  <1> DEFINE str == <<a, b, e>>
             s1 == vga_putchar(s, a)
             s2 == vga_putchar(s1, b)
             s3 == vga_putchar(s2, e)
             Step(f) == [i \in 0 .. Len(str) |-> IF i = 0 THEN s ELSE vga_putchar(f[i - 1], str[i])]
             f0 == [i \in 0 .. 3 |-> IF i = 0 THEN s ELSE IF i = 1 THEN s1
                                      ELSE IF i = 2 THEN s2 ELSE s3]
             after == CHOOSE f : f = Step(f)
  <1>1. vga_print(s, str) = after[Len(str)]
    BY DEF vga_print
  <1>2. Len(str) = 3 /\ str[1] = a /\ str[2] = b /\ str[3] = e
    OBVIOUS
  <1> HIDE DEF str
  <1>3. f0 = Step(f0)
    <2>1. \A i \in 0 .. 3 : f0[i] = IF i = 0 THEN s ELSE vga_putchar(f0[i - 1], str[i])
      BY <1>2
    <2> QED BY <1>2, <2>1
  <1>4. after = Step(after)
    <2> HIDE DEF f0, Step
    <2> QED BY <1>3
  <1> HIDE DEF after
  <1>5. after[0] = s /\ after[1] = s1 /\ after[2] = s2 /\ after[3] = s3
    <2>1. \A i \in 0 .. 3 : after[i] = IF i = 0 THEN s ELSE vga_putchar(after[i - 1], str[i])
      BY <1>2, <1>4
    <2> HIDE DEF Step
    <2>2. after[0] = s
      BY <2>1
    <2>3. after[1] = s1
      BY <1>2, <2>1, <2>2
    <2>4. after[2] = s2
      BY <1>2, <2>1, <2>3
    <2> QED BY <1>2, <2>1, <2>2, <2>3, <2>4
  <1> QED BY <1>1, <1>2, <1>5 DEF str

LEMMA TypedThree ==
  ASSUME NEW s, NEW a, NEW b, NEW e
  PROVE  TypedAll(s, <<a, b, e>>) = Typed(Typed(Typed(s, a), b), e)
  <1> DEFINE str == <<a, b, e>>
             s1 == Typed(s, a)
             s2 == Typed(s1, b)
             s3 == Typed(s2, e)
             Step(f) == [i \in 0 .. Len(str) |-> IF i = 0 THEN s ELSE Typed(f[i - 1], str[i])]
             f0 == [i \in 0 .. 3 |-> IF i = 0 THEN s ELSE IF i = 1 THEN s1
                                      ELSE IF i = 2 THEN s2 ELSE s3]
             after == CHOOSE f : f = Step(f)
  <1>1. TypedAll(s, str) = after[Len(str)]
    BY DEF TypedAll
  <1>2. Len(str) = 3 /\ str[1] = a /\ str[2] = b /\ str[3] = e
    OBVIOUS
  <1> HIDE DEF str
  <1>3. f0 = Step(f0)
    <2>1. \A i \in 0 .. 3 : f0[i] = IF i = 0 THEN s ELSE Typed(f0[i - 1], str[i])
      BY <1>2
    <2> QED BY <1>2, <2>1
  <1>4. after = Step(after)
    <2> HIDE DEF f0, Step
    <2> QED BY <1>3
  <1> HIDE DEF after
  <1>5. after[0] = s /\ after[1] = s1 /\ after[2] = s2 /\ after[3] = s3
    <2>1. \A i \in 0 .. 3 : after[i] = IF i = 0 THEN s ELSE Typed(after[i - 1], str[i])
      BY <1>2, <1>4
    <2> HIDE DEF Step
    <2>2. after[0] = s
      BY <2>1
    <2>3. after[1] = s1
      BY <1>2, <2>1, <2>2
    <2>4. after[2] = s2
      BY <1>2, <2>1, <2>3
    <2> QED BY <1>2, <2>1, <2>2, <2>3, <2>4
  <1> QED BY <1>1, <1>2, <1>5 DEF str

LEMMA TypedOne ==
  ASSUME NEW s, NEW a
  PROVE  TypedAll(s, <<a>>) = Typed(s, a)
  <1> DEFINE str == <<a>>
             s1 == Typed(s, a)
             Step(f) == [i \in 0 .. Len(str) |-> IF i = 0 THEN s ELSE Typed(f[i - 1], str[i])]
             f0 == [i \in 0 .. 1 |-> IF i = 0 THEN s ELSE s1]
             after == CHOOSE f : f = Step(f)
  <1>1. TypedAll(s, str) = after[Len(str)]
    BY DEF TypedAll
  <1>2. Len(str) = 1 /\ str[1] = a
    OBVIOUS
  <1> HIDE DEF str
  <1>3. f0 = Step(f0)
    <2>1. \A i \in 0 .. 1 : f0[i] = IF i = 0 THEN s ELSE Typed(f0[i - 1], str[i])
      BY <1>2
    <2> QED BY <1>2, <2>1
  <1>4. after = Step(after)
    <2> HIDE DEF f0, Step
    <2> QED BY <1>3
  <1> HIDE DEF after
  <1>5. \A i \in 0 .. 1 : after[i] = IF i = 0 THEN s ELSE Typed(after[i - 1], str[i])
    BY <1>2, <1>4
  <1> HIDE DEF Step
  <1>6. after[0] = s
    BY <1>5
  <1> QED BY <1>1, <1>2, <1>5, <1>6 DEF str

--------------------------------------------------------------------------------

Current == [cells |-> vga_buffer, x |-> cursor_x, y |-> cursor_y, stray |-> stray]

Prints == [pc : {"none", "fetch", "write", "column", "line", "scroll", "bottom",
                 "clear", "set", "set line"},
           ch : Characters, x : Columns, y : Lines]

(* The state of the driver.  The cursor is below the screen only while its *)
(* writer is about to scroll; what a call remembers of it never is.        *)
ScreenInv ==
  /\ Current \in Screen /\ stray = FALSE /\ tracked \in BOOLEAN
  /\ paper \in Seq(Row) /\ Len(paper) \in 1 .. VGA_HEIGHT
  /\ printing \in [Writers -> Prints]
  /\ cursor_y \in Lines \/ \E w \in Writers : printing[w].pc \in {"scroll", "bottom"}

(* One process prints: with more, a write may go past the screen.          *)
OneWriter == (\A v, w \in Writers : v = w) /\ Writers # {} /\ Readers = Writers

LEMMA CurrentIs ==
  /\ Current \in Screen <=> /\ vga_buffer \in [Cells -> Characters] /\ cursor_x \in Columns
                            /\ cursor_y \in 0 .. VGA_HEIGHT /\ stray \in BOOLEAN
  /\ Current.cells = vga_buffer /\ Current.x = cursor_x /\ Current.y = cursor_y
  /\ Current.stray = stray
  BY DEF Current, Screen

LEMMA BlankCells == BlankScreen \in [Cells -> Characters]
  BY DEF BlankScreen, Characters

LEMMA ScreenInit == VgaInit => ScreenInv
  <1> SUFFICES ASSUME VgaInit PROVE ScreenInv
    OBVIOUS
  <1> USE DEF VgaInit
  <1>1. /\ 0 \in Columns /\ 0 \in Lines /\ 0 \in 0 .. VGA_HEIGHT /\ 1 \in 1 .. VGA_HEIGHT
    BY ScreenSize DEF Columns, Lines
  <1>2. Current \in Screen
    BY <1>1, CurrentIs, BlankCells
  <1>3. paper \in Seq(Row) /\ Len(paper) = 1
    BY DEF Row
  <1>4. printing \in [Writers -> Prints]
    BY <1>1 DEF NoPrint, Prints, Characters
  <1> QED BY <1>1, <1>2, <1>3, <1>4 DEF ScreenInv

(* The text keeps its type.                                                *)
LEMMA EmptyPaper == << <<>> >> \in Seq(Row) /\ Len(<< <<>> >>) \in 1 .. VGA_HEIGHT
  BY ScreenSize DEF Row

LEMMA TypedTyped ==
  ASSUME NEW rows \in Seq(Row), Len(rows) \in 1 .. VGA_HEIGHT, NEW ch \in Characters
  PROVE  /\ TypedAll(rows, <<ch>>) \in Seq(Row)
         /\ Len(TypedAll(rows, <<ch>>)) \in 1 .. VGA_HEIGHT
         /\ TypedAll(rows, Summary) \in Seq(Row)
         /\ Len(TypedAll(rows, Summary)) \in 1 .. VGA_HEIGHT
  <1>1. Newline \in Characters /\ SummaryLetter \in Characters
    BY DEF Characters
  <1>2. \A r \in Seq(Row), k \in Characters :
          Len(r) \in 1 .. VGA_HEIGHT =>
            Typed(r, k) \in Seq(Row) /\ Len(Typed(r, k)) \in 1 .. VGA_HEIGHT
    BY TypedRows
  <1>3. TypedAll(rows, <<ch>>) = Typed(rows, ch)
    BY TypedOne
  <1>4. TypedAll(rows, Summary)
          = Typed(Typed(Typed(rows, Newline), SummaryLetter), Newline)
    BY TypedThree DEF Summary
  <1> QED BY <1>1, <1>2, <1>3, <1>4

LEMMA TrackTyped ==
  ASSUME ScreenInv, NEW others, NEW str, Track(str, others),
         str = Summary \/ \E ch \in Characters : str = <<ch>>
  PROVE  tracked' \in BOOLEAN /\ paper' \in Seq(Row) /\ Len(paper') \in 1 .. VGA_HEIGHT
  <1>1. tracked' = (tracked /\ (KeepTorn \/ \A w \in others : Quiet(w)))
        /\ paper' = IF tracked' THEN TypedAll(paper, str) ELSE << <<>> >>
    BY DEF Track
  <1>2. tracked' \in BOOLEAN
    BY <1>1, Zenon
  <1>3. TypedAll(paper, str) \in Seq(Row) /\ Len(TypedAll(paper, str)) \in 1 .. VGA_HEIGHT
    BY TypedTyped DEF ScreenInv, Characters
  <1> QED BY <1>1, <1>2, <1>3, EmptyPaper

(* Putting what a step does to the screen together with the rest of the    *)
(* invariant.                                                              *)
LEMMA ScreenStep ==
  ASSUME vga_buffer' \in [Cells -> Characters], cursor_x' \in Columns,
         \/ cursor_y' \in Lines
         \/ /\ cursor_y' \in 0 .. VGA_HEIGHT
            /\ \E w \in Writers : printing'[w].pc \in {"scroll", "bottom"},
         stray' = FALSE, tracked' \in BOOLEAN,
         paper' \in Seq(Row), Len(paper') \in 1 .. VGA_HEIGHT,
         printing' \in [Writers -> Prints]
  PROVE  ScreenInv'
  <1>1. Lines \subseteq 0 .. VGA_HEIGHT
    BY ScreenSize DEF Lines
  <1>2. Current' \in Screen
    BY <1>1 DEF Current, Screen
  <1> QED BY <1>2 DEF ScreenInv

LEMMA ScreenIs ==
  ASSUME ScreenInv
  PROVE  /\ vga_buffer \in [Cells -> Characters] /\ cursor_x \in Columns
         /\ cursor_y \in 0 .. VGA_HEIGHT /\ stray = FALSE
         /\ cursor_y \in Lines \/ \E w \in Writers : printing[w].pc \in {"scroll", "bottom"}
         /\ tracked \in BOOLEAN /\ paper \in Seq(Row) /\ Len(paper) \in 1 .. VGA_HEIGHT
         /\ printing \in [Writers -> Prints]
  BY CurrentIs DEF ScreenInv

LEMMA SummaryStep == ASSUME ScreenInv, PrintSummary PROVE ScreenInv'
  <1> DEFINE s1 == vga_putchar(Current, Newline)
             s2 == vga_putchar(s1, SummaryLetter)
             s3 == vga_putchar(s2, Newline)
  <1>1. vga_print(Current, Summary) = s3
    BY PrintThree DEF Summary
  <1>2. s1 \in Screen /\ s1.y \in Lines /\ s1.stray = stray
    BY NewlineReturns, CurrentIs DEF ScreenInv
  <1> HIDE DEF s1
  <1>3. s2 \in Screen /\ s2.y \in Lines /\ s2.stray = s1.stray
    BY <1>2, PutcharParts DEF Characters
  <1> HIDE DEF s2
  <1>4. s3 \in Screen /\ s3.y \in Lines /\ s3.stray = s2.stray
    BY <1>3, PutcharParts DEF Characters
  <1>5. /\ Track(Summary, Writers) /\ Show(s3.cells)
        /\ cursor_x' = s3.x /\ cursor_y' = s3.y /\ stray' = s3.stray /\ UNCHANGED printing
    BY <1>1 DEF PrintSummary, Current
  <1> HIDE DEF s3
  <1>6. tracked' \in BOOLEAN /\ paper' \in Seq(Row) /\ Len(paper') \in 1 .. VGA_HEIGHT
    BY <1>5, TrackTyped
  <1>7. vga_buffer' \in [Cells -> Characters]
    BY <1>4, <1>5, BlankCells DEF Show, Screen
  <1>8. cursor_x' \in Columns /\ cursor_y' \in Lines /\ stray' = FALSE
    BY <1>2, <1>3, <1>4, <1>5, ScreenIs DEF Screen
  <1>9. printing' \in [Writers -> Prints]
    BY <1>5, ScreenIs
  <1> QED BY <1>6, <1>7, <1>8, <1>9, ScreenStep

(* The shell's answer begins a call.                                       *)
LEMMA AnswerIs ==
  ASSUME NEW w \in Writers, Answer(w)
  PROVE  \E call \in Prints :
           /\ call.pc \in {"fetch", "clear", "set"}
           /\ printing[w] = NoPrint
           /\ printing' = [printing EXCEPT ![w] = call]
           /\ UNCHANGED <<vga_buffer, cursor_x, cursor_y, stray, paper, tracked>>
  <1>1. 0 \in Columns /\ 0 \in Lines
    BY ScreenSize DEF Columns, Lines
  <1>2. ASSUME NEW ch \in {Letter, Newline, Tab}, BeginPutchar(w, ch)
        PROVE  [pc |-> "fetch", ch |-> ch, x |-> 0, y |-> 0] \in Prints
    BY <1>1 DEF Prints, Characters
  <1>3. [pc |-> "clear", ch |-> Blank, x |-> 0, y |-> 0] \in Prints
    BY <1>1 DEF Prints, Characters
  <1>4. ASSUME NEW x \in 0 .. VGA_WIDTH, NEW y \in 0 .. VGA_HEIGHT, BeginSetCursor(w, x, y)
        PROVE  [pc |-> "set", ch |-> Blank, x |-> x, y |-> y] \in Prints
    <2>1. x \in Columns /\ y \in Lines
      BY <1>4, ScreenSize DEF BeginSetCursor, Columns, Lines
    <2> QED BY <2>1 DEF Prints, Characters
  <1> QED BY <1>2, <1>3, <1>4
          DEF Answer, BeginPutchar, BeginClear, BeginSetCursor, BeginCall, screen

LEMMA AnswerStep == ASSUME ScreenInv, NEW w \in Writers, Answer(w) PROVE ScreenInv'
  <1>2. PICK call \in Prints :
          /\ call.pc \in {"fetch", "clear", "set"}
          /\ printing[w] = NoPrint
          /\ printing' = [printing EXCEPT ![w] = call]
          /\ UNCHANGED <<vga_buffer, cursor_x, cursor_y, stray, paper, tracked>>
    BY AnswerIs
  <1>3. printing' \in [Writers -> Prints]
    BY <1>2, ScreenIs
  <1>4. ASSUME NEW v \in Writers, printing[v].pc \in {"scroll", "bottom"}
        PROVE  printing'[v].pc \in {"scroll", "bottom"}
    <2>1. v # w
      BY <1>2, <1>4 DEF NoPrint
    <2> QED BY <1>2, <1>4, <2>1, ScreenIs
  <1> QED BY <1>2, <1>3, <1>4, ScreenIs, ScreenStep

LEMMA DriverStep ==
  ASSUME OneWriter, ScreenInv, NEW w \in Writers, VgaStep(w)
  PROVE  ScreenInv'
  <1>1. \A v \in Writers : v = w
    BY DEF OneWriter
  <1>2. /\ vga_buffer \in [Cells -> Characters] /\ cursor_x \in Columns
        /\ cursor_y \in 0 .. VGA_HEIGHT /\ stray = FALSE
        /\ cursor_y \in Lines \/ printing[w].pc \in {"scroll", "bottom"}
        /\ tracked \in BOOLEAN /\ paper \in Seq(Row) /\ Len(paper) \in 1 .. VGA_HEIGHT
        /\ printing \in [Writers -> Prints] /\ printing[w] \in Prints
    BY <1>1, ScreenIs
  <1>3. /\ VGA_WIDTH \in Nat \ {0} /\ VGA_HEIGHT \in Nat \ {0, 1}
        /\ 0 \in Columns /\ 0 \in Lines /\ VGA_HEIGHT - 1 \in Lines
    BY ScreenSize DEF Columns, Lines
  <1>4. NoPrint \in Prints
    BY <1>3 DEF NoPrint, Prints, Characters
  <1>5. ASSUME NEW stage \in {"column", "line", "scroll", "bottom", "set", "set line"},
               GoTo(w, stage)
        PROVE  printing' \in [Writers -> Prints] /\ printing'[w].pc = stage
    <2>1. [printing[w] EXCEPT !.pc = stage] \in Prints
      BY <1>2 DEF Prints
    <2>2. printing' = [printing EXCEPT ![w] = [printing[w] EXCEPT !.pc = stage]]
      BY <1>5 DEF GoTo
    <2> QED BY <1>2, <2>1, <2>2 DEF Prints
  <1>6. ASSUME Done(w) PROVE printing' \in [Writers -> Prints]
    BY <1>2, <1>4, <1>6 DEF Done
  <1>7. ASSUME NEW cells \in [Cells -> Characters], Show(cells)
        PROVE  vga_buffer' \in [Cells -> Characters]
    BY <1>7, BlankCells DEF Show
  <1>8. CASE Fetch(w)
    <2>1. cursor_y \in Lines
      BY <1>2, <1>8 DEF Fetch
    <2>2. tracked' \in BOOLEAN /\ paper' \in Seq(Row) /\ Len(paper') \in 1 .. VGA_HEIGHT
      BY <1>2, <1>8, TrackTyped DEF Fetch, Prints
    <2>3. PICK stage \in {"column", "write"} :
            printing' = [printing EXCEPT ![w] = [pc |-> stage, ch |-> printing[w].ch,
                                                 x |-> cursor_x, y |-> cursor_y]]
      BY <1>8 DEF Fetch
    <2>4. [pc |-> stage, ch |-> printing[w].ch, x |-> cursor_x, y |-> cursor_y] \in Prints
      BY <1>2, <2>1 DEF Prints
    <2>5. printing' \in [Writers -> Prints]
      BY <1>2, <2>3, <2>4
    <2>6. vga_buffer' \in [Cells -> Characters]
      BY <1>2, <1>7, <1>8 DEF Fetch
    <2> QED BY <1>2, <1>8, <2>1, <2>2, <2>5, <2>6, ScreenStep DEF Fetch
  <1>9. CASE WriteCell(w)
    <2> DEFINE at == Position(printing[w].x, printing[w].y)
               cells == [i \in Cells |-> IF i = at THEN printing[w].ch ELSE vga_buffer[i]]
    <2>1. at \in Cells
      BY <1>2, Positions DEF Prints
    <2>2. cells \in [Cells -> Characters]
      BY <1>2 DEF Prints
    <2>3. /\ printing[w].pc = "write" /\ stray' = (stray \/ at \notin Cells)
          /\ tracked' = tracked /\ Show(cells)
          /\ GoTo(w, "column") /\ UNCHANGED <<cursor_x, cursor_y, paper>>
      BY <1>9 DEF WriteCell
    <2> HIDE DEF at, cells
    <2>4. stray' = FALSE /\ cursor_y' \in Lines
      BY <1>2, <2>1, <2>3
    <2>5. vga_buffer' \in [Cells -> Characters] /\ printing' \in [Writers -> Prints]
      BY <1>5, <1>7, <2>2, <2>3
    <2> QED BY <1>2, <2>3, <2>4, <2>5, ScreenStep
  <1>10. CASE MoveColumn(w)
    <2>1. PICK x \in Columns :
            IF NextColumn(printing[w].ch, x) < VGA_WIDTH
            THEN cursor_x' = NextColumn(printing[w].ch, x) /\ Done(w)
            ELSE cursor_x' = 0 /\ GoTo(w, "line")
      BY <1>2, <1>10 DEF MoveColumn, Prints
    <2>2. NextColumn(printing[w].ch, x) \in Nat
      BY <1>2, Columnwise DEF Prints
    <2>3. cursor_x' \in Columns
      BY <1>3, <2>1, <2>2 DEF Columns
    <2>4. printing' \in [Writers -> Prints]
      BY <1>5, <1>6, <2>1
    <2>5. cursor_y' \in Lines /\ UNCHANGED <<vga_buffer, stray, paper, tracked>>
      BY <1>2, <1>10 DEF MoveColumn
    <2> QED BY <1>2, <2>3, <2>4, <2>5, ScreenStep
  <1>11. CASE MoveLine(w)
    <2>1. PICK y \in Lines : /\ cursor_y' = y + 1
                            /\ IF y + 1 < VGA_HEIGHT THEN Done(w) ELSE GoTo(w, "scroll")
      BY <1>2, <1>11 DEF MoveLine, Prints
    <2>2. UNCHANGED <<vga_buffer, cursor_x, stray, paper, tracked>>
      BY <1>11 DEF MoveLine
    <2>3. CASE y + 1 < VGA_HEIGHT
      <3>1. cursor_y' \in Lines
        BY <1>3, <2>1, <2>3 DEF Lines
      <3> QED BY <1>2, <1>6, <2>1, <2>2, <2>3, <3>1, ScreenStep
    <2>4. CASE ~(y + 1 < VGA_HEIGHT)
      <3>1. cursor_y' \in 0 .. VGA_HEIGHT
        BY <1>3, <2>1 DEF Lines
      <3>2. printing' \in [Writers -> Prints] /\ printing'[w].pc = "scroll"
        BY <1>5, <2>1, <2>4
      <3> QED BY <1>2, <2>2, <3>1, <3>2, ScreenStep
    <2> QED BY <2>3, <2>4
  <1>12. CASE vga_scroll(w)
    <2>1. printing' \in [Writers -> Prints] /\ printing'[w].pc = "bottom"
      BY <1>5, <1>12 DEF vga_scroll
    <2>2. vga_buffer' \in [Cells -> Characters]
      BY <1>2, <1>7, <1>12, ScrolledCells DEF vga_scroll
    <2> QED BY <1>2, <1>12, <2>1, <2>2, ScreenStep DEF vga_scroll
  <1>13. CASE LastLine(w)
    BY <1>2, <1>3, <1>6, <1>13, ScreenStep DEF LastLine
  <1>14. CASE vga_clear(w)
    <2>1. tracked' \in BOOLEAN
      BY <1>14, Zenon DEF vga_clear
    <2>2. cursor_y' \in Lines
      BY <1>2, <1>14 DEF vga_clear
    <2>3. printing' \in [Writers -> Prints]
      BY <1>5, <1>14 DEF vga_clear
    <2> QED BY <1>2, <1>14, <2>1, <2>2, <2>3, BlankCells, EmptyPaper, ScreenStep DEF vga_clear
  <1>15. CASE SetColumn(w)
    <2>1. tracked' \in BOOLEAN
      BY <1>15, Zenon DEF SetColumn
    <2>2. cursor_y' \in Lines /\ cursor_x' \in Columns
      BY <1>2, <1>15 DEF SetColumn, Prints
    <2>3. printing' \in [Writers -> Prints] /\ vga_buffer' \in [Cells -> Characters]
      BY <1>2, <1>5, <1>7, <1>15 DEF SetColumn
    <2>4. paper' \in Seq(Row) /\ Len(paper') \in 1 .. VGA_HEIGHT
      BY <1>2, <1>15, EmptyPaper DEF SetColumn
    <2> QED BY <1>2, <1>15, <2>1, <2>2, <2>3, <2>4, ScreenStep DEF SetColumn
  <1>16. CASE SetLine(w)
    BY <1>2, <1>3, <1>6, <1>16, ScreenStep DEF SetLine, Prints
  <1> QED BY <1>8, <1>9, <1>10, <1>11, <1>12, <1>13, <1>14, <1>15, <1>16 DEF VgaStep

--------------------------------------------------------------------------------

(* What a call under way will have made of the screen when it ends: as     *)
(* long as the text is tracked, that is the text.                          *)
Promise(w) ==
  LET call == printing[w]
  IN  /\ call.pc \in {"none", "fetch"} => Shows(paper, Current)
      /\ call.pc \in {"write", "column"} => call.x = cursor_x /\ call.y = cursor_y
      /\ call.pc = "write" =>
           Shows(paper, Moved(Written(Current, call.ch), call.ch))
      /\ call.pc = "column" => Shows(paper, Moved(Current, call.ch))
      /\ call.pc \in {"line", "scroll", "bottom"} => cursor_x = 0
      /\ call.pc = "line" => call.y = cursor_y /\ Shows(paper, NextLine(Current))
      /\ call.pc = "scroll" =>
           Shows(paper, [cells |-> Scrolled(vga_buffer), x |-> 0, y |-> VGA_HEIGHT - 1])
      /\ call.pc = "bottom" =>
           Shows(paper, [cells |-> vga_buffer, x |-> 0, y |-> VGA_HEIGHT - 1])
      /\ call.pc \in {"set", "set line"} => CellsShow(paper, vga_buffer)
      /\ call.pc = "set line" => paper = << <<>> >> /\ cursor_x = 0 /\ call.y = 0

TextInv == tracked => \A w \in Writers : Promise(w)

LEMMA BlankShows ==
  /\ CellsShow(<< <<>> >>, BlankScreen)
  /\ \A s : CellsShow(<< <<>> >>, s.cells) /\ s.x = 0 /\ s.y = 0 => Shows(<< <<>> >>, s)
  <1> DEFINE page == << <<>> >>
  <1>1. Len(page) = 1 /\ page[1] = <<>> /\ Len(<<>>) = 0
    OBVIOUS
  <1> HIDE DEF page
  <1>2. CellsShow(page, BlankScreen)
    <2> SUFFICES ASSUME NEW x \in Columns, NEW y \in Lines
                 PROVE  BlankScreen[Position(x, y)] = Shown(page, x, y)
      BY DEF CellsShow
    <2>1. BlankScreen[Position(x, y)] = Blank
      BY Positions DEF BlankScreen
    <2>2. x \in Nat /\ y \in Nat
      BY ScreenSize DEF Columns, Lines
    <2>3. Shown(page, x, y) = Blank
      <3>1. CASE y = 0
        BY <1>1, <2>2, <3>1 DEF Shown
      <3>2. CASE y # 0
        BY <1>1, <2>2, <3>2 DEF Shown
      <3> QED BY <3>1, <3>2
    <2> QED BY <2>1, <2>3
  <1>3. \A s : CellsShow(page, s.cells) /\ s.x = 0 /\ s.y = 0 => Shows(page, s)
    BY <1>1 DEF Shows
  <1> QED BY <1>2, <1>3 DEF page

LEMMA TextInit == VgaInit => TextInv
  <1> SUFFICES ASSUME VgaInit, NEW w \in Writers PROVE Promise(w)
    BY DEF TextInv
  <1>1. printing[w].pc = "none" /\ paper = << <<>> >> /\ Current.cells = BlankScreen
        /\ Current.x = 0 /\ Current.y = 0
    BY DEF VgaInit, NoPrint, Current
  <1>2. Shows(paper, Current)
    BY <1>1, BlankShows
  <1> QED BY <1>1, <1>2 DEF Promise

(* The summary, printed when no call is under way.                         *)
LEMMA SummaryText ==
  ASSUME ~KeepTorn, OneWriter, ScreenInv, TextInv, Writers # {}, PrintSummary
  PROVE  TextInv'
  <1> SUFFICES ASSUME tracked', NEW w \in Writers PROVE Promise(w)'
    BY DEF TextInv
  <1> DEFINE s1 == vga_putchar(Current, Newline)
             s2 == vga_putchar(s1, SummaryLetter)
             s3 == vga_putchar(s2, Newline)
             p1 == Typed(paper, Newline)
             p2 == Typed(p1, SummaryLetter)
             p3 == Typed(p2, Newline)
  <1>1. /\ Track(Summary, Writers) /\ Show(vga_print(Current, Summary).cells)
        /\ cursor_x' = vga_print(Current, Summary).x
        /\ cursor_y' = vga_print(Current, Summary).y
        /\ stray' = vga_print(Current, Summary).stray /\ UNCHANGED printing
    BY DEF PrintSummary, Current
  <1>2. tracked /\ Quiet(w) /\ paper' = TypedAll(paper, Summary)
    BY <1>1 DEF Track
  <1>3. Shows(paper, Current)
    BY <1>2 DEF TextInv, Promise, Quiet
  <1>4. cursor_y \in Lines
    BY <1>2, ScreenIs DEF OneWriter, Quiet
  <1>5. Current \in Screen /\ Current.y \in Lines
        /\ paper \in Seq(Row) /\ Len(paper) \in 1 .. VGA_HEIGHT
    BY <1>4, CurrentIs DEF ScreenInv
  <1>6. Newline \in Characters /\ SummaryLetter \in Characters
    BY DEF Characters
  <1>7. /\ s1 \in Screen /\ s1.y \in Lines /\ Shows(p1, s1)
        /\ p1 \in Seq(Row) /\ Len(p1) \in 1 .. VGA_HEIGHT
    BY <1>3, <1>5, <1>6, PutcharParts, PutcharShows, TypedRows
  <1> HIDE DEF s1, p1
  <1>8. /\ s2 \in Screen /\ s2.y \in Lines /\ Shows(p2, s2)
        /\ p2 \in Seq(Row) /\ Len(p2) \in 1 .. VGA_HEIGHT
    BY <1>6, <1>7, PutcharParts, PutcharShows, TypedRows
  <1> HIDE DEF s2, p2
  <1>9. s3 \in Screen /\ Shows(p3, s3)
    BY <1>6, <1>8, PutcharParts, PutcharShows
  <1>10. vga_print(Current, Summary) = s3 /\ paper' = p3
    BY <1>2, PrintThree, TypedThree DEF Summary, s1, s2, p1, p2
  <1> HIDE DEF s3, p3
  <1>11. Current' = s3
    BY <1>1, <1>9, <1>10 DEF Show, Current, Screen
  <1>12. Shows(paper, Current)'
    BY <1>9, <1>10, <1>11 DEF Shows, CellsShow, Shown
  <1>13. printing'[w].pc \in {"none", "fetch"}
    BY <1>1, <1>2 DEF Quiet
  <1> QED BY <1>12, <1>13 DEF Promise

LEMMA AnswerText ==
  ASSUME OneWriter, ScreenInv, TextInv, NEW w \in Writers, Answer(w)
  PROVE  TextInv'
  <1> SUFFICES ASSUME tracked', NEW v \in Writers PROVE Promise(v)'
    BY DEF TextInv
  <1>1. v = w
    BY DEF OneWriter
  <1>2. /\ UNCHANGED <<vga_buffer, cursor_x, cursor_y, stray, paper, tracked>>
        /\ printing[w] = NoPrint
        /\ printing'[w].pc \in {"fetch", "clear", "set"}
    BY AnswerIs, ScreenIs
  <1>3. Shows(paper, Current)
    <2>1. tracked /\ printing[w].pc = "none"
      BY <1>2 DEF NoPrint
    <2> QED BY <2>1 DEF TextInv, Promise
  <1>4. Shows(paper, Current)' /\ CellsShow(paper, vga_buffer)'
    <2>1. Current' = Current /\ paper' = paper /\ Current.cells = vga_buffer /\ vga_buffer' = vga_buffer
      BY <1>2, CurrentIs DEF Current
    <2>2. CellsShow(paper, vga_buffer)
      BY <1>3, <2>1 DEF Shows
    <2> QED BY <1>3, <2>1, <2>2 DEF Shows, CellsShow, Shown
  <1> QED BY <1>1, <1>2, <1>4 DEF Promise

(* Shows looks at the cells and the cursor only.                           *)
LEMMA ShowsIs ==
  ASSUME NEW rows, NEW s, NEW t, Shows(rows, s), t.cells = s.cells, t.x = s.x, t.y = s.y
  PROVE  Shows(rows, t)
  BY DEF Shows

LEMMA DriverText ==
  ASSUME OneWriter, ScreenInv, TextInv, NEW w \in Writers, VgaStep(w)
  PROVE  TextInv'
  <1> DEFINE call == printing[w]
  <1>1. SUFFICES ASSUME tracked' PROVE Promise(w)'
    BY DEF OneWriter, TextInv
  <1>2. /\ vga_buffer \in [Cells -> Characters] /\ cursor_x \in Columns
        /\ cursor_y \in 0 .. VGA_HEIGHT
        /\ cursor_y \in Lines \/ call.pc \in {"scroll", "bottom"}
        /\ paper \in Seq(Row) /\ Len(paper) \in 1 .. VGA_HEIGHT
        /\ printing \in [Writers -> Prints] /\ call \in Prints
        /\ Current \in Screen
    BY ScreenIs DEF OneWriter, ScreenInv
  <1>3. /\ VGA_WIDTH \in Nat \ {0} /\ VGA_HEIGHT \in Nat \ {0, 1}
    BY ScreenSize
  <1>4. ASSUME NEW stage, GoTo(w, stage)
        PROVE  /\ printing'[w].pc = stage /\ printing'[w].ch = call.ch
               /\ printing'[w].x = call.x /\ printing'[w].y = call.y
    BY <1>2, <1>4 DEF GoTo, Prints
  <1>5. ASSUME Done(w) PROVE printing'[w].pc = "none"
    BY <1>2, <1>5 DEF Done, NoPrint
  <1>6. /\ Current.cells = vga_buffer /\ Current.x = cursor_x /\ Current.y = cursor_y
        /\ Current'.cells = vga_buffer' /\ Current'.x = cursor_x' /\ Current'.y = cursor_y'
    BY DEF Current
  <1>7. \A s, t : /\ s.cells = t.cells /\ s.x = t.x /\ s.y = t.y /\ Shows(paper, s)
                  /\ paper' = paper
                  => Shows(paper', t)
    BY ShowsIs
  <1>8. CASE Fetch(w)
    <2>1. /\ tracked /\ call.pc = "fetch" /\ paper' = Typed(paper, call.ch)
          /\ Current' = Current /\ cursor_x' = cursor_x /\ cursor_y' = cursor_y
      BY <1>1, <1>8, TypedOne DEF Fetch, Track, Show, Current
    <2>2. Shows(paper, Current) /\ cursor_y \in Lines
      BY <1>2, <2>1 DEF TextInv, Promise
    <2>3. Shows(paper', Moved(Put(Current, call.ch), call.ch))
      <3>1. vga_putchar(Current, call.ch) = Moved(Put(Current, call.ch), call.ch)
        BY <1>2, <1>6, <2>2, PutcharParts DEF Prints
      <3>2. call.ch \in Characters /\ Current.y \in Lines
        BY <1>2, <1>6, <2>2 DEF Prints
      <3>3. Shows(Typed(paper, call.ch), vga_putchar(Current, call.ch))
        <4> HIDE DEF call
        <4> QED BY <1>2, <2>2, <3>2, PutcharShows
      <3> QED BY <2>1, <3>1, <3>3
    <2>4. /\ printing'[w].pc = IF call.ch \in {Newline, Tab} THEN "column" ELSE "write"
          /\ printing'[w].ch = call.ch /\ printing'[w].x = cursor_x /\ printing'[w].y = cursor_y
      BY <1>2, <1>8 DEF Fetch
    <2> QED BY <2>1, <2>3, <2>4 DEF Promise, Put
  <1>9. CASE WriteCell(w)
    <2> DEFINE at == Position(call.x, call.y)
               cells == [i \in Cells |-> IF i = at THEN call.ch ELSE vga_buffer[i]]
    <2>1. /\ tracked /\ call.pc = "write" /\ vga_buffer' = cells
          /\ stray' = (stray \/ at \notin Cells)
          /\ UNCHANGED <<cursor_x, cursor_y, paper>> /\ GoTo(w, "column")
      BY <1>1, <1>9 DEF WriteCell, Show
    <2>2. /\ Shows(paper, Moved(Written(Current, call.ch), call.ch))
          /\ call.x = cursor_x /\ call.y = cursor_y
      BY <2>1 DEF TextInv, Promise
    <2>3. at \in Cells /\ stray \in BOOLEAN
      BY <1>2, Positions, ScreenIs DEF Prints
    <2>4. Current' = Written(Current, call.ch)
      <3>1. Current' = [cells |-> cells, x |-> cursor_x, y |-> cursor_y, stray |-> stray]
        BY <2>1, <2>3 DEF Current
      <3>2. Written(Current, call.ch)
              = [cells |-> cells, x |-> cursor_x, y |-> cursor_y, stray |-> stray]
        BY <2>2 DEF Written, Current
      <3> QED BY <3>1, <3>2
    <2>5. /\ printing'[w].pc = "column" /\ printing'[w].ch = call.ch
          /\ printing'[w].x = cursor_x' /\ printing'[w].y = cursor_y'
      BY <1>4, <2>1, <2>2
    <2>6. Shows(paper', Moved(Current', printing'[w].ch))
      BY <2>1, <2>2, <2>4, <2>5
    <2> QED BY <2>5, <2>6 DEF Promise
  <1>10. CASE MoveColumn(w)
    <2> DEFINE next == NextColumn(call.ch, cursor_x)
    <2>1. /\ tracked /\ call.pc = "column"
          /\ UNCHANGED <<vga_buffer, cursor_y, stray, paper>>
      BY <1>1, <1>10 DEF MoveColumn
    <2>2. call.x = cursor_x /\ call.y = cursor_y /\ Shows(paper, Moved(Current, call.ch))
      BY <2>1 DEF TextInv, Promise
    <2>3. IF next < VGA_WIDTH THEN cursor_x' = next /\ Done(w)
          ELSE cursor_x' = 0 /\ GoTo(w, "line")
      BY <1>10, <2>2 DEF MoveColumn
    <2>4. CASE next < VGA_WIDTH
      <3>1. Moved(Current, call.ch) = [Current EXCEPT !.x = next]
        BY <1>6, <2>4 DEF Moved
      <3>2. Shows(paper', Current')
        BY <1>6, <1>7, <2>1, <2>2, <2>3, <2>4, <3>1 DEF Current
      <3> QED BY <1>5, <2>3, <2>4, <3>2 DEF Promise
    <2>5. CASE ~(next < VGA_WIDTH)
      <3>1. Moved(Current, call.ch) = NextLine(Current)
        BY <1>6, <2>5 DEF Moved
      <3>2. NextLine(Current') = NextLine(Current)
        <4>1. Current' = [Current EXCEPT !.x = 0]
          BY <2>1, <2>3, <2>5 DEF Current
        <4>2. \A s \in Screen : NextLine([s EXCEPT !.x = 0]) = NextLine(s)
          BY DEF NextLine, Screen
        <4> QED BY <1>2, <4>1, <4>2
      <3>3. Shows(paper', NextLine(Current'))
        BY <2>1, <2>2, <3>1, <3>2
      <3>4. /\ printing'[w].pc = "line" /\ printing'[w].y = cursor_y' /\ cursor_x' = 0
        BY <1>4, <2>1, <2>2, <2>3, <2>5
      <3> QED BY <3>3, <3>4 DEF Promise
    <2> QED BY <2>4, <2>5
  <1>11. CASE MoveLine(w)
    <2>1. /\ tracked /\ call.pc = "line"
          /\ UNCHANGED <<vga_buffer, cursor_x, stray, paper>>
      BY <1>1, <1>11 DEF MoveLine
    <2>2. call.y = cursor_y /\ cursor_x = 0 /\ Shows(paper, NextLine(Current))
      BY <2>1 DEF TextInv, Promise
    <2>3. /\ cursor_y' = cursor_y + 1
          /\ IF cursor_y + 1 < VGA_HEIGHT THEN Done(w) ELSE GoTo(w, "scroll")
      BY <1>11, <2>2 DEF MoveLine
    <2>4. CASE cursor_y + 1 < VGA_HEIGHT
      <3>1. NextLine(Current) = [Current EXCEPT !.x = 0, !.y = cursor_y + 1]
        BY <1>6, <2>4 DEF NextLine
      <3>2. Shows(paper', Current')
        BY <1>6, <1>7, <2>1, <2>2, <2>3, <3>1 DEF Current
      <3> QED BY <1>5, <2>3, <2>4, <3>2 DEF Promise
    <2>5. CASE ~(cursor_y + 1 < VGA_HEIGHT)
      <3> DEFINE t == [cells |-> Scrolled(vga_buffer'), x |-> 0, y |-> VGA_HEIGHT - 1]
      <3>1. NextLine(Current)
              = [Current EXCEPT !.x = 0, !.y = VGA_HEIGHT - 1, !.cells = Scrolled(vga_buffer)]
        BY <1>6, <2>5 DEF NextLine
      <3>2. Shows(paper', t)
        <4>1. /\ NextLine(Current).cells = t.cells /\ NextLine(Current).x = t.x
              /\ NextLine(Current).y = t.y
          BY <2>1, <3>1 DEF Current
        <4> QED BY <1>7, <2>1, <2>2, <4>1
      <3>3. printing'[w].pc = "scroll" /\ cursor_x' = 0
        BY <1>4, <2>1, <2>2, <2>3, <2>5
      <3> QED BY <3>2, <3>3 DEF Promise
    <2> QED BY <2>4, <2>5
  <1>12. CASE vga_scroll(w)
    <2>1. /\ tracked /\ call.pc = "scroll" /\ vga_buffer' = Scrolled(vga_buffer)
          /\ UNCHANGED <<cursor_x, cursor_y, stray, paper>> /\ GoTo(w, "bottom")
      BY <1>1, <1>12 DEF vga_scroll, Show
    <2>2. /\ cursor_x = 0
          /\ Shows(paper, [cells |-> Scrolled(vga_buffer), x |-> 0, y |-> VGA_HEIGHT - 1])
      BY <2>1 DEF TextInv, Promise
    <2>3. Shows(paper', [cells |-> vga_buffer', x |-> 0, y |-> VGA_HEIGHT - 1])
      BY <2>1, <2>2
    <2>4. printing'[w].pc = "bottom" /\ cursor_x' = 0
      BY <1>4, <2>1, <2>2
    <2> QED BY <2>3, <2>4 DEF Promise
  <1>13. CASE LastLine(w)
    <2>1. /\ tracked /\ call.pc = "bottom" /\ cursor_y' = VGA_HEIGHT - 1
          /\ UNCHANGED <<vga_buffer, cursor_x, stray, paper>> /\ Done(w)
      BY <1>1, <1>13 DEF LastLine
    <2>2. /\ cursor_x = 0
          /\ Shows(paper, [cells |-> vga_buffer, x |-> 0, y |-> VGA_HEIGHT - 1])
      BY <2>1 DEF TextInv, Promise
    <2>3. Shows(paper', Current')
      BY <1>6, <1>7, <2>1, <2>2
    <2> QED BY <1>5, <2>1, <2>3 DEF Promise
  <1>14. CASE vga_clear(w)
    <2>1. /\ paper' = << <<>> >> /\ vga_buffer' = BlankScreen /\ GoTo(w, "set")
      BY <1>14 DEF vga_clear
    <2>2. printing'[w].pc = "set"
      BY <1>4, <2>1
    <2>3. CellsShow(paper', vga_buffer')
      BY <2>1, BlankShows
    <2> QED BY <2>2, <2>3 DEF Promise
  <1>15. CASE SetColumn(w)
    <2>1. /\ call.pc = "set" /\ tracked /\ paper = << <<>> >> /\ call.x = 0 /\ call.y = 0
          /\ paper' = paper /\ vga_buffer' = vga_buffer /\ cursor_x' = call.x
          /\ GoTo(w, "set line")
      BY <1>1, <1>15 DEF SetColumn, Show
    <2>2. CellsShow(paper, vga_buffer)
      BY <2>1 DEF TextInv, Promise
    <2>3. CellsShow(paper', vga_buffer')
      BY <2>1, <2>2
    <2>4. printing'[w].pc = "set line" /\ printing'[w].y = 0 /\ paper' = << <<>> >> /\ cursor_x' = 0
      BY <1>4, <2>1
    <2> QED BY <2>3, <2>4 DEF Promise
  <1>16. CASE SetLine(w)
    <2>1. /\ tracked /\ call.pc = "set line" /\ cursor_y' = call.y
          /\ UNCHANGED <<vga_buffer, cursor_x, stray, paper>> /\ Done(w)
      BY <1>1, <1>16 DEF SetLine
    <2>2. /\ CellsShow(paper, vga_buffer) /\ paper = << <<>> >>
          /\ cursor_x = 0 /\ call.y = 0
      BY <2>1 DEF TextInv, Promise
    <2>3. Shows(paper', Current')
      <3>1. /\ CellsShow(<< <<>> >>, Current'.cells) /\ Current'.x = 0 /\ Current'.y = 0
            /\ paper' = << <<>> >>
        BY <1>6, <2>1, <2>2
      <3> QED BY <3>1, BlankShows
    <2> QED BY <1>5, <2>1, <2>3 DEF Promise
  <1> QED BY <1>8, <1>9, <1>10, <1>11, <1>12, <1>13, <1>14, <1>15, <1>16 DEF VgaStep

--------------------------------------------------------------------------------

(* The shell is one more user of the keyboard, and the screen is written   *)
(* by it and by the timer's interrupt.                                     *)
LEMMA KeyboardSteps ==
  ASSUME [ConsoleNext]_consoleVars
  PROVE  [Next]_vars
  <1>1. CASE KeyInterrupt
    BY <1>1 DEF KeyInterrupt, Next
  <1>2. CASE TimerInterrupt
    BY <1>2 DEF TimerInterrupt, Next
  <1>3. ASSUME NEW r \in Readers, Shell(r) PROVE [Next]_vars
    BY <1>3 DEF Shell, Next, keyboard_getchar
  <1>4. CASE UNCHANGED consoleVars
    BY <1>4 DEF consoleVars
  <1> QED BY <1>1, <1>2, <1>3, <1>4 DEF ConsoleNext

LEMMA KeyboardPart == ConsoleSpec => Spec
  <1>1. ConsoleInit => Init
    BY DEF ConsoleInit
  <1>2. [ConsoleNext]_consoleVars => [Next]_vars
    BY KeyboardSteps
  <1> QED BY <1>1, <1>2, PTL DEF ConsoleSpec, Spec

LEMMA ScreenSteps ==
  ASSUME OneWriter, [ConsoleNext]_consoleVars
  PROVE  \/ PrintSummary
         \/ \E w \in Writers : Answer(w) \/ VgaStep(w)
         \/ UNCHANGED vgaVars
  <1>1. CASE KeyInterrupt
    BY <1>1 DEF KeyInterrupt
  <1>2. CASE TimerInterrupt
    BY <1>2 DEF TimerInterrupt
  <1>3. ASSUME NEW r \in Readers, Shell(r)
        PROVE  \/ \E w \in Writers : Answer(w) \/ VgaStep(w)
               \/ UNCHANGED vgaVars
    <2>1. r \in Writers
      BY DEF OneWriter
    <2> QED BY <1>3, <2>1 DEF Shell
  <1>4. CASE UNCHANGED consoleVars
    BY <1>4 DEF consoleVars
  <1> QED BY <1>1, <1>2, <1>3, <1>4 DEF ConsoleNext

LEMMA ScreenNext ==
  ASSUME OneWriter, ScreenInv, [ConsoleNext]_consoleVars
  PROVE  ScreenInv'
  <1>1. CASE PrintSummary
    BY <1>1, SummaryStep
  <1>2. ASSUME NEW w \in Writers, Answer(w) \/ VgaStep(w) PROVE ScreenInv'
    BY <1>2, AnswerStep, DriverStep
  <1>3. CASE UNCHANGED vgaVars
    BY <1>3 DEF vgaVars, screen, ScreenInv, Current
  <1> QED BY <1>1, <1>2, <1>3, ScreenSteps

LEMMA TextNext ==
  ASSUME OneWriter, ~KeepTorn, ScreenInv, TextInv, [ConsoleNext]_consoleVars
  PROVE  TextInv'
  <1>1. CASE PrintSummary
    BY <1>1, SummaryText DEF OneWriter
  <1>2. ASSUME NEW w \in Writers, Answer(w) \/ VgaStep(w) PROVE TextInv'
    BY <1>2, AnswerText, DriverText
  <1>3. CASE UNCHANGED vgaVars
    <2>1. /\ UNCHANGED <<paper, tracked, printing, vga_buffer, cursor_x, cursor_y>>
          /\ Current' = Current
      BY <1>3 DEF vgaVars, screen, Current
    <2>2. ASSUME NEW w \in Writers, Promise(w) PROVE Promise(w)'
      BY <2>1, <2>2 DEF Promise
    <2> QED BY <2>1, <2>2 DEF TextInv
  <1> QED BY <1>1, <1>2, <1>3, ScreenSteps

(* Of the driver's state: the cursor is on the screen except while a call  *)
(* is about to scroll, what a call remembers of it always is.              *)
THEOREM ScreenInvariant == OneWriter => (ConsoleSpec => []ScreenInv)
  <1> SUFFICES ASSUME OneWriter PROVE ConsoleSpec => []ScreenInv
    OBVIOUS
  <1>1. ConsoleInit => ScreenInv
    BY ScreenInit DEF ConsoleInit
  <1>2. ScreenInv /\ [ConsoleNext]_consoleVars => ScreenInv'
    BY ScreenNext
  <1> QED BY <1>1, <1>2, PTL DEF ConsoleSpec

(* With one process, what it reads of the cursor is still so when it uses  *)
(* it, or older than a summary line; either way every write of vga.c goes  *)
(* to a cell of the screen.                                                *)
THEOREM WritesStayOnScreen == OneWriter => (ConsoleSpec => []WritesOnScreen)
  <1>1. ScreenInv => WritesOnScreen
    BY DEF ScreenInv, WritesOnScreen
  <1> QED BY <1>1, ScreenInvariant, PTL

(* The state keeps its type.                                               *)
THEOREM ConsoleTyping == OneWriter => (ConsoleSpec => []ConsoleTypeOK)
  <1>1. ScreenInv => VgaTypeOK
    <2> SUFFICES ASSUME ScreenInv PROVE VgaTypeOK
      OBVIOUS
    <2>1. cursor_x \in 0 .. (VGA_WIDTH - 1)
      BY ScreenIs DEF Columns
    <2>2. DOMAIN vga_buffer = Cells
      BY ScreenIs
    <2> QED BY <2>1, <2>2, ScreenIs DEF VgaTypeOK
  <1> QED BY <1>1, ScreenInvariant, KeyboardTypeOK, KeyboardPart, PTL DEF ConsoleTypeOK

(* Between calls the screen shows the last rows of the text printed.       *)
THEOREM ScreenShowsText == OneWriter /\ ~KeepTorn => (ConsoleSpec => []ShowsText)
  <1> SUFFICES ASSUME OneWriter, ~KeepTorn PROVE ConsoleSpec => []ShowsText
    OBVIOUS
  <1>1. ConsoleInit => TextInv
    BY TextInit DEF ConsoleInit
  <1>2. ScreenInv /\ TextInv /\ [ConsoleNext]_consoleVars => TextInv'
    BY TextNext
  <1>3. TextInv => ShowsText
    <2> SUFFICES ASSUME TextInv, tracked, \A w \in Writers : printing[w].pc = "none"
                 PROVE  /\ \A y \in 0 .. (VGA_HEIGHT - 1), x \in 0 .. (VGA_WIDTH - 1) :
                             vga_buffer[Position(x, y)] =
                               IF y < Len(paper) /\ x < Len(paper[y + 1])
                               THEN paper[y + 1][x + 1] ELSE Blank
                        /\ cursor_x = Len(paper[Len(paper)]) /\ cursor_y = Len(paper) - 1
      BY DEF ShowsText
    <2>1. PICK w \in Writers : TRUE
      BY DEF OneWriter
    <2>2. Shows(paper, Current)
      BY <2>1 DEF TextInv, Promise
    <2>3. Current.cells = vga_buffer /\ Current.x = cursor_x /\ Current.y = cursor_y
      BY DEF Current
    <2> QED BY <2>2, <2>3 DEF Shows, CellsShow, Shown, Columns, Lines
  <1> QED BY <1>1, <1>2, <1>3, ScreenInvariant, PTL DEF ConsoleSpec

(* Under the shell, too, the keyboard's ring is a queue.                   *)
THEOREM ConsoleKeysInOrder == OneReader => (ConsoleSpec => ImplementsFifo)
  BY KeyboardIsFifo, KeyboardPart, PTL

(* The same of DroppedOnlyWhenFull, whoever reads and prints.              *)
THEOREM ConsoleKeysKept == ConsoleSpec => DroppedOnlyWhenFull
  BY KeysDroppedOnlyWhenFull, KeyboardPart, PTL
================================================================================
