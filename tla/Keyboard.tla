-------------------------------- MODULE Keyboard --------------------------------
(***************************************************************************)
(* drivers/keyboard.c: the interrupt handler that fills a ring buffer, and *)
(* processes that wait in keyboard_getchar and empty it.                   *)
(*                                                                         *)
(* keyboard_handler is one step (interrupt gate).  keyboard_getchar can be *)
(* interrupted, and preempted in favour of another reader, between its     *)
(* test, the hlt instruction, the load of the character and the update of  *)
(* the read index.  Ctrl and Alt are not kept (nothing reads them), nor    *)
(* are keys without a character and the 0xE0 prefix.                       *)
(***************************************************************************)
EXTENDS Naturals, Sequences, FiniteSets

CONSTANTS Readers,          (* processes that call keyboard_getchar        *)
          Keys,             (* keys that have a character                  *)
          KB_BUFFER_SIZE,
          Nothing           (* no character                                *)

ASSUME KeyboardAssumption == KB_BUFFER_SIZE \in Nat /\ KB_BUFFER_SIZE > 1

(* An operator whose comment begins with Slip is what a plausible mistake  *)
(* in the code would make of the operator after it; no action uses it.     *)

ShiftKeys == {"left", "right"}

(* A character: a key, and the table it was looked up in. *)
Chars == [key : Keys, shifted : BOOLEAN]

VARIABLES
  kb_buffer, kb_buffer_read, kb_buffer_write,
  shift_pressed,
  held,      (* external: the shift keys that are down                     *)
  pc,        (* where each reader is in keyboard_getchar                   *)
  c,         (* its local variable                                         *)
  returned   (* what the last call that returned gave its caller           *)

vars == <<kb_buffer, kb_buffer_read, kb_buffer_write, shift_pressed, held,
          pc, c, returned>>
ring == <<kb_buffer, kb_buffer_read, kb_buffer_write>>

Indices == 0 .. (KB_BUFFER_SIZE - 1)

(* keyboard_init, nobody reading and no key down. *)
Init ==
  /\ kb_buffer = [i \in Indices |-> Nothing]
  /\ kb_buffer_read = 0 /\ kb_buffer_write = 0
  /\ shift_pressed = FALSE
  /\ held = {}
  /\ pc = [r \in Readers |-> "idle"]
  /\ c = [r \in Readers |-> Nothing]
  /\ returned = Nothing

(* Slip: the slot is taken before it is known to be free. *)
kb_buffer_overwrite(char) ==
  LET next_write == (kb_buffer_write + 1) % KB_BUFFER_SIZE
  IN  /\ kb_buffer' = [kb_buffer EXCEPT ![kb_buffer_write] = char]
      /\ kb_buffer_write' = next_write

(* Slip: the ring is declared full one slot early. *)
kb_buffer_early(char) ==
  LET next_write == (kb_buffer_write + 1) % KB_BUFFER_SIZE
  IN  IF next_write # kb_buffer_read /\ (next_write + 1) % KB_BUFFER_SIZE # kb_buffer_read
      THEN /\ kb_buffer' = [kb_buffer EXCEPT ![kb_buffer_write] = char]
           /\ kb_buffer_write' = next_write
      ELSE UNCHANGED <<kb_buffer, kb_buffer_write>>

(* A character goes into the ring, or is dropped if the ring is full. *)
kb_buffer_add(char) ==
  LET next_write == (kb_buffer_write + 1) % KB_BUFFER_SIZE
  IN  IF next_write # kb_buffer_read
      THEN /\ kb_buffer' = [kb_buffer EXCEPT ![kb_buffer_write] = char]
           /\ kb_buffer_write' = next_write
      ELSE UNCHANGED <<kb_buffer, kb_buffer_write>>

(* Any interrupt ends a hlt. *)
Woken == [r \in Readers |-> IF pc[r] = "halted" THEN "test" ELSE pc[r]]

(* keyboard_handler, by what the scancode says. *)
PressShift(k) ==
  /\ held' = held \union {k}
  /\ shift_pressed' = TRUE
  /\ pc' = Woken
  /\ UNCHANGED <<ring, c, returned>>

ReleaseShift(k) ==
  /\ k \in held
  /\ held' = held \ {k}
  /\ shift_pressed' = FALSE
  /\ pc' = Woken
  /\ UNCHANGED <<ring, c, returned>>

PressKey(k) ==
  /\ kb_buffer_add([key |-> k, shifted |-> shift_pressed])
  /\ pc' = Woken
  /\ UNCHANGED <<kb_buffer_read, shift_pressed, held, c, returned>>

keyboard_handler ==
  \/ \E k \in ShiftKeys : PressShift(k) \/ ReleaseShift(k)
  \/ \E k \in Keys : PressKey(k)

(* The timer interrupt, 100 times a second. *)
Tick == pc' = Woken /\ UNCHANGED <<ring, shift_pressed, held, c, returned>>

-------------------------------------------------------------------------------

(* A process calls keyboard_getchar. *)
Call(r) ==
  /\ pc[r] = "idle"
  /\ pc' = [pc EXCEPT ![r] = "test"]
  /\ UNCHANGED <<ring, shift_pressed, held, c, returned>>

(* Slip: the write index may be the smaller one, having wrapped. *)
HasInputNoWrap == kb_buffer_read < kb_buffer_write

keyboard_has_input == kb_buffer_read # kb_buffer_write

Test(r) ==
  /\ pc[r] = "test"
  /\ pc' = [pc EXCEPT ![r] = IF keyboard_has_input THEN "load" ELSE "hlt"]
  /\ UNCHANGED <<ring, shift_pressed, held, c, returned>>

(* hlt: an interrupt that came after the test has been forgotten. *)
Halt(r) ==
  /\ pc[r] = "hlt"
  /\ pc' = [pc EXCEPT ![r] = "halted"]
  /\ UNCHANGED <<ring, shift_pressed, held, c, returned>>

Load(r) ==
  /\ pc[r] = "load"
  /\ pc' = [pc EXCEPT ![r] = "advance"]
  /\ c' = [c EXCEPT ![r] = kb_buffer[kb_buffer_read]]
  /\ UNCHANGED <<ring, shift_pressed, held, returned>>

(* Slip: the index is not wrapped. *)
AdvanceNoWrap(r) ==
  /\ pc[r] = "advance"
  /\ pc' = [pc EXCEPT ![r] = "idle"]
  /\ kb_buffer_read' = kb_buffer_read + 1
  /\ returned' = c[r]
  /\ c' = [c EXCEPT ![r] = Nothing]
  /\ UNCHANGED <<kb_buffer, kb_buffer_write, shift_pressed, held>>

Advance(r) ==
  /\ pc[r] = "advance"
  /\ pc' = [pc EXCEPT ![r] = "idle"]
  /\ kb_buffer_read' = (kb_buffer_read + 1) % KB_BUFFER_SIZE
  /\ returned' = c[r]
  /\ c' = [c EXCEPT ![r] = Nothing]
  /\ UNCHANGED <<kb_buffer, kb_buffer_write, shift_pressed, held>>

keyboard_getchar(r) == Call(r) \/ Test(r) \/ Halt(r) \/ Load(r) \/ Advance(r)

Next == keyboard_handler \/ Tick \/ \E r \in Readers : keyboard_getchar(r)

(* A call that was begun goes on, and ticks keep coming. *)
Fairness ==
  /\ WF_vars(Tick)
  /\ \A r \in Readers : WF_vars(Test(r) \/ Halt(r) \/ Load(r) \/ Advance(r))

Spec == Init /\ [][Next]_vars /\ Fairness

-------------------------------------------------------------------------------

TypeOK ==
  /\ kb_buffer \in [Indices -> Chars \union {Nothing}]
  /\ kb_buffer_read \in Indices /\ kb_buffer_write \in Indices
  /\ shift_pressed \in BOOLEAN
  /\ held \subseteq ShiftKeys
  /\ pc \in [Readers -> {"idle", "test", "hlt", "halted", "load", "advance"}]
  /\ c \in [Readers -> Chars \union {Nothing}]
  /\ returned \in Chars \union {Nothing}

(* The characters between the two indices. *)
Contents ==
  [i \in 1 .. ((kb_buffer_write + KB_BUFFER_SIZE - kb_buffer_read) % KB_BUFFER_SIZE)
     |-> kb_buffer[(kb_buffer_read + i - 1) % KB_BUFFER_SIZE]]

(* The ring is a queue: what the handler puts in comes out of              *)
(* keyboard_getchar once and in order, however they interleave.            *)
Fifo == INSTANCE KeyFifo
          WITH queue <- Contents, Capacity <- KB_BUFFER_SIZE - 1

ImplementsFifo == Fifo!Spec

(* A character is dropped only when the ring holds all it can,             *)
(* KB_BUFFER_SIZE - 1 characters; the older ones stay.                     *)
DroppedOnlyWhenFull ==
  [][\A k \in Keys :
       (PressKey(k) /\ Len(Contents) < KB_BUFFER_SIZE - 1) =>
         Len(Contents') = Len(Contents) + 1]_vars

(* A reader is not left halted beside a character: the interrupt that      *)
(* brought it may fall between the test and the hlt, but then the next     *)
(* tick repeats the test.                                                  *)
NoLostWakeup ==
  \A r \in Readers : (pc[r] # "idle" /\ Contents # <<>>) ~> pc[r] = "idle"

(* shift_pressed says whether a shift key is down. *)
ShiftFollowsKeys == shift_pressed = (held # {})
===============================================================================
