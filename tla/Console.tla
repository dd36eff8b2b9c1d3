--------------------------------- MODULE Console ---------------------------------
(***************************************************************************)
(* The interactive shell: processes read characters with keyboard_getchar  *)
(* and answer each on the screen, while the keyboard's and the timer's     *)
(* interrupts arrive, and the timer's prints the summary line now and then.*)
(* The shell itself is kernel_main's (external): it prints a letter, a     *)
(* newline or a tab for it, clears the screen or moves the cursor.         *)
(***************************************************************************)
EXTENDS Keyboard, Vga

consoleVars == <<vars, vgaVars>>

ConsoleInit == Init /\ VgaInit

KeyInterrupt == keyboard_handler /\ UNCHANGED vgaVars

TimerInterrupt == Tick /\ (PrintSummary \/ UNCHANGED vgaVars)

Answer(r) ==
  \/ \E ch \in {Letter, Newline, Tab} : BeginPutchar(r, ch)
  \/ BeginClear(r)
  \/ \E x \in 0 .. VGA_WIDTH, y \in 0 .. VGA_HEIGHT : BeginSetCursor(r, x, y)

Shell(r) ==
  \/ /\ printing[r] = NoPrint
     /\ Call(r) \/ Test(r) \/ Halt(r) \/ Load(r)
     /\ UNCHANGED vgaVars
  \/ Advance(r) /\ Answer(r)
  \/ VgaStep(r) /\ UNCHANGED vars

ConsoleNext ==
  \/ KeyInterrupt
  \/ TimerInterrupt
  \/ \E r \in Readers : Shell(r)

ConsoleSpec == ConsoleInit /\ [][ConsoleNext]_consoleVars /\ Fairness

ConsoleTypeOK == TypeOK /\ VgaTypeOK
================================================================================
