----------------------------------- MODULE Vga -----------------------------------
(***************************************************************************)
(* drivers/vga.c: the text screen, written by processes and, inside the    *)
(* timer interrupt, by preempt_handler's summary line.                     *)
(*                                                                         *)
(* The summary is printed with interrupts off and is one step.  A process  *)
(* prints with interrupts on: vga_putchar reads the cursor, writes the     *)
(* cell, and stores the column and the line; the compiler may or may not   *)
(* read the cursor again before it stores (the build with -O2 does not,    *)
(* and stores only columns that are on the screen).  Colours are left out, *)
(* and letters are told apart by who prints them only.                     *)
(***************************************************************************)
EXTENDS Integers, SequencesExt

CONSTANTS
  Writers,                   (* processes that print                       *)
  VGA_WIDTH, VGA_HEIGHT,
  TabStop,                   (* 4 in the code                              *)
  Newline, Tab, Blank,
  Letter, SummaryLetter,     (* any letter of a process, of the summary    *)
  KeepTorn                   (* whether the text is still tracked when a   *)
                             (* call has been interrupted by another       *)

ASSUME VgaAssumption ==
  /\ {VGA_WIDTH, TabStop} \subseteq Nat \ {0} /\ VGA_HEIGHT \in Nat \ {0, 1}
  /\ Newline # Tab
  /\ KeepTorn \in BOOLEAN

(* An operator whose comment begins with Slip is what a plausible mistake  *)
(* in the code would make of the operator after it; nothing uses it.       *)

VARIABLES
  vga_buffer, cursor_x, cursor_y,
  stray,      (* history: a write went past the screen                     *)
  printing,   (* each process's call of vga.c: arguments and registers     *)
  paper,      (* history: the last rows of the text printed so far, the    *)
              (* one being written at the end                              *)
  tracked     (* history: FALSE once a call was interrupted by another, or *)
              (* the cursor was moved; then the contents are not kept      *)

screen == <<vga_buffer, cursor_x, cursor_y>>
vgaVars == <<screen, stray, printing, paper, tracked>>

Cells == 0 .. (VGA_WIDTH * VGA_HEIGHT - 1)
BlankScreen == [i \in Cells |-> Blank]
NoPrint == [pc |-> "none", ch |-> Blank, x |-> 0, y |-> 0]

(* vga_init on a clear screen. *)
VgaInit ==
  /\ vga_buffer = BlankScreen
  /\ cursor_x = 0 /\ cursor_y = 0
  /\ stray = FALSE
  /\ printing = [w \in Writers |-> NoPrint]
  /\ paper = << <<>> >>
  /\ tracked = TRUE

Position(x, y) == y * VGA_WIDTH + x

(* The column after a character; VGA_WIDTH or more when a line ends. *)
NextColumn(ch, x) ==
  CASE ch = Newline -> VGA_WIDTH
    [] ch = Tab -> ((x + TabStop) \div TabStop) * TabStop
    [] OTHER -> x + 1

(* Slip: the last line keeps what it had. *)
ScrolledNotCleared(cells) ==
  [i \in Cells |-> IF i + VGA_WIDTH \in Cells THEN cells[i + VGA_WIDTH] ELSE cells[i]]

(* vga_scroll, but for the cursor. *)
Scrolled(cells) ==
  [i \in Cells |-> IF i + VGA_WIDTH \in Cells THEN cells[i + VGA_WIDTH] ELSE Blank]

(* A whole call of vga_putchar on a screen. *)
vga_putchar(s, ch) ==
  LET letter == ch \notin {Newline, Tab}
      at == Position(s.x, s.y)
      written == IF letter THEN [s EXCEPT !.cells = [i \in Cells |-> IF i = at THEN ch ELSE @[i]],
                                          !.stray = @ \/ at \notin Cells]
                 ELSE s
      x == NextColumn(ch, s.x)
  IN  IF x < VGA_WIDTH THEN [written EXCEPT !.x = x]
      ELSE IF s.y + 1 < VGA_HEIGHT THEN [written EXCEPT !.x = 0, !.y = @ + 1]
      ELSE [written EXCEPT !.x = 0, !.y = VGA_HEIGHT - 1, !.cells = Scrolled(@)]

vga_print(s, str) ==
  LET after[i \in 0 .. Len(str)] ==
        IF i = 0 THEN s ELSE vga_putchar(after[i - 1], str[i])
  IN  after[Len(str)]

(* The text as one would type it on paper, of which the screen shows the   *)
(* last rows.                                                              *)
Typed(rows, ch) ==
  LET last == rows[Len(rows)]
      row == CASE ch = Newline -> last
               [] ch = Tab -> last \o [i \in 1 .. (TabStop - (Len(last) % TabStop)) |-> Blank]
               [] OTHER -> Append(last, ch)
      full == ch = Newline \/ Len(row) >= VGA_WIDTH
      all == Front(rows) \o (IF full THEN <<row, <<>>>> ELSE <<row>>)
  IN  IF Len(all) > VGA_HEIGHT THEN Tail(all) ELSE all

TypedAll(rows, str) ==
  LET after[i \in 0 .. Len(str)] ==
        IF i = 0 THEN rows ELSE Typed(after[i - 1], str[i])
  IN  after[Len(str)]

(* Between calls, or not yet begun. *)
Quiet(w) == printing[w].pc \in {"none", "fetch"}

(* Something is printed: str, while the calls of the writers in others may *)
(* be under way.                                                           *)
Track(str, others) ==
  /\ tracked' = (tracked /\ (KeepTorn \/ \A w \in others : Quiet(w)))
  /\ paper' = IF tracked' THEN TypedAll(paper, str) ELSE << <<>> >>

(* The contents are kept as long as the text is. *)
Show(cells) == vga_buffer' = IF tracked' THEN cells ELSE BlankScreen

--------------------------------------------------------------------------------

(* Slip: the summary does not begin with a newline. *)
SummaryOnLine == <<SummaryLetter, Newline>>

Summary == <<Newline, SummaryLetter, Newline>>

(* Every 200 ticks, inside the timer interrupt. *)
PrintSummary ==
  LET s == vga_print([cells |-> vga_buffer, x |-> cursor_x, y |-> cursor_y, stray |-> stray],
                     Summary)
  IN  /\ Track(Summary, Writers)
      /\ Show(s.cells)
      /\ cursor_x' = s.x /\ cursor_y' = s.y /\ stray' = s.stray
      /\ UNCHANGED printing

(* A process calls vga_putchar, vga_clear, or vga_set_cursor.              *)
BeginCall(w, pc, ch, x, y) ==
  /\ printing[w] = NoPrint
  /\ printing' = [printing EXCEPT ![w] = [pc |-> pc, ch |-> ch, x |-> x, y |-> y]]
  /\ UNCHANGED <<screen, stray, paper, tracked>>

BeginPutchar(w, ch) == BeginCall(w, "fetch", ch, 0, 0)
BeginClear(w) == BeginCall(w, "clear", Blank, 0, 0)

BeginSetCursor(w, x, y) ==
  /\ x < VGA_WIDTH /\ y < VGA_HEIGHT
  /\ BeginCall(w, "set", Blank, x, y)

GoTo(w, pc) == printing' = [printing EXCEPT ![w].pc = pc]
Done(w) == printing' = [printing EXCEPT ![w] = NoPrint]

(* vga_putchar reads the cursor. *)
Fetch(w) ==
  /\ printing[w].pc = "fetch"
  /\ Track(<<printing[w].ch>>, Writers \ {w})
  /\ Show(vga_buffer)
  /\ printing' = [printing EXCEPT
       ![w] = [pc |-> IF @.ch \in {Newline, Tab} THEN "column" ELSE "write",
               ch |-> @.ch, x |-> cursor_x, y |-> cursor_y]]
  /\ UNCHANGED <<cursor_x, cursor_y, stray>>

(* It writes the cell, ... *)
WriteCell(w) ==
  LET at == Position(printing[w].x, printing[w].y)
  IN  /\ printing[w].pc = "write"
      /\ stray' = (stray \/ at \notin Cells)
      /\ tracked' = tracked
      /\ Show([i \in Cells |-> IF i = at THEN printing[w].ch ELSE vga_buffer[i]])
      /\ GoTo(w, "column")
      /\ UNCHANGED <<cursor_x, cursor_y, paper>>

(* ... moves the column ... *)
MoveColumn(w) ==
  /\ printing[w].pc = "column"
  /\ \E x \in {printing[w].x, cursor_x} :
       LET next == NextColumn(printing[w].ch, x)
       IN  IF next < VGA_WIDTH
           THEN cursor_x' = next /\ Done(w)
           ELSE cursor_x' = 0 /\ GoTo(w, "line")
  /\ UNCHANGED <<vga_buffer, cursor_y, stray, paper, tracked>>

(* ... and the line, which may be one past the screen until it is scrolled. *)
MoveLine(w) ==
  /\ printing[w].pc = "line"
  /\ \E y \in {printing[w].y, cursor_y} :
       /\ cursor_y' = y + 1
       /\ IF y + 1 < VGA_HEIGHT THEN Done(w) ELSE GoTo(w, "scroll")
  /\ UNCHANGED <<vga_buffer, cursor_x, stray, paper, tracked>>

vga_scroll(w) ==
  /\ printing[w].pc = "scroll"
  /\ tracked' = tracked
  /\ Show(Scrolled(vga_buffer))
  /\ GoTo(w, "bottom")
  /\ UNCHANGED <<cursor_x, cursor_y, stray, paper>>

LastLine(w) ==
  /\ printing[w].pc = "bottom"
  /\ cursor_y' = VGA_HEIGHT - 1
  /\ Done(w)
  /\ UNCHANGED <<vga_buffer, cursor_x, stray, paper, tracked>>

vga_clear(w) ==
  /\ printing[w].pc = "clear"
  /\ tracked' = (tracked /\ (KeepTorn \/ \A v \in Writers \ {w} : Quiet(v)))
  /\ paper' = << <<>> >>
  /\ vga_buffer' = BlankScreen
  /\ GoTo(w, "set")
  /\ UNCHANGED <<cursor_x, cursor_y, stray>>

(* vga_set_cursor and the end of vga_clear. *)
SetColumn(w) ==
  /\ printing[w].pc = "set"
  /\ tracked' = (tracked /\ paper = << <<>> >> /\ printing[w].x = 0 /\ printing[w].y = 0)
  /\ paper' = IF tracked' THEN paper ELSE << <<>> >>
  /\ Show(vga_buffer)
  /\ cursor_x' = printing[w].x
  /\ GoTo(w, "set line")
  /\ UNCHANGED <<cursor_y, stray>>

SetLine(w) ==
  /\ printing[w].pc = "set line"
  /\ cursor_y' = printing[w].y
  /\ Done(w)
  /\ UNCHANGED <<vga_buffer, cursor_x, stray, paper, tracked>>

VgaStep(w) ==
  \/ Fetch(w) \/ WriteCell(w) \/ MoveColumn(w) \/ MoveLine(w)
  \/ vga_scroll(w) \/ LastLine(w)
  \/ vga_clear(w) \/ SetColumn(w) \/ SetLine(w)

--------------------------------------------------------------------------------

VgaTypeOK ==
  /\ cursor_x \in 0 .. (VGA_WIDTH - 1)
  /\ cursor_y \in 0 .. VGA_HEIGHT
  /\ stray \in BOOLEAN /\ tracked \in BOOLEAN
  /\ DOMAIN vga_buffer = Cells
  /\ Len(paper) \in 1 .. VGA_HEIGHT

(* Nothing is ever written past the screen, although the cursor is past it *)
(* while a call waits to scroll, the summary may be printed just then, and *)
(* what a call has read of the cursor is old when it uses it.  (With two   *)
(* writers it fails.)                                                      *)
WritesOnScreen == ~stray

(* Between calls the screen shows the last lines of what was printed: long *)
(* lines wrapped, tabs set, and nothing left over below or behind; the     *)
(* cursor is where the next character goes.  Claimed until a call has been *)
(* interrupted by the summary (or another writer), or the cursor moved.    *)
ShowsText ==
  (tracked /\ \A w \in Writers : printing[w].pc = "none") =>
    /\ \A y \in 0 .. (VGA_HEIGHT - 1), x \in 0 .. (VGA_WIDTH - 1) :
         vga_buffer[Position(x, y)] =
           IF y < Len(paper) /\ x < Len(paper[y + 1]) THEN paper[y + 1][x + 1] ELSE Blank
    /\ cursor_x = Len(paper[Len(paper)]) /\ cursor_y = Len(paper) - 1
================================================================================
