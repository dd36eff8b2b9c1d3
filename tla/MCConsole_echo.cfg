SPECIFICATION ConsoleSpec
CONSTANTS
  Readers = {r1}
  Writers = {r1}
  Keys = {k1}
  KB_BUFFER_SIZE = 3
  Nothing = Nothing
  VGA_WIDTH = 3
  VGA_HEIGHT = 2
  TabStop = 2
  Newline = Newline
  Tab = Tab
  Blank = Blank
  Letter = Letter
  SummaryLetter = SummaryLetter
  KeepTorn = FALSE
INVARIANT ConsoleTypeOK
INVARIANT WritesOnScreen
INVARIANT ShowsText
PROPERTY ImplementsFifo
PROPERTY DroppedOnlyWhenFull
PROPERTY NoLostWakeup
