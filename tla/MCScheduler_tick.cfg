SPECIFICATION SafeSpec
CONSTANTS
  Procs = {p1, p2, p3}
  NULL = NULL
  Boot = Boot
  Lost = Lost
  MAX_PROCESSES = 3
  TIME_SLICE_TICKS = 2
  SliceMod = 4
  MaxPid = 5
  KillCurrent = FALSE
  CallSchedulerTick = TRUE
INVARIANT NoLostProcess
SYMMETRY Symmetry
CHECK_DEADLOCK FALSE
