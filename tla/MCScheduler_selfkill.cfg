SPECIFICATION SafeSpec
CONSTANTS
  Procs = {p1, p2}
  NULL = NULL
  Boot = Boot
  Lost = Lost
  MAX_PROCESSES = 2
  TIME_SLICE_TICKS = 2
  SliceMod = 4
  MaxPid = 4
  KillCurrent = TRUE
  CallSchedulerTick = FALSE
INVARIANT ReadyQueueIsLive
