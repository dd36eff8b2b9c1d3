SPECIFICATION Spec
CONSTANTS
  Procs = {p1, p2, p3, p4}
  NULL = NULL
  Boot = Boot
  Lost = Lost
  MAX_PROCESSES = 3
  TIME_SLICE_TICKS = 2
  SliceMod = 4
  MaxPid = 5
  KillCurrent = FALSE
  CallSchedulerTick = FALSE
INVARIANT TypeOK
INVARIANT QueueFaithful
INVARIANT NoLostProcess
INVARIANT PidsUnique
INVARIANT NoQuantumUnderflow
INVARIANT ContextsMatch
PROPERTY Refines
PROPERTY EventuallyRuns
