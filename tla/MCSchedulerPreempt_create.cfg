SPECIFICATION Spec
CONSTANTS
  p1 = p1
  p2 = p2
  p3 = p3
  Procs = {p1, p2, p3, p4}
  NULL = NULL
  Started <- Three
  Creators = {p1}
  Killers = {}
  MAX_PROCESSES = 4
  MaxPid = 5
INVARIANT NobodyStranded
