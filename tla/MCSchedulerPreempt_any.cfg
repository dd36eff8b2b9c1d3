SPECIFICATION Spec
CONSTANTS
  p1 = p1
  p2 = p2
  p3 = p3
  Procs = {p1, p2, p3, p4}
  NULL = NULL
  Started <- Two
  Creators = {p1, p2}
  Killers = {p2, p3}
  MAX_PROCESSES = 4
  MaxPid = 6
INVARIANT StrandedOnlyIfTorn
INVARIANT RestoredUnlessTorn
INVARIANT PidsRepeatOnlyIfOverlapped
