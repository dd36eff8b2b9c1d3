SPECIFICATION Spec
CONSTANTS
  Procs = {p1, p2}
  NULL = NULL
  Sites = {s1, s2}
  Entry = Entry
  Values = {v1, v2}
  Zero = Zero
  Other = Other
  On = On
  Off = Off
  StackWords = 23
  Lowest = 10
  Depths = {12}
CHECK_DEADLOCK FALSE
INVARIANT ContextRestored
INVARIANT StackContentsKept
