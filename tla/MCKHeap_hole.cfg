SPECIFICATION Spec
CONSTANTS
  Callers = {c1, c2}
  KernelStart = 24576
  KernelEnd = 28000
  MemoryMap <- WithHole
  Sizes <- Mixed
  AlignedSizes <- Half
  Alignments = {3, 256}
  MaxLive = 3
  MaxDrift = 16
  OtherUsers = FALSE
  KeepTorn = TRUE
INVARIANT OwnedMemory
SYMMETRY CallerSymmetry
