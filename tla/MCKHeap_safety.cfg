SPECIFICATION Spec
CONSTANTS
  Callers = {c1, c2}
  KernelStart = 4096
  KernelEnd = 9000
  MemoryMap <- Contiguous
  Sizes <- Mixed
  AlignedSizes <- Half
  Alignments = {3, 256}
  MaxLive = 3
  MaxDrift = 16
  OtherUsers = TRUE
  KeepTorn = FALSE
INVARIANT OwnedUntilTorn
INVARIANT TiledUntilTorn
INVARIANT CoalescedUntilTorn
INVARIANT FitUntilTorn
PROPERTY AllocatorUntilTorn
SYMMETRY CallerSymmetry
