SPECIFICATION MemorySpec
CONSTANTS
  AddressLimit = 50000
  KernelStart = 8192
  KernelEnd = 20479
  MemoryMaps <- AllMaps
  Infos <- AllInfos
  Placements = {"clear"}
  Callers = {c1, c2}
  Virts <- MCVirts
  Indices = {0, 1}
  KernelHalf = {1}
  BootTables <- MCBootTables
  IdentityPages = 9
  Devices <- Device
  Flags <- PresentFlags
  Switchable = {"idle", "walk", "flush"}
  MayRemap = FALSE
  MaxData = 1
  MaxSpaces = 1
  Unmapped = Unmapped
INVARIANT TypeOK
INVARIANT CountersAgree
INVARIANT ExclusiveUse
INVARIANT NoPageLeaked
INVARIANT WalkFindsTags
INVARIANT TablesAreATree
INVARIANT TlbCoherent
 
PROPERTY MapTakesEffect
PROPERTY ImplementsAddressSpace
PROPERTY ImplementsPmm
SYMMETRY CallerSymmetry
CHECK_DEADLOCK FALSE
