SPECIFICATION ClientSpec
CONSTANTS
  Leaf = 2
  LadderFloor = 1
  Granule = 2
  SlotCap = 4
  GenMod = 2
  KCap = 0
  TwoAdic = FALSE
  MegaOn = TRUE
  MegaLeaves = 2
  MoonReserve = 0
  BandMod = 2
  MaxCommitted = 6
  MaxRefs = 2
  PackOn = TRUE
  GqaOn = FALSE
  GqaHeads = 2
  BucketCap = 2
  CallBudget = 0
  DriverFails = FALSE
  GiveBackFails = FALSE
  NoHandle = NoHandle
  NoBuffer = NoBuffer
  t1 = t1
  t2 = t2
  b1 = b1
  b2 = b2
  h1 = h1
  h2 = h2
  Thread <- TwoThreads
  Buffer <- TwoBuffers
  Owner <- OneEach
  Request <- Small
  Va <- MCVa
  Handle <- MCHandle
  Size <- MCSize
INVARIANTS
  NoOrphanSlots
