SPECIFICATION FairHarness
CONSTANTS
  Leaf = 8
  LadderFloor = 2
  Granule = 8
  SlotCap = 8
  GenMod = 8
  KCap = 0
  TwoAdic = TRUE
  MegaOn = TRUE
  MegaLeaves = 3
  MoonReserve = 0
  BandMod = 16
  MaxCommitted = 0
  MaxRefs = 0
  PackOn = TRUE
  GqaOn = FALSE
  GqaHeads = 8
  BucketCap = 4
  DriverFails = TRUE
  GiveBackFails = TRUE
  NoHandle = NoHandle
  Main = main
  PoolSize = 6
  OomAttempts = 2
  ChurnLive = 3
  ChurnCycles = 0
  h1 = h1
  h2 = h2
  h3 = h3
  h4 = h4
  Thread <- OneThread
  Setups <- UniformSetups
  Sizes <- BenchSizes
  Va <- MCVa
  Handle <- ThreeHandles
  Size <- MCSize
INVARIANTS
  SpansDisjoint
  LiveSlotsBacked
  CountIsCommitted
  BudgetKept
PROPERTIES
  BenchEnds
