SPECIFICATION WindowSpec
CONSTANTS
  Leaf = 4
  LadderFloor = 1
  KCap = 0
  TwoAdic = TRUE
  MegaOn = TRUE
  MegaLeaves = 2
  BandMod = 4
  MaxCommitted = 12
  MaxRefs = 2
  NoHandle = NoHandle
  h1 = h1
  Va <- MCVa
  Handle <- MCHandle
  Size <- MCSize
INVARIANTS
  PackTypeOK
  ArenaBounded
  WindowCoherent
  ChargesDisjoint
  ChargesContained
