SPECIFICATION WindowSpec
CONSTANTS
  Leaf = 4
  LadderFloor = 1
  KCap = 2
  TwoAdic = FALSE
  MegaOn = TRUE
  MegaLeaves = 2
  BandMod = 4
  MaxCommitted = 12
  MaxRefs = 2
  NoHandle = NoHandle
  h1 = h1
  Va <- MCVa
  Handle <- MCHandle
  Size <- MCSize
PROPERTIES
  LeafWithinKCap
