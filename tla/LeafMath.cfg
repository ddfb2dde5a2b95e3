SPECIFICATION Spec
CHECK_DEADLOCK FALSE
CONSTANTS
  Leaves = {3, 4, 5, 8, 16, 20}
  Floors = {1, 2, 4}
  MaxReq = 42
  MaxBand = 9
INVARIANTS
  PlacementFits
  HarnessRoundsAlike
  BandsTile
  MaskIsRemainder
  UniformCap
  EvalNeverUncapped
  WindowsHoldTheirLeaves
PROPERTIES
  PlacementMonotone
