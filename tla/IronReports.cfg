SPECIFICATION ReportsSpec
CONSTANTS
  Leaf = 8
  LadderFloor = 2
  Points = {50, 70}
  TopPoint = 70
  GpuTotal = 40
  IsoPool = 9
  Slice = 2
  Latencies = {0, 3, 4, 5}
  Rates = {20, 21}
  Watts = {0, 1, 2}
  SlotCounts = {0, 1, 2}
INVARIANTS
  EmittersAgree
  PhysicsBacked
  MoreLogicalForLess
  MatchedLiberation
