SPECIFICATION SlotSpec
CONSTANTS
  SlotCap = 3
  GenMod = 2
  NoHandle = NoHandle
  h1 = h1
  Va <- MCVa
  Handle <- MCHandle
  Size <- MCSize
INVARIANTS
  SlotTypeOK
  CountExact
  PendingVirgin
PROPERTIES
  AddressStable
