SPECIFICATION Spec
CONSTANTS
  Capacity = 4
  Lens = {0, 1, 2, 3}
  MaxPushes = 10
INVARIANTS
  HeadBelowTail
  FitsBuffer
PROPERTIES
  CopiesStable
  IsFifo
