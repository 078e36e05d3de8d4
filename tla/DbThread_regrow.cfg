SPECIFICATION Spec
CONSTANTS
  RingInit = 2
  RingGrow = 2
  MaxEntries = 2
  MaxReopens = 1
INVARIANTS
  RingInBounds
