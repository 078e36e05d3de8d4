SPECIFICATION FairSpec
CONSTANTS
  RingInit = 2
  RingGrow = 2
  MaxEntries = 1
  MaxReopens = 0
PROPERTIES
  QueuedIsHandled
