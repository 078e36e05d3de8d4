SPECIFICATION FairSpec
CONSTANTS
  RingInit = 2
  RingGrow = 1
  MaxEntries = 5
  MaxReopens = 2
INVARIANTS
  TypeOK
  Lossless
  AtMostOnce
  DrainsBeforeExit
  DbHandleSafe
  PushesToLiveThread
  JoinsRealThread
  Protocol
PROPERTIES
  ArmedEntryHandled
  StopCompletes
  ImplementsFifo
