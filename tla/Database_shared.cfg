SPECIFICATION Spec
CONSTANTS
  c1 = c1
  c2 = c2
  p1 = p1
  p2 = p2
  n1 = n1
  Client = {c1, c2}
  Content <- MCContent
  Hash <- MCHash
  Tag <- MCTag
  Keep = 1
  Period = 2
  MaxTime = 1
  MaxCopies = 4
  MaxCommands = 2
  MaxFailures = 1
  MaxRestarts = 1
CHECK_DEADLOCK FALSE
SYMMETRY MCSymmetry
INVARIANTS
  TypeOK
  Consistent
  TransactionClosed
  DaemonKeepsTagged
  PruneFrequency
PROPERTIES
  OrphansOnlyFromTag
  PruneLimits
  LatestKept
