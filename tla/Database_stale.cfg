SPECIFICATION Spec
CONSTANTS
  c1 = c1
  c2 = c2
  p1 = p1
  p2 = p2
  n1 = n1
  Client = {c1, c2}
  Content <- MCContent
  Hash <- MCHash
  Tag <- MCTag
  Keep = 1
  Period = 2
  MaxTime = 0
  MaxCopies = 2
  MaxCommands = 2
  MaxFailures = 0
  MaxRestarts = 0
CHECK_DEADLOCK FALSE
PROPERTIES
  DeletesWhatWasPicked
