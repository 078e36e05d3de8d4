SPECIFICATION Spec
CONSTANTS
  r1 = r1
  r2 = r2
  Scenario <- MCScenario
  TextPrefix <- MCTextPrefix
  PreviewLen = 5
  Reader = {r1, r2}
  Nonblocking = {r2}
  MaxChanges = 1
INVARIANTS
  TypeOK
  OutputWhole
  LinesParse
  PreviewFaithful
  StatementsReleased
  CopyServes
PROPERTIES
  CopyEnds
