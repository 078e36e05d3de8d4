SPECIFICATION Spec
CONSTANTS
  r1 = r1
  r2 = r2
  Scenario <- MCSecure
  TextPrefix <- MCTextPrefix
  PreviewLen = 5
  Reader = {r1}
  Nonblocking = {}
  MaxChanges = 1
INVARIANTS
  SecureDeleteErases
