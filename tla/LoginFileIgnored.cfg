SPECIFICATION Spec
CONSTANTS
  Reader = {r1}
  Writer = {w1}
  LoginLen = 3
  SuccessLen = 4
  DataSize = 4
  MaxCount = 4
INVARIANTS LoginIsAcknowledged
