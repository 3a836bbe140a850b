SPECIFICATION FairSpec
CONSTANTS
  Reader = {r1, r2}
  Writer = {w1}
  LoginLen = 2
  SuccessLen = 4
  DataSize = 3
  MaxCount = 3
INVARIANTS TypeOK NoByteSkipped IdGivesOnce
PROPERTIES ReadersFinish
