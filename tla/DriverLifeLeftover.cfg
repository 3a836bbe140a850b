SPECIFICATION Spec
CONSTANTS
  Driver = {"debugfs"}
  Fd = {f1, f2}
  Keyboard = {}
  Supported = {}
  Sleeps = 0
  MaxBuilt = 1
INVARIANTS UnloadCleansUp
