SPECIFICATION FairSpec
CONSTANTS
  Driver = {"misc", "debugfs", "reverse", "mymounts", "hid", "hello", "task"}
  Fd = {f1}
  Keyboard = {k1}
  Supported = {k1}
  Sleeps = 2
  MaxBuilt = 2
INVARIANTS TypeOK  BusyIsBacked NodesAreBacked UnloadIsSafe KeyboardsAreBacked
PROPERTIES LoadsAndUnloadsEnd KeyboardLoads KeyboardBinds
