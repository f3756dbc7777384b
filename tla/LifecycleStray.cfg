SPECIFICATION Spec
CONSTANTS
  Pids = {1, 2, 3, 4}
  NoPid = NoPid
  Commands = {"start", "stop"}
  MaxCommands = 3
  Late = {}
  Overlap = TRUE
  MaxKills = 1
PROPERTY BusyLockVouchesForPidfile
CHECK_DEADLOCK FALSE
