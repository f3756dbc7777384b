SPECIFICATION FairSpec
CONSTANTS
  Pids = {1, 2, 3}
  NoPid = NoPid
  Commands = {"run", "stop", "restart"}
  MaxCommands = 3
  Late = {}
  Overlap = FALSE
  MaxKills = 0
PROPERTY RestartComesUp
CHECK_DEADLOCK FALSE
