SPECIFICATION FairSpec
CONSTANTS
  Pids = {1, 2, 3, 4, 5}
  NoPid = NoPid
  Commands = {"start", "run", "restart", "stop", "reload", "reset", "status"}
  MaxCommands = 3
  Late = {"stop"}
  Overlap = TRUE
  MaxKills = 1
INVARIANTS TypeOK AtMostOneDaemon RunningDaemonIsFound
PROPERTIES StopIsObeyed RacingStartsComeUp DaemonsTakeTurns
CHECK_DEADLOCK FALSE
