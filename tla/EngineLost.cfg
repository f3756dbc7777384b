SPECIFICATION FairSpec
CONSTANTS
  PaneIds = {p1}
  RuleIds = {"login"}
  Lines = {"login:", "output"}
  Blank = Blank
  NoLine = NoLine
  Anywhere = Anywhere
  Second = 1
  AgeCap = 1
  Terminals = {t1}
  NoTerminal = NoTerminal
  NoPane = NoPane
  Texts <- LoginTexts
  Files <- ExistingFiles
  BadConfig = BadConfig
  Signals = {}
  Faults = {"down"}
  TerminalIdsReported = TRUE
  MaxWatched = 2
  RetryBackoff = 1
  MaxRetryBackoff = 2
  MaxAttempts = 2
PROPERTY EveryTerminalIsServed
