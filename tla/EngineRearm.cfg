SPECIFICATION Spec
CONSTANTS
  PaneIds = {p1}
  RuleIds = {"login"}
  Lines = {"login:", "output"}
  Blank = Blank
  NoLine = NoLine
  Anywhere = Anywhere
  Second = 1
  AgeCap = 1
  Terminals = {t1}
  NoTerminal = NoTerminal
  NoPane = NoPane
  Texts <- LoginTexts
  Files <- RepeatFiles
  BadConfig = BadConfig
  Signals = {"reload"}
  Faults = {}
  TerminalIdsReported = TRUE
  MaxWatched = 2
  RetryBackoff = 1
  MaxRetryBackoff = 2
  MaxAttempts = 2
INVARIANT NeverActsOnSettled
