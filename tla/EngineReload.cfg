SPECIFICATION Spec
CONSTANTS
  PaneIds = {"p1"}
  RuleIds = {"login", "sudo"}
  Lines = {"login:", "sudo:"}
  Blank = Blank
  NoLine = NoLine
  Anywhere = Anywhere
  Second = 1
  AgeCap = 1
  Terminals = {t1}
  NoTerminal = NoTerminal
  NoPane = NoPane
  Texts <- TwoTexts
  Files <- EditedFiles
  BadConfig = BadConfig
  Signals = {"reload", "reset"}
  Faults = {"setup", "flaky"}
  TerminalIdsReported = TRUE
  MaxWatched = 2
  RetryBackoff = 1
  MaxRetryBackoff = 2
  MaxAttempts = 2
INVARIANTS TypeOK AtMostOncePerTerminal OnlyReloadsRearm
