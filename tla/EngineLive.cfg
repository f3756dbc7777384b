SPECIFICATION FairSpec
CONSTANTS
  PaneIds = {"p1", "p2"}
  RuleIds = {"login", "sudo"}
  Lines = {"login:", "sudo:"}
  Blank = Blank
  NoLine = NoLine
  Anywhere = Anywhere
  Second = 1
  AgeCap = 1
  Terminals = {t1, t2}
  NoTerminal = NoTerminal
  NoPane = NoPane
  Texts <- BothTexts
  Files <- MixedFiles
  BadConfig = BadConfig
  Signals = {}
  Faults = {"recycle", "disk"}
  TerminalIdsReported = TRUE
  MaxWatched = 1
  RetryBackoff = 1
  MaxRetryBackoff = 2
  MaxAttempts = 2
INVARIANTS InheritsNothing WritesAreCapped OnlyListedIsKept
PROPERTIES ArmedPromptIsDealtWith
