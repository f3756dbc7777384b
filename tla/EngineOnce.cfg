SPECIFICATION Spec
CONSTANTS
  PaneIds = {p1, p2}
  RuleIds = {"login"}
  Lines = {"login:", "output"}
  Blank = Blank
  NoLine = NoLine
  Anywhere = Anywhere
  Second = 1
  AgeCap = 1
  Terminals = {t1, t2}
  NoTerminal = NoTerminal
  NoPane = NoPane
  Texts <- LoginTexts
  Files <- OnceFiles
  BadConfig = BadConfig
  Signals = {"reset", "stop"}
  Faults = {"crash", "flaky"}
  TerminalIdsReported = TRUE
  MaxWatched = 2
  RetryBackoff = 1
  MaxRetryBackoff = 2
  MaxAttempts = 2
SYMMETRY Symmetric
INVARIANTS LedgerIsDurable NeverActsOnSettled
PROPERTY FiresOnceUntilReset
