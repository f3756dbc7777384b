SPECIFICATION FairSpec
CONSTANTS
  Jobs = {j1}
  Programs <- Answerers
  Feeds = {0, 2}
  Capacity = 1
  GrandChunks = 1
  MaxAnswer = 2
  Deadline = 2
  DrainGrace = 1
INVARIANTS TypeOK OnlyWholeAnswers NeverWedged
PROPERTIES AnswersOnce AnswerIsFresh WaiterEnds ZombiesAreReaped
CHECK_DEADLOCK FALSE
