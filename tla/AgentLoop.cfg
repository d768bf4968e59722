\* Two questions on one toolbox, five steps, up to two tool calls per reply.
CONSTANTS
  MaxSteps = 5
  MaxQuestions = 2
  MaxCalls = 2
  Text = {t1, t2}
  None = None
SPECIFICATION FairSpec
INVARIANTS OwnQuestion SqlOfRows HistoryWellFormed NudgedBeforeLast HonestOutcome
PROPERTIES EveryQuestionEnds ImplementsGradedRun
\* The last question ends and nobody asks another.
CHECK_DEADLOCK FALSE
