\* Run is clicked once the page knows the server's health.
SPECIFICATION FairViewSpec
CONSTANTS
  Scripts <- MCScripts
  MaxRuns = 2
  DeepLink = TRUE
  EarlyClick = FALSE
INVARIANTS EventsOnceInOrder ResultsWithTheirCalls OneQuestionOnScreen
PROPERTY PanelRecovers
CHECK_DEADLOCK FALSE
