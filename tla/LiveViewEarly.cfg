SPECIFICATION ViewSpec
CONSTANTS
  Scripts <- MCOneScript
  MaxRuns = 2
  DeepLink = TRUE
  EarlyClick = TRUE
INVARIANT ResultsWithTheirCalls
CHECK_DEADLOCK FALSE
