\* Two requests whose clients may leave at any event.
CONSTANTS
  Requests = {1, 2}
  MaxQueries = 1
  Leavers = {2}
  None = None
  ArmLists <- MCArmLists
SPECIFICATION FairSpec
INVARIANTS GateIsMutex OneQuestionAtATime OwnAnswerWhileAllStay StreamGrammar
PROPERTIES EveryRequestEnds
\* All requests have been served.
CHECK_DEADLOCK FALSE
