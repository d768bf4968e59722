\* Two questions, the first of which may be left behind, and a reseed at any time.
SPECIFICATION Spec
CONSTANTS
  Workers = {w1, w2}
  Leavers = {w1}
  Tables <- MCTables
  Versions = 2
  Data <- MCData
  Ranged = {"dates"}
  Graph <- MCGraph
  DomainLimit = 1
  SampleSize = 1
  Nobody = Nobody
  None = None
INVARIANTS BuiltOnce CardIsTrue OneJoinGraph
PROPERTY EveryCallerReturns
\* The workers end.
CHECK_DEADLOCK FALSE
