\* Each of these invariants is violated by itself: TLC stops at the first, so leave one
\* of them uncommented.
SPECIFICATION Spec
CONSTANTS
  Workers = {w1, w2}
  Leavers = {w1}
  Tables <- MCTables
  Versions = 2
  Data <- MCData
  Ranged = {"dates"}
  Graph <- MCGraph
  DomainLimit = 1
  SampleSize = 1
  Nobody = Nobody
  None = None
\* Nothing here runs for ever.
CHECK_DEADLOCK FALSE
\* A table that cannot be counted ends the arm.
INVARIANT CardNeverBreaksRun
\* Two workers infer the joins at once.
\* INVARIANT OneJoinGraphAlways
