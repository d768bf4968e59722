SPECIFICATION Spec
CONSTANTS
  Proposals <- MCProposals
  RowsIn <- MCRowsIn
  Classes = 2
  MaxSteps = 1
  MaxCalls = 2
INVARIANTS FreshMeansProved SurvivorsAreChecked BooksBalance
CHECK_DEADLOCK FALSE
