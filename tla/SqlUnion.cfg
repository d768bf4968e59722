SPECIFICATION Spec
CONSTANTS
  Queries <- MCUnion
  MaxRows = 2
  ShownRows = 1
  RowBound = 3
  TermLists <- MCTermLists
  CanSkip = FALSE
INVARIANT NoLimitIsCapped
