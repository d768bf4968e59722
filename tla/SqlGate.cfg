SPECIFICATION Spec
CONSTANTS
  Queries <- MCQueries
  MaxRows = 2
  ShownRows = 1
  RowBound = 3
  TermLists <- MCTermLists
  CanSkip = TRUE
INVARIANTS OnlyReadsAreSent AnswersCarryNotes
