SPECIFICATION Spec
CONSTANTS
  Proposals <- MCWide
  RowsIn <- MCRowsIn
  Classes = 1
  MaxSteps = 1
  MaxCalls = 1
INVARIANT ContractHolds
CHECK_DEADLOCK FALSE
