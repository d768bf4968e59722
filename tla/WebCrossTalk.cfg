CONSTANTS
  Requests = {1, 2}
  MaxQueries = 1
  Leavers = {1}
  None = None
  ArmLists <- MCOneArm
SPECIFICATION Spec
INVARIANT OwnAnswer
CHECK_DEADLOCK FALSE
