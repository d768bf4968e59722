SPECIFICATION Spec
CONSTANTS
  Names = {"a", "b"}
  Caller = "discover"
  Providers = {"gemini"}
  MaxRetries = 3
  MaxTurns = 1
  MaxCalls = 1
INVARIANT SignaturesReturn
CHECK_DEADLOCK FALSE
