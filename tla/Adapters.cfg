SPECIFICATION Spec
CONSTANTS
  Names = {"a", "b"}
  Caller = "agent"
  Providers = {"gemini", "anthropic"}
  MaxRetries = 3
  MaxTurns = 2
  MaxCalls = 2
INVARIANTS RequestsAreAccepted SignaturesReturn OnlyHopelessRaises
CHECK_DEADLOCK FALSE
