SPECIFICATION Spec
CONSTANTS
  Discoverable <- MCTwoAudits
  Decisions = {"rejected"}
  Reviewers = {p1}
  Threads = {t1}
  MaxSaves = 2
  MaxDb = 1
  CanRediscover = FALSE
  CanBreak = TRUE
  SameTick = FALSE
INVARIANT NeverRaises
CHECK_DEADLOCK FALSE
