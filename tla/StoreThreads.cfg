SPECIFICATION Spec
CONSTANTS
  Discoverable <- MCTwoAudits
  Decisions = {"rejected"}
  Reviewers = {p1}
  Threads = {t1, t2}
  MaxSaves = 2
  MaxDb = 1
  CanRediscover = FALSE
  CanBreak = FALSE
  SameTick = FALSE
INVARIANT ServedWasActive
CHECK_DEADLOCK FALSE
