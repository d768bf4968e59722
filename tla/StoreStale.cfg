SPECIFICATION Spec
CONSTANTS
  Discoverable <- MCTwoAudits
  Decisions = {"rejected"}
  Reviewers = {p1}
  Threads = {t1}
  MaxSaves = 2
  MaxDb = 2
  CanRediscover = FALSE
  CanBreak = FALSE
  SameTick = FALSE
INVARIANT ServedMatchesDb
CHECK_DEADLOCK FALSE
