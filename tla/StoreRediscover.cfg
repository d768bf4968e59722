SPECIFICATION Spec
CONSTANTS
  Discoverable <- MCTwoAudits
  Decisions = {"approved", "rejected"}
  Reviewers = {p1}
  Threads = {t1}
  MaxSaves = 2
  MaxDb = 1
  CanRediscover = TRUE
  CanBreak = FALSE
  SameTick = FALSE
INVARIANT DecisionFollowsClaim
CHECK_DEADLOCK FALSE
