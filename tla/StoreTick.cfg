\* A load between two writes of one tick is served for ever: violated.
SPECIFICATION Spec
CONSTANTS
  Discoverable <- MCOneAudit
  Decisions = {"rejected"}
  Reviewers = {p1, p2}
  Threads = {t1}
  MaxSaves = 3
  MaxDb = 1
  CanRediscover = FALSE
  CanBreak = FALSE
  SameTick = TRUE
INVARIANT CacheSound
CHECK_DEADLOCK FALSE
