\* Two reviews load, change and save the whole file, the later undoes the earlier: violated.
SPECIFICATION Spec
CONSTANTS
  Discoverable <- MCOneAudit
  Decisions = {"rejected"}
  Reviewers = {p1, p2}
  Threads = {t1}
  MaxSaves = 3
  MaxDb = 1
  CanRediscover = FALSE
  CanBreak = FALSE
  SameTick = FALSE
INVARIANT OverlappingDecisionsStay
CHECK_DEADLOCK FALSE
