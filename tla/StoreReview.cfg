\* One discovery, two reviewers who may die anywhere, and a serving thread.
SPECIFICATION Spec
CONSTANTS
  Discoverable <- MCOneAudit
  Decisions = {"rejected"}
  Reviewers = {p1, p2}
  Threads = {t1}
  MaxSaves = 3
  MaxDb = 1
  CanRediscover = FALSE
  CanBreak = TRUE
  SameTick = FALSE
INVARIANTS DecisionsStay ReviewKeepsProofs CacheSound
\* The bound on saves is reached.
CHECK_DEADLOCK FALSE
