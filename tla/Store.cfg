\* Discoveries, a reviewer and a serving thread; no writer dies in the middle of the text.
SPECIFICATION Spec
CONSTANTS
  Discoverable <- MCTwoAudits
  Decisions = {"approved", "rejected"}
  Reviewers = {p1}
  Threads = {t1}
  MaxSaves = 2
  MaxDb = 2
  CanRediscover = TRUE
  CanBreak = FALSE
  SameTick = FALSE
INVARIANTS CallsAreServed
\* The bounds on saves and versions are reached.
CHECK_DEADLOCK FALSE
