\* Each of these invariants is violated by itself: TLC stops at the first, so leave one
\* of them uncommented.
SPECIFICATION Spec
CONSTANTS
  Sizes <- MCSizes
  LegalForms = {", Inc.", " Inc"}
  Codes = {4, 5}
  Today = 4
  Cutover = 2
  LastReturn = 0
  MaxVersions = 3
  Broken = {2}
  MinReturned = 1
  Numbers = {n12, n12dot}
  Junk = {NA, blank}
  Batch = 2
  NULL = NULL
  Columns <- MCColumns
  TextColumns <- MCText
  NameColumns <- MCNames
  Comment <- MCComment
  StatusLike <- MCStatusLike
  Letters <- MCLetters
  DomainMax = 2
  NameMin = 2
  Curated = TRUE
  Values <- MCValues
  MaxCount = 2
  Datasets <- MCDatasets
  Parents <- MCParents
  Echoes <- MCEchoes
  MinDistinct = 2
  CanFail = TRUE
  SigDigits = 2
  Results <- MCBoundary
  Null = Null
\* Nothing here runs for ever.
CHECK_DEADLOCK FALSE
\* Close numbers on both sides of a boundary of rounding do not match: violated.
INVARIANT AbsorbsNoise
\* A rival whose query failed is not named: violated.
\* INVARIANT AmbiguityIsNeverSilent
\* A second key whose name carries a legal form is not among the duplicates reported: violated.
\* INVARIANT DuplicatesAreReported
\* Two companies that share a name are reported as one: violated.
\* INVARIANT NamesakesAreNotDuplicates
\* Values inside a documented range are called undocumented: violated.
\* INVARIANT RangesAreUnderstood
\* A customer said to have come back may be paused: violated.
\* INVARIANT ReturnedAreActive
