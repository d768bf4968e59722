\* Every dataset of a few rows of each part and every profile of it, one reload;
\* every column over four values against two keys; every pair of small tables.
\* Each ends: deadlock is not checked.
SPECIFICATION Spec
CONSTANTS
  Sizes <- MCSizes
  LegalForms = {", Inc.", " Inc"}
  Codes = {4, 5}
  Today = 4
  Cutover = 2
  LastReturn = 0
  MaxVersions = 3
  Broken = {2}
  MinReturned = 1
  Numbers = {n12, n12dot}
  Junk = {NA, blank}
  Batch = 2
  NULL = NULL
  Columns <- MCColumns
  TextColumns <- MCText
  NameColumns <- MCNames
  Comment <- MCComment
  StatusLike <- MCStatusLike
  Letters <- MCLetters
  DomainMax = 2
  NameMin = 2
  Curated = TRUE
  Values <- MCValues
  MaxCount = 2
  Datasets <- MCDatasets
  Parents <- MCParents
  Echoes <- MCEchoes
  MinDistinct = 2
  CanFail = TRUE
  SigDigits = 2
  Results <- MCResults
  Null = Null
INVARIANTS DatasetSound WarningsAreTrue PlantedIsReported JoinsAreHonest GradesAreExact
CHECK_DEADLOCK FALSE
