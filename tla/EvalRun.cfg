\* Two calls with every plan of arms, tag and selection; the report, the page
\* and its check at any moment.
CONSTANTS
  Selections <- MCSelections
  Tags <- MCTags
  TagsOf <- MCTagsOf
  Suffixes = {"", "curated"}
  MaxRuns = 2
  NoFile = NoFile
  Broken = Broken
  Unbaked = Unbaked
SPECIFICATION Spec
INVARIANTS OneRecordPerQuestion PageIsEarned Comparable
