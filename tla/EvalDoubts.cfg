\* Each of these invariants is violated by itself: TLC stops at the first, so leave one
\* of them uncommented.
CONSTANTS
  Selections <- MCSelections
  Tags <- MCTags
  TagsOf <- MCTagsOf
  Suffixes = {"", "curated"}
  MaxRuns = 2
  NoFile = NoFile
  Broken = Broken
  Unbaked = Unbaked
SPECIFICATION Spec
\* An exception escapes an arm: what was graded before it is lost (violated).
INVARIANT EarnedIsKept
\* A smoke run of one arm is compared with a full run of the other (violated).
\* INVARIANT SameQuestions
\* A page is found current though other records have the same totals (violated).
\* INVARIANT CurrentIsSame
