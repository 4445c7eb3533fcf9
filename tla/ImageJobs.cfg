SPECIFICATION FairSpec
CONSTANTS
  first = first
  second = second
  Jobs <- TwoJobs
  MaxOpen = 1
  Submits = 3
  Budgets <- LongAndShort
CHECK_DEADLOCK FALSE
INVARIANTS JobsAccounted
PROPERTIES EndedOnce NotAskedTwice PlaceholdersEnd
