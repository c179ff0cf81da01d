SPECIFICATION FairSpec
CONSTANTS
  N = 1
  NFiles = 5
  NumWanted = 3
  Others = {}
  Fragile = {}
  MaxRuns = 1
  IOErrors = FALSE
INVARIANTS ArchiveComplete
