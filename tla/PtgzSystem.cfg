SPECIFICATION SysSpec
CONSTANTS
  N = 2
  NFiles = 5
  NumWanted = 3
  Others = {1}
  Fragile = {1}
  MaxRuns = 2
  IOErrors = TRUE
  NX = 2
  Failing = {}
  MaxFails = 0
INVARIANTS ArchiveComplete IndexListsArchives NothingLeftOver
PROPERTIES RemovedOnlyWhenPacked BackupSpec Restores
