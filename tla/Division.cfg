SPECIFICATION Spec
CONSTANTS
  MaxFiles = 45
  MaxRanks = 4
  MaxThreads = 2
INVARIANTS
  ListsPartitionFiles
  BlocksPartitionArchives
  BuiltAtMostOnce
  LeftOutOnlyIfShort
