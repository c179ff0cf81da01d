SPECIFICATION FairSpec
CONSTANTS
  NWorkers = 2
  NFiles = 7
  Size <- MCSize
  Layout <- MCLayout
  MaxJobsInFlight = 2
  MaxFilesInJob = 3
  TargetJobSize = 3
  Eager = TRUE
  IOErrors = TRUE
INVARIANTS
  TypeOK
  EveryAckAwaited
  TagsPairAcks
  WorkerQuitsDrained
  IndexLocatesMembers
PROPERTIES
  TarSpec
  Finishes
