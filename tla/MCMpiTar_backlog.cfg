SPECIFICATION FairSpec
CONSTANTS
  NWorkers = 1
  NFiles = 11
  Size <- MCSize
  Layout <- MCLayout
  MaxJobsInFlight = 2
  MaxFilesInJob = 3
  TargetJobSize = 3
  Eager = FALSE
  IOErrors = FALSE
INVARIANTS
  NoAbort
  OneReceivePerJob
  BoundedBacklog
  ProgressWithinTotal
  SendBufferStable
PROPERTIES
  Finishes
