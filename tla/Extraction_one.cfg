SPECIFICATION FairSpec
CONSTANTS
  N = 3
  NArchives = 5
  Listed = 5
  Keep = FALSE
  Failing = {"index", "unpack", "check"}
  MaxFails = 1
INVARIANTS TypeOK NothingLost AllUnpacked
PROPERTIES Finishes
