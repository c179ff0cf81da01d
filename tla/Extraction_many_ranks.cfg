SPECIFICATION FairSpec
CONSTANTS
  N = 4
  NArchives = 5
  Listed = 5
  Keep = FALSE
  Failing = {}
  MaxFails = 0
PROPERTIES Finishes
