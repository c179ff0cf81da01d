SPECIFICATION FairSpec
CONSTANTS
  Block = 512
  NameField = 100
  MaxFileSize = 2000
  MaxDigits = 8
  Inputs <- MCInputs
  MaxMembers = 2
  CopyBlock = 700
  ShortReads = {300}
  Lengths <- MCLengths
INVARIANTS
  TypeOK
  InOwnSlot
  MessageTellsEntries
  RecordsTellLength
  HeadersTellSize
PROPERTIES
  CopyEnds
