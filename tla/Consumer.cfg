SPECIFICATION FairConsumerSpec
CONSTANTS
  StartAt = 0
  CursorSaveInterval = 1
  MaxRecordsPerPoll = 2
  HasCursor = FALSE
  Counts = {1, 2}
  LegacyRecords = {}
  MaxEntries = 3
  BucketSize = 3
  MaxRows = 2
INVARIANTS
  FilesHoldTheirRange
  
  
  OneShotIsComplete
PROPERTIES
  NothingArrivesLate
  ReachesFiles
