SPECIFICATION SinkSpec
CONSTANTS
  StartAt = 0
  CursorSaveInterval = 1
  MaxRecordsPerPoll = 0
  HasCursor = FALSE
  Counts = {1, 2}
  LegacyRecords = {}
  MaxEntries = 3
  BucketSize = 3
  MaxRows = 2
INVARIANTS
  CursorFollowsFiles
