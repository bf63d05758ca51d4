SPECIFICATION CalmSinkSpec
CONSTANTS
  StartAt = 0
  CursorSaveInterval = 1
  MaxRecordsPerPoll = 0
  HasCursor = FALSE
  Counts = {1}
  LegacyRecords = {2}
  MaxEntries = 3
  BucketSize = 3
  MaxRows = 1
PROPERTIES
  OverwritesIdentically
