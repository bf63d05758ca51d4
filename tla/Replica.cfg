SPECIFICATION FairSpec
CONSTANTS
  StartAt = 1
  CursorSaveInterval = 2
  MaxRecordsPerPoll = 3
  HasCursor = TRUE
  Counts = {1, 2, 3}
  LegacyRecords = {2}
  MaxEntries = 4
INVARIANTS
  AppliesInOrder
  PositionsAreApplied
PROPERTIES
  SavedIsNotReapplied
  CatchesUp
