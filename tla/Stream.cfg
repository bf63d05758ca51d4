SPECIFICATION FairSpec
CONSTANTS
  Runners = {r1, r2}
  Buffer = 1
  MaxSeq = 3
  FileRows = {1, 2}
INVARIANTS
  RowsReturnedOnce
  WatermarkIsAccountedFor
  
PROPERTIES
  RowsAreReturned
CHECK_DEADLOCK FALSE
