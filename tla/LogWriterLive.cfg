SPECIFICATION FairSpec
CONSTANTS
  Runs = {r1, r2}
  MaxClaimAttempts = 2
  ManifestMaxAttempts = 2
  MaxCommitConflicts = 2
  ManifestAppendBatchSize = 1
  Counts = {2}
  MaxSegments = 1
PROPERTIES
  CallsReturn
CHECK_DEADLOCK FALSE
