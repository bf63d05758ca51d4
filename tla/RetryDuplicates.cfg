SPECIFICATION RetrySpec
CONSTANTS
  Runs = {r1, r2}
  MaxClaimAttempts = 1
  ManifestMaxAttempts = 2
  MaxCommitConflicts = 2
  ManifestAppendBatchSize = 1
  Counts = {2}
  MaxSegments = 1
SYMMETRY RunSymmetry
INVARIANTS
  ExactlyOnce
CHECK_DEADLOCK FALSE
