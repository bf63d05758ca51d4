SPECIFICATION Spec
CONSTANTS
  Calls = {a, b, c}
  Sizes = {0, 1, 2, 4}
  MaxInFlightBytes = 3
  MaxInFlightBatches = 2
  FlushBytes = 2
  SegmentMaxBytes = 2
  ManifestAppendBatchSize = 1
  UploadConcurrency = 2
SYMMETRY CallSymmetry
INVARIANTS
  BudgetIsExact
  LogFollowsAppends
  SequencesAreTrue
  NoSuccessAfterFailure
  ResolvedOnce
  CloseDrains
