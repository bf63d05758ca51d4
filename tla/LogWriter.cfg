SPECIFICATION Spec
CONSTANTS
  Runs = {r1, r2}
  MaxClaimAttempts = 2
  ManifestMaxAttempts = 2
  MaxCommitConflicts = 2
  ManifestAppendBatchSize = 2
  Counts = {2}
  MaxSegments = 2
SYMMETRY RunSymmetry
INVARIANTS
  IInv
  DenseSequences
  ExactlyOnce
  AckedIsDurable
  OneOwnerPerEpoch
  NoZombieWrites
  CommitsInOrder
  GroupsAreAtomic
PROPERTIES
  WritesOnlyAdvance
  ImplementsAppendLog
CHECK_DEADLOCK FALSE
