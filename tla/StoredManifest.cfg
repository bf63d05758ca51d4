SPECIFICATION Spec
CONSTANTS
  Users = {u1, u2}
  None = None
  Retainers = {u1}
  Counts = {1, 2}
  OldEntries = 2
  MaxAppends = 2
  MaxEpoch = 1
  MaxWrites = 3
INVARIANTS
  FormatIsInvisible
  StructsAreSound
  LocateIsExact
  ReplayIsComplete
  TruncationKeepsTheRest
  SegmentsReadBack
CHECK_DEADLOCK FALSE
