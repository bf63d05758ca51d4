SPECIFICATION LiveSpec
CONSTANTS
  a = a
  b = b
  c = c
  d = d
  Calls = {a, b, c, d}
  Sizes = {0, 1, 2}
  MaxInFlightBytes = 2
  MaxInFlightBatches = 2
  FlushBytes = 0
  SegmentMaxBytes = 1
  ManifestAppendBatchSize = 0
  UploadConcurrency = 1
PROPERTIES
  AppendsReturn
  AppendsResolve
  CloseReturns
