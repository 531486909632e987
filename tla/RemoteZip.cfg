SPECIFICATION FairSpec
CONSTANTS
  w1 = w1  w2 = w2  m1 = m1
  Workers = {w1, w2}
  NFiles = 3
  Memory = {m1}
  Size <- MixedSizes
  QueueCap = 1
  CheckEvery = 2
  MaxFileSize = 2
  MaxTotalSize = 4
  Faults = {"temp", "download", "add", "disk", "publish", "cancel"}
  None = None
INVARIANTS ReturnedZipIsSound MissingIsExplained
PROPERTY RunReturns
CHECK_DEADLOCK FALSE
