SPECIFICATION Spec
CONSTANTS
  w1 = w1  w2 = w2  m1 = m1
  Workers = {w1, w2}
  NFiles = 2
  Memory = {}
  Size <- SmallSizes
  QueueCap = 1
  CheckEvery = 2
  MaxFileSize = 2
  MaxTotalSize = 4
  Faults = {"download"}
  None = None
INVARIANT QueuedAreAdded
CHECK_DEADLOCK FALSE
