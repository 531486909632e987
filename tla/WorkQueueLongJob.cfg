SPECIFICATION SpecLongJob
CONSTANTS
  q1 = q1  q2 = q2  j1 = j1  j2 = j2
  Procs = {p1}
  Queues = {q1, q2}
  Jobs = {j1, j2}
  QueueOf <- MCQueueOf
  NConcurrent <- TwoOnQ1
  Slots = {s1, s2}
  Outcomes = {TRUE}
  Fallback = 1
  MaxTime = 1
  MaxFaults = 0
  NoQueue = NoQueue  NoJob = NoJob  NoSlot = NoSlot
PROPERTIES LongJobBlocksNobody
CHECK_DEADLOCK FALSE
