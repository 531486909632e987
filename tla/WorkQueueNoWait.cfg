SPECIFICATION SpecConnected
CONSTANTS
  q1 = q1  q2 = q2  j1 = j1  j2 = j2
  Procs = {p1}
  Queues = {q1}
  Jobs = {j1}
  QueueOf <- MCQueueOf
  NConcurrent <- OneWorker
  Slots = {s1, s2}
  Outcomes = {TRUE}
  Fallback = 1
  MaxTime = 3
  MaxFaults = 0
  NoQueue = NoQueue  NoJob = NoJob  NoSlot = NoSlot
SYMMETRY Symmetry
INVARIANTS NoWaitForFallback
CHECK_DEADLOCK FALSE
