SPECIFICATION Spec
CONSTANTS
  q1 = q1  q2 = q2  j1 = j1  j2 = j2
  Procs = {p1, p2}
  Queues = {q1}
  Jobs = {j1}
  QueueOf <- MCQueueOf
  NConcurrent <- OneWorker
  Slots = {s1}
  Outcomes = {TRUE, FALSE}
  Fallback = 1
  MaxTime = 0
  MaxFaults = 1
  NoQueue = NoQueue  NoJob = NoJob  NoSlot = NoSlot
INVARIANTS ExclusiveRun RepeatsNeedFaults
PROPERTIES ImplementsLifecycle
CHECK_DEADLOCK FALSE
