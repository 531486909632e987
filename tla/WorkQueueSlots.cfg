SPECIFICATION FairSpec
CONSTANTS
  q1 = q1  q2 = q2  j1 = j1  j2 = j2
  Procs = {p1}
  Queues = {q1}
  Jobs = {j1, j2}
  QueueOf <- MCQueueOf
  NConcurrent <- OneWorker
  Slots = {s1, s2}
  Outcomes = {TRUE, FALSE}
  Fallback = 1
  MaxTime = 0
  MaxFaults = 1
  NoQueue = NoQueue  NoJob = NoJob  NoSlot = NoSlot
INVARIANTS SlotsAccounted AwaitIsAnswered
CHECK_DEADLOCK FALSE
PROPERTIES EveryJobCompletes
