SPECIFICATION MCSpec
CONSTANTS
  MaxCallbacks = 2
  MaxRounds = 2
  KKeys = {k1}
  KCount = 2
  KCost = 2
  MaxWait = 1
  KCallers = {p, q}
  KMinute = 3
  KNone = KNone
  MaxClock = 9
  LCallers = {p, q}
  LCount = 2
  MaxFills = 3
  MaxGrants = 5
  NonceKeys = {p, q}
  NonceTtl = 2
  NonceNever = NonceNever
  MaxNonceTime = 6
  MaxInputs = 3
  S3Limit = 2
  Requests = {p, q}
  WsMax = 1
  Triggers = {1, 2}
  QueueSize = 2
  MaxTicks = 3
  Jobs = {j1, j2}
  Users = {u1, u2}
  NoJob = NoJob
  MaxLockErrors = 8
  AccessLife = 1
  RefreshLife = 2
  MaxSessionTime = 5
  Roles = {"clerk", "admin"}
  UserRoles = {"clerk"}
  MaxRows = 3
  Places = {0, 1, 3}
  Groups = {1, 2}
  Printers = {p, q}
  MaxLines = 2
  LogCap = 2
INVARIANTS
  TxCallbacksFollowOutcome
  TxReplyMatches
  LimiterWithinRate
  NonceOnce
  S3ReportsTruth
  WsSlotsExact
  SessionEnds
  ListsAgree
  PagesAgree
  
  AnswersAgree
  LogKeepsOrder
PROPERTIES
  KeyedRefines
  PlacesSettle
  WsSlotReturned
  WorkerSettles
  UsersReturn
CHECK_DEADLOCK FALSE
