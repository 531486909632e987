SPECIFICATION MCSpec
CONSTANTS
  add1 = add1  add2 = add2  add3 = add3  add4 = add4  t1 = t1  t2 = t2  t3 = t3
  Calls = {add1, add2, add3, add4}
  Txs = {t1, t2, t3}
  TxOf <- MCTxOf
  ModesOf <- MCModesOf
  NoCall = NoCall
  a = a  b = b  d = d  c1 = c1  c2 = c2  c3 = c3  c4 = c4
  Muxes = {a, b, d}
  Names = {a, b}
  Channels = {c1, c2, c3, c4}
  Receives = {c1, c2}
  Leavers = {c1, c3}
  MuxOf <- MCMuxOf
  Senders = {1, 2, 3}
  Values = {1, 2}
  Buffer = 0
  None = None
  Conns = {k1, k2}
  MaxNotices = 2
  MaxFaults = 1
INVARIANTS
  RowsAreSerial RunHasAllCalls DuplicatesOverlap IdsFindRows
  NothingForgotten NoSendOnClosed NoGaps
CHECK_DEADLOCK FALSE
