SPECIFICATION PqSpec
CONSTANTS
  a = a
  b = b
  d = d
  c1 = c1
  c2 = c2
  c3 = c3
  c4 = c4
  Muxes = {a}
  Names = {a}
  Channels = {c1}
  Receives = {c1}
  Leavers = {c1}
  MuxOf <- MCMuxOf
  Senders = {1, 2}
  Values = {1, 2}
  Buffer = 0
  None = None
  Conns = {k1, k2}
  MaxNotices = 2
  MaxFaults = 0
PROPERTIES CancelCleansUp
CHECK_DEADLOCK FALSE
