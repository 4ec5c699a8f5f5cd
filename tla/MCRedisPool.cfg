SPECIFICATION FairSpec
CONSTANTS
  w1 = w1
  Worker = {w1}
  c1 = c1
  c2 = c2
  c3 = c3
  Client = {c1, c2, c3}
  Io = io
  MinSize = 1
  MaxSize = 2
  Password = TRUE
  MaxCalls = 1
  MaxExpire = 1
  None = None
PROPERTIES CommandIsAnswered
INVARIANTS OnePlace PoolSizeExact AnsweredOnce
CHECK_DEADLOCK FALSE
