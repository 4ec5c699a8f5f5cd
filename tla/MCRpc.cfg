SPECIFICATION Spec
CONSTANTS
  a = a
  b = b
  Caller = {a, b}
  Requester = {a}
  MaxCall = 2
  MaxConn = 2
  None = None
CHECK_DEADLOCK FALSE
INVARIANTS OneClient MessageIsSingle NoLossWhileUp
PROPERTIES ReplyIsOwn
