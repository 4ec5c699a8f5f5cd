SPECIFICATION Spec
CONSTANTS
  a = a
  b = b
  Caller = {a, b}
  Requester = {a, b}
  MaxCall = 1
  MaxConn = 1
  None = None
CHECK_DEADLOCK FALSE
PROPERTIES ReplyIsOwn
