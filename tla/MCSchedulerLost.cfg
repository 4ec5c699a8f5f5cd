SPECIFICATION FairSpec
CONSTANTS
  s1 = s1
  s2 = s2
  Service = {s1}
  io1 = io1
  io2 = io2
  IoThread = {io1, io2}
  w1 = w1
  w2 = w2
  Worker = {w1, w2}
  MaxSend = 1
  None = None
PROPERTIES RequestIsHandled
CHECK_DEADLOCK FALSE
