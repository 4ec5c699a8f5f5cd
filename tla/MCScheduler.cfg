SPECIFICATION FairSpec
CONSTANTS
  s1 = s1
  Service = {s1}
  io1 = io1
  IoThread = {io1}
  w1 = w1
  w2 = w2
  Worker = {w1, w2}
  MaxSend = 2
  None = None
INVARIANTS OneWorkerPerService FlagIsToken
PROPERTIES DeletedByItsOnlyOwner ImplementsMailbox ReadyIsServed ShutdownStopsWorkers
CHECK_DEADLOCK FALSE
