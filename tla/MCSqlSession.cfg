SPECIFICATION FairSpec
CONSTANTS
  Service = {s1, s2}
  Db = {good, unknown}
  Configured = {good}
  MaxCall = 2
  MaxStatement = 2
  None = None
  s1 = s1
  s2 = s2
  good = good
  unknown = unknown
INVARIANTS TypeOK OnePool AnswerFindsItsWaiter
PROPERTIES ImplementsCall CallIsAnswered
CHECK_DEADLOCK FALSE
