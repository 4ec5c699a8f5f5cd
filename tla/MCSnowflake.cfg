SPECIFICATION IdSpec
CONSTANTS
  t1 = t1
  t2 = t2
  t3 = t3
  Thread = {t1, t2, t3}
  SeqSize = 2
  TimeSize = 4
  Epoch <- EpochValue
  MaxClock = 3
  StepBack = FALSE
  NoThread = NoThread
SYMMETRY Threads
PROPERTIES UniqueIds
CHECK_DEADLOCK FALSE
