SPECIFICATION Spec
CONSTANTS
  s1 = s1
  s2 = s2
  Service = {s1, s2}
  t1 = t1
  t2 = t2
  Sender = {t1, t2}
  Watcher = w
  m1 = m1
  m2 = m2
  Multi = {m1}
  r1 = r1
  Reload = {r1}
  MaxList = 2
  MaxCalls = 2
  RefSize = 8
  None = None
SYMMETRY Symmetric
INVARIANTS RefCountExact PooledIsUnused HandlerSeesItsBroadcast NothingLeaks
CHECK_DEADLOCK FALSE
