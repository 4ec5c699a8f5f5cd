SPECIFICATION Spec
CONSTANTS
  n1 = n1
  n2 = n2
  Name = {n1, n2}
  v1 = v1
  v2 = v2
  Vm = {v1, v2}
  m1 = m1
  m2 = m2
  m3 = m3
  m4 = m4
  Matrix = {m1, m2, m3, m4}
  k1 = k1
  k2 = k2
  Key = {k1, k2}
  b1 = b1
  b2 = b2
  Buffer = {b1, b2}
  None = None
SYMMETRY Symmetric
INVARIANTS MatricesOwned CacheIsCurrent BuffersOwned
CHECK_DEADLOCK FALSE
