CONSTANTS
  s1 = s1
  s2 = s2
  c1 = c1
  c2 = c2
  c3 = c3
  None = None
  Service <- MCService
  Coroutine <- MCCoroutine
  MaxSession = 2
  MaxTimer = 1
  MaxEvent = 2
SPECIFICATION Spec
CHECK_DEADLOCK FALSE
SYMMETRY Alike
INVARIANTS
  SessionIsSingle
  WaiterIsExact
  WaiterHasItsCall
  AnswerFindsItsCaller
PROPERTY StoppedIsSilent
