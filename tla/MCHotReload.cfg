SPECIFICATION ReloadSpec
CONSTANTS
  Service = {s1, s2}
  ServiceName = {n1}
  FirstKind = {"nested"}
  MaxEdits = 2
  MaxUses = 1
  MaxCloses = 1
  NoService = NoService
SYMMETRY Symmetry
INVARIANTS ReloadReachesAll ReloadIsWhole StateSurvives
CHECK_DEADLOCK FALSE
