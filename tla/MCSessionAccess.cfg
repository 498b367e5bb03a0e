SPECIFICATION Spec
CONSTANTS
  Callers = {c1, c2, c3}
  NoCaller = NoCaller
  Parallel = {2}
  MaxPlans = 2
SYMMETRY CallerSymmetry
INVARIANTS
  TypeOK
  WorksAlone
  EntriesSurvive
PROPERTIES
  OwnLockOnly
CHECK_DEADLOCK FALSE
