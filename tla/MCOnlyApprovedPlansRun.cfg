SPECIFICATION Spec
CONSTANTS
  Callers = {c1, c2, c3}
  NoCaller = NoCaller
  Parallel = {2}
  MaxPlans = 2
SYMMETRY CallerSymmetry
INVARIANT OnlyApprovedPlansRun
CHECK_DEADLOCK FALSE
