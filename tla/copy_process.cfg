SPECIFICATION Spec
CONSTANTS
  Forkers = {f1, f2}
  Requests <- MCRequests
  Signals = {usr1, usr2}
  Blocked = {usr2}
  max_threads = 3
  NPROC = 4
  MaxForks = 3
SYMMETRY Symmetry
CONSTRAINT Explored
INVARIANTS
  LadderExact
  SignalsReachChild
  LimitsNearlyKept
CHECK_DEADLOCK FALSE
