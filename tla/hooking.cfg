SPECIFICATION HookingSpec
CONSTANTS
  Modules <- MCModules
  Callers = {p1, p2}
  Pids = {1, 2}
  Results <- MCResults
  MaxCalls = 3
CONSTRAINT Explored
SYMMETRY Symmetry
INVARIANTS
  ChainsIntact
  ProtectedAgain
  TraceExact
