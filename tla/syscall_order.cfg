SPECIFICATION Spec
CONSTANTS
  Modules <- TwoModules
  Callers = {p1}
INVARIANTS
  RealOnesRestored
