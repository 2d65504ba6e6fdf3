SPECIFICATION Spec
CONSTANTS
  Levels = 2
  Inputs <- SmallInputs
  MaxFailures = 0
  Garbage = {0, 7}
INVARIANT
  FullSum
