SPECIFICATION Spec
CONSTANTS
  Pids = {1, 2}
  Results <- MCResults
  MaxCalls = 3
INVARIANT
  BytesCounted
