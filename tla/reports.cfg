SPECIFICATION ReportsSpec
CONSTANTS
  Readers = {r1, r2}
  Tasks <- MCTasks
  ThreadIds = {13}
  INT_SPAN = 100
  Inputs <- MCInputs
  BUF_SIZE = 17
  HeadLen = 3
  IdLens = {5}
  StateLen = 2
  NameLen = 2
  MaxOpens = 2
  MaxFails = 1
  TreeTasks = {1, 2, 3, 4}
  Root = 1
  Areas = {"a", "b", "c"}
  File <- MCFile
  MaxChanges = 3
CONSTRAINT Explored
SYMMETRY Symmetry
INVARIANTS
  NoOverflow
  ReadersServed
  ForkCountExact
  RelativesListed
  WalkComplete
  StayingListed
