SPECIFICATION ProgramsSpec
CONSTANTS
  MaxLen = 3
  Arrivals = {0, 1, 3}
  Bursts = {1, 2, 3}
  Slices = {0, 1, 2}
  MaxTime = 13
  Pages = {1, 2, 3, 4}
  MaxFrames = 3
  MaxString = 6
  Levels = 3
  MaxFailures = 2
  Garbage = {0, 7}
  ThreadCount = 6
INVARIANTS
  ReportedTimes
  InTurn
  SRTFOptimal
  OPTOptimal
  FaultsAsDefined
  NothingLost
  SubtreeSums
  ArgumentsOwned
PROPERTIES
  ImplementsWorkConserving
  SchedulerEnds
  ThreadEnds
