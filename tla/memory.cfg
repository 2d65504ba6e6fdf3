SPECIFICATION MemorySpec
CONSTANTS
  Kids = {c1}
  Tasks = {t1, t2, t3}
  First = t1
  Observers = {o1, o2}
  Kthreads = {k1}
  Exes = {f1, f2, f3}
  FirstFile = f1
  Lists <- MCLists
  Files = {"exe", "lib"}
INVARIANTS
  VforkSafe
  ParentSuspended
  MmSafe
  AllOrNothing
PROPERTIES
  VforkEnds
  EventuallyFreed
