SPECIFICATION Spec
CONSTANTS
  Tasks = {t1, t2, t3}
  Stacks = {s1, s2, s3, s4}
  Cpus = {c1, c2}
  NR_CACHED_STACKS = 2
  Pages = 2
  None = None
SYMMETRY Symmetry
INVARIANTS OneOwner Accounted
