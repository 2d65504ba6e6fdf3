SPECIFICATION Spec
CONSTANTS
  t1 = t1
  t2 = t2
  t3 = t3
  Tasks = {t1, t2, t3}
  Objects = {1, 2, 3, 4, 5, 6}
  Clones <- MCClones
  Unshares <- MCUnshares
SYMMETRY Symmetry
VIEW View
INVARIANTS CountsExact PrivateWhenPromised
