SPECIFICATION Spec
CONSTANTS
  t1 = t1  t2 = t2  t3 = t3  t4 = t4
  Threads <- MCThreads
  Desired = 0
  LeastMaxValue = 2
  MaxReleases = 4
  MaxTaken = 9
SYMMETRY Symmetry
INVARIANT
  LockedUntilReleased
