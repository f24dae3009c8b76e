SPECIFICATION FairSpec
CONSTANTS
  t1 = t1  t2 = t2  t3 = t3  t4 = t4
  Threads <- MCThreads
  Desired = 1
  LeastMaxValue = 2
  MaxReleases = 4
  MaxTaken = 9
INVARIANTS
  PermitsAccountedFor
  NoStrandedWaiter
PROPERTIES
  PermitsGetUsed
\* The bounds on calls, not the code, stop a program.
CHECK_DEADLOCK FALSE
