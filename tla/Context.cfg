SPECIFICATION FairSpec
CONSTANTS
  t1 = t1  t2 = t2
  Threads <- MCThreads
  Sizes <- MCSizes
  WithEmbeddings = TRUE
  EmbeddingWidth = 2
  NoOne = NoOne
  MaxLoads = 3
INVARIANTS
  HandlesAccountedFor
  
PROPERTIES
  LockIsReleased
\* The bound on loads, not the code, stops a program that has unloaded.
CHECK_DEADLOCK FALSE
