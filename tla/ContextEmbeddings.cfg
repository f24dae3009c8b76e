SPECIFICATION Spec
CONSTANTS
  t1 = t1  t2 = t2
  Threads <- MCThreads
  Sizes <- MCSizes
  WithEmbeddings = TRUE
  EmbeddingWidth = 2
  NoOne = NoOne
  MaxLoads = 3
SYMMETRY Symmetry
INVARIANT
  DenialIsTrue
