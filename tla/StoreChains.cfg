SPECIFICATION Spec
CONSTANTS
  s1 = s1
  s2 = s2
  Sessions = {s1, s2}
  NoSession = NoSession
  EdgeTypes = {1}
  VerticesPerPage = 1
  EdgeSlotsPerPage = 1
  MaxXid = 4
  MaxVid = 3
  MaxEdges = 2
  MaxBlock = 4
  MaxBatch = 2
SYMMETRY SessionSymmetry
CHECK_DEADLOCK FALSE
INVARIANT TypeOK
INVARIANT ChainsWellFormed
INVARIANT DenseIsLinear
INVARIANT WriterOwnsUncommitted
