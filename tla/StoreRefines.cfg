SPECIFICATION Spec
CONSTANTS
  s1 = s1
  s2 = s2
  Sessions = {s1, s2}
  NoSession = NoSession
  EdgeTypes = {1}
  VerticesPerPage = 2
  EdgeSlotsPerPage = 2
  MaxXid = 4
  MaxVid = 2
  MaxEdges = 2
  MaxBlock = 3
  MaxBatch = 2
SYMMETRY SessionSymmetry
CHECK_DEADLOCK FALSE
PROPERTY ImplementsTxnGraph
