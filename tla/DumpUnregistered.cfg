SPECIFICATION DumpSpec
CONSTANTS
  Sessions = {s1}
  NoSession = NoSession
  EdgeTypes = {1, 2}
  Registered = {1}
  VerticesPerPage = 1
  EdgeSlotsPerPage = 2
  MaxXid = 4
  MaxVid = 1
  MaxEdges = 3
  MaxBlock = 4
  MaxBatch = 0
CHECK_DEADLOCK FALSE
INVARIANT RestoredEdgeCount
