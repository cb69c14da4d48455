SPECIFICATION RecoverySpec
CONSTANTS
  Sessions = {s1, s2}
  NoSession = NoSession
  EdgeTypes = {1}
  VerticesPerPage = 1
  EdgeSlotsPerPage = 1
  MaxXid = 5
  MaxVid = 1
  MaxEdges = 2
  MaxBlock = 3
  MaxBatch = 2
  MaxCrashes = 1
CHECK_DEADLOCK FALSE
INVARIANT ReturnedFreezeSurvives
