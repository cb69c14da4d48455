SPECIFICATION MCSpec
CONSTANTS
  Parts = {"dump", "map", "memory"}
  s1 = s1
  m1 = m1
  m2 = m2
  a1 = a1
  a2 = a2
  Sessions = {m1, m2}
  NoSession = NoSession
  ExtIds = {0, 1}
  MaxVid = 2
  MaxXid = 3
  Servers = {a1, a2}
  NoServer = NoServer
  Dim <- MCDim
  HasModel = {a1}
  Rels = {"knows", "likes"}
  MaxMemory = 3
  MaxVids = 4
  MaxEdges = 1
  MaxCrash = 1
  Writers = {s1}
  EdgeTypes = {1, 2}
  Registered = {1, 2}
  VerticesPerPage = 2
  EdgeSlotsPerPage = 1
  DumpXids = 4
  DumpVids = 2
  DumpedEdges = 2
  MaxBlock = 3
  MaxBatch = 0
SYMMETRY MapSymmetry
CHECK_DEADLOCK FALSE
 
INVARIANT MapIsSound
INVARIANT CacheNeverWrong
INVARIANT MemoriesAreVertices
