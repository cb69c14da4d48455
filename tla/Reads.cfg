SPECIFICATION MCSpec
CONSTANTS
  s1 = s1
  NoSession = NoSession
  Sessions = {s1}
  EdgeTypes = {1}
  VerticesPerPage = 1
  EdgeSlotsPerPage = 2
  MaxXid = 4
  MaxVid = 1
  MaxEdges = 3
  MaxBlock = 3
  MaxBatch = 0
  Filters <- MCFilters
  Vertices = {1, 2, 3, 4, 5}
  Seeds = {1}
  Adjacencies <- MCAdjacencies
  Types = {0, 2}
  Depths = {0, 1, 3}
  Budgets = {3, 6}
  Queries <- MCQueries
  Window <- MCWindow
  Calls <- MCCalls
  Mass = 256
  AlphaDiv = 2
  Rmax = 8
CHECK_DEADLOCK FALSE
INVARIANT ScanExact
INVARIANT TraversalsAgree
INVARIANT FilterFirstHonest
INVARIANT SharesAreKept
INVARIANT EndIsJustified
INVARIANT ReachIsHonest
INVARIANT BestIsAnswered
