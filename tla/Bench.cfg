SPECIFICATION MCSpec
CONSTANTS
  Ids = {0, 1, 2, 3}
  Gaps = {3}
  Place <- MCPlace
  GapDistance = 2
  Graphs <- MCGraphs
  NQueries = 2
  Ks = {2}
  OracleKnobs <- MCKnobs
  TridbGrid <- MCGrid
  BaseGrid <- MCKnobs
  Cap = 4
  Target = 60
  Eps = 20
  Unit = 100
  MaxOracles = 2
  Missing = Missing
  SweepQueries <- MCSweepQueries
  SweepK = 2
  SweepM = 2
  Hops <- MCHops
  Times = {1, 2}
  Steps <- MCSteps
  RaceQueries = {1, 2}
  Slices <- MCSlices
  TypedHops = {1, 2}
  MinCands = {1, 2}
  TypedK = {1}
  TypedQueries = 2
  TypedGrid <- MCTypedGrid
  TypedCap = 3
  TypedTarget = 60
  ExpectedEdges = 6
  MaxVersions = 2
  Paragraphs = 4
  EdgeLists <- MCEdges
  Questions <- MCQuestions
  RefKs = {1, 2, 4}
  K5 = 2
  MSeeds = 2
  VecLimit = 3
  AlphaDiv = 5
  RmaxSweep <- MCRmax
  TermSweep <- MCTerm
CHECK_DEADLOCK FALSE
INVARIANT ReferenceIsExact
INVARIANT HeadlineIsExact
INVARIANT MatchIsCommon
INVARIANT TypedAnswersAgree
