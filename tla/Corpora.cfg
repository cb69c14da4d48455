SPECIFICATION MCSpec
CONSTANTS
  Key <- MCKey
  NoKey = NoKey
  NotRedirect = NotRedirect
  NoManifest = NoManifest
  MaxHops = 3
  Allowed <- MCAllowed
  Void = {"br"}
  DropTags = {"nav", "head"}
  CruftClasses = {"navbox"}
  Property <- MCProperty
  Dumps <- MCDumps
  Limits = {2, 99}
  ShardSize = 2
  MaxRuns = 3
  MaxKills = 2
  Archives <- MCArchives
  RedirectRows <- MCRedirects
  MayChange = FALSE
  Workers = {w1, w2}
  EmbedShard = 2
  Reciprocal = {"spouse"}
  LoadLimits = {0, 2}
  BatchSize = 2

  TypeProp = 31
  LiteralProps = {8, 31}
  WdDumps <- MCWdDumps
  Langs = {"en", "de"}
  WdLimits <- MCWdLimits
  BatchSizes = {3}
  Specs <- MCSpecs
  NoData = NoData
  Tables = {"entities"}
  EmbedBatch = 2
  Absent = Absent
  WdRuns = 5
  WdKills = 1
  Feed <- MCFeed
  MaxEdits = 2
  Timed = TRUE
  MaxBreaks = 2
  Draws <- MCDraws
  MaxFails = 1
SYMMETRY Alike
CHECK_DEADLOCK FALSE
INVARIANT WikiCorpusIsWhole
INVARIANT WikiCompleteIsAligned
INVARIANT WikiLoadsAreTheCorpus
INVARIANT SliceIsAligned
INVARIANT WindowAndTears
PROPERTY CompleteIsTheSlice
