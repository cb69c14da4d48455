CONSTANTS
  Key <- MCKey
  NoKey = NoKey
  NotRedirect = NotRedirect
  NoManifest = NoManifest
  MaxHops = 3
  Allowed <- MCAllowed
  Void = {"br"}
  DropTags = {"nav", "head"}
  CruftClasses = {"navbox"}
  Property <- MCProperty
  Dumps <- MCDumps
  Limits = {99}
  ShardSize = 2
  MaxRuns = 3
  MaxKills = 1
  Archives <- MCDates
  RedirectRows <- MCRedirects
  MayChange = TRUE
  Workers = {w1, w2}
  EmbedShard = 2
  Reciprocal = {"spouse"}
  LoadLimits = {0, 2}
  BatchSize = 2

\* The workers are alike.
SYMMETRY Alike

SPECIFICATION WikiSpec

INVARIANT ManifestNamesItsSource
CHECK_DEADLOCK FALSE
