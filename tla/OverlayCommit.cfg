SPECIFICATION MCSpec
CONSTANTS
  t1 = t1
  t2 = t2
  Threads = {t1, t2}
  Subjects = {1}
  SourceIds = {2}
  Spans = {"s"}
  RawFacts <- MCRawFacts
  BadValues = {"long"}
  MaxRaw = 1
  MaxIds = 2
  MaxClock = 1
  MaxCommitFails = 1
  MaxEntries = 1
  Ttl = 1
  Gets <- MCGets
  Posts <- MCPosts
  Binds <- MCBinds
  MaxSlots = 1
  Corpora <- MCCorpora
  MaxKills = 1
  Junk = Junk
  NotBuilt = NotBuilt
  Torn = Torn
  Down = Down
  MaxHops = 3
  MaxExpand = 6
  PerSeed = 2
  MaxSources = 3
  SeedPassages = 2
  MaxPassages = 4
  Starts <- MCStarts
  Log1p <- MCLog1p
  Cosine <- MCCosine
  RrfK = 2
  CapDirect = 300
  CapOut = 64
  LinkTargetCap = 4
  SkipWords = {"the"}
  OneLetter = {"s"}
  MaxPhrase = 2
  LineKinds = {"heading", "bullet", "prose", "blank"}
  Tags = {"dropped", "void", "kept", "unknown", "link", "filelink", "anchor"}
  Words = {"al", "gore", "the"}
  MaxEvents = 3
  MaxTags = 3
  Orders <- MCOrders
  Filters <- MCFilters
  Queries <- MCQueries
SYMMETRY ThreadSymmetry
INVARIANT ConsumedIsWritten
