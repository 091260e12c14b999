CONSTANTS
  None = None
  Never = Never
  States = {A, B}
  Fields = {"status", "other"}
  Values = {"pending", "done"}
  TTLs = {1, 2}
  MaxHistory = 2
  Adapters = {"memory", "redis", "mongo", "postgres", "file"}
  CachedSessions = {"a", "b"}
  CachedStates = {"X"}
  CachedFields = {"f"}
  MaxSize = 2
  Ttl = 1
  Null = Null
  Forever = Forever
  Events = {"a1", "a2", "b1"}
  Sessions = {"A", "B"}
  SessionOf <- SessionOfDef
  OccurredAt <- OccurredAtDef
  RetentionMs = 2
  MaxFutureSkewMs = 1
  MaxEvents = 2
  MaxSessions = 2
  MaxTombstones = 1
  Flushes = {f1, f2}
  MaxTime = 3
  Items = {1, 2, 3, 4}
  BatchSize = 2
  Probers = {1, 2}
  CacheTTL = 2
  MaxDuration = 1
  MaxNow = 6
  Callers = {1, 2}
  MaxStarts = 3
  Pool <- PoolDef
  Inactivity = 2
  MaxAsOf = 3
  Nobody = Nobody
  Languages = {"en", "sw"}
  FallbackLanguage = "en"
  Wordings = {"plain", "rich"}
  Counting = {"rich"}
  Formatting = {"rich"}
  Counts = {1}
  Defaults = {"a", "b"}
  CacheSize = 2
  NoText = NoText
SPECIFICATION BoxSpec
INVARIANTS GoneForGood CachesAreCurrent NothingStranded HealthyIsRecent BooksBalance
PROPERTIES ImplementsStore ExportsInOrder ReportsStand
SYMMETRY Symmetry
CHECK_DEADLOCK FALSE
