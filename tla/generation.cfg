SPECIFICATION FairSpec
CONSTANTS
  h1 = h1
  h2 = h2
  k1 = k1
  k2 = k2
  k3 = k3
  NoKey = NoKey
  Handlers = {h1}
  Keys = {k1, k2, k3}
  ChainLength = 3
  Hints = {0, 1, 2, 3}
  MaxServerWait = 2
  MinAdvice = 1
  CacheTTL = 2
  CacheMax = 2
  MaxRepairRounds = 2
  MaxRetries = 2
  Backoff <- OneUnit
INVARIANTS CallsBounded BusyIsHonest
PROPERTIES RetryNotEarly EvictsOldest Answered
