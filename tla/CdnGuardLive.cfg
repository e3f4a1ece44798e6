\* One request at a time for files of two items, on maps that hold one entry.
CONSTANTS
  p1 = p1
  p2 = p2
  f1 = f1
  f2 = f2
  f3 = f3
  i1 = i1
  i2 = i2
  Procs = {p1}
  Files = {f1, f3}
  ItemOf <- MCItemOf
  NegativeCacheTTL = 1
  NegativeCacheMax = 1
  BreakerFailures = 2
  BreakerWindow = 2
  BreakerStale = 2
  BreakerMax = 1
  RetryCount = 1
  RetryBackoff = 1
  RateLimitBackoff = 2
  ZeroTime = ZeroTime
SPECIFICATION FairSpec
PROPERTIES SweepEvictsOldest FetchEnds GuardReopens
