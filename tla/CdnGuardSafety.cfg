\* Two requests for two files of one item.
CONSTANTS
  p1 = p1
  p2 = p2
  f1 = f1
  f2 = f2
  f3 = f3
  i1 = i1
  i2 = i2
  Procs = {p1, p2}
  Files = {f1, f2}
  ItemOf <- MCItemOf
  NegativeCacheTTL = 2
  NegativeCacheMax = 2
  BreakerFailures = 2
  BreakerWindow = 2
  BreakerStale = 2
  BreakerMax = 1
  RetryCount = 1
  RetryBackoff = 1
  RateLimitBackoff = 2
  ZeroTime = ZeroTime
SPECIFICATION Spec
SYMMETRY Symmetric
INVARIANTS TypeOK FailureRemembered QuarantineKept LeakBounded
