CONSTANTS
  None = None
  loop = loop
  syncNow = syncNow
  t1 = t1
  t2 = t2
  u1 = u1
  Workers = {loop}
  Clients = {"c"}
  Items = {t1, t2}
  Torrents = {t1, t2}
  PathsOf <- MCSingle
  BatchSize = 1
  Faults = {}
  MaxSyncs = 3
SPECIFICATION Spec
INVARIANTS LinkMatchesRow
