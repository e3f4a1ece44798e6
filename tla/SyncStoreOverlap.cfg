CONSTANTS
  None = None
  loop = loop
  syncNow = syncNow
  t1 = t1
  t2 = t2
  u1 = u1
  Workers = {loop, syncNow}
  Clients = {}
  Items = {t1, u1}
  Torrents = {t1}
  PathsOf <- MCSingle
  BatchSize = 1
  Faults = {}
  MaxSyncs = 2
SPECIFICATION Spec
PROPERTIES PruneSafe
