CONSTANTS
  None = None
  loop = loop
  syncNow = syncNow
  t1 = t1
  t2 = t2
  u1 = u1
  Workers = {loop, syncNow}
  Clients = {"c"}
  Items = {t1, u1}
  Torrents = {t1}
  PathsOf <- MCSingle
  BatchSize = 1
  Faults = {"fetch", "database", "crash"}
  MaxSyncs = 2
SPECIFICATION Spec
SYMMETRY Symmetric
INVARIANTS TypeOK TagMarksOwnRows SuccessMirrors HooksKeepUp
PROPERTIES PruneOnlyUnlisted
