\* Two restarts of a started worker and syncs that are over within the 90 s of Stop.
CONSTANTS
  r1 = r1
  r2 = r2
  n1 = n1
  Restarts = {r1, r2}
  Nows = {}
  None = None
  SlowSyncs = FALSE
SPECIFICATION StartedSpec
INVARIANTS NoOrphanLoop
CHECK_DEADLOCK FALSE
