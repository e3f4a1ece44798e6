\* Two restarts, a SyncNow, syncs of any length.  After a shutdown nothing may be left
\* to do: no deadlock check.
CONSTANTS
  r1 = r1
  r2 = r2
  n1 = n1
  Restarts = {r1, r2}
  Nows = {n1}
  None = None
  SlowSyncs = TRUE
SPECIFICATION FairSpec
INVARIANTS TypeOK LoopNeverLost StopWaitsForCancelled
PROPERTIES RestartEnds StoppedLoopEnds ShutdownSettles
CHECK_DEADLOCK FALSE
