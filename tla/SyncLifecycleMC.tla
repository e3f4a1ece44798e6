--------------------------- MODULE SyncLifecycleMC ---------------------------
EXTENDS SyncLifecycle, TLC
CONSTANTS r1, r2, n1

\* A worker that has been started and is between two syncs.
StartedInit ==
  /\ shutdown = FALSE /\ queue = "running"
  /\ parentSet = TRUE /\ cancel = 1 /\ loopDone = 1
  /\ loop = [l \in Loops |-> [pc |-> IF l = 1 THEN "select" ELSE "new", cancelled |-> FALSE]]
  /\ restart = [r \in Restarts |-> [pc |-> "idle", waits |-> None]]
  /\ now = [n \in Nows |-> "idle"]

StartedSpec == StartedInit /\ [][Next]_vars
=============================================================================
