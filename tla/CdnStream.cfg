\* No symmetry: some properties are temporal.
CONSTANTS
  p1 = p1
  p2 = p2
  Procs = {p1, p2}
  Files = {"f1"}
  MaxCDNConnections = 1
  AutoRepair = TRUE
  RepairRetries = 1
  Wants = {"full", "range", "bad"}
SPECIFICATION FairSpec
INVARIANTS TypeOK SlotsConserved DirectBodyGenuine
PROPERTIES StatusSentOnce LeaverReleased RequestEnds
