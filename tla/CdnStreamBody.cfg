CONSTANTS
  p1 = p1
  p2 = p2
  Procs = {p1}
  Files = {"f1"}
  MaxCDNConnections = 1
  AutoRepair = TRUE
  RepairRetries = 1
  Wants = {"full", "range", "bad"}
SPECIFICATION Spec
INVARIANTS BodyGenuine
