\* A ring of two lines, two requests for two levels, one counter; any seven events.
CONSTANTS
  Capacity = 2
  Line = {0, 8}
  NoLine = NoLine
  Level = {0, 8}
  Info = 0
  Error = 8
  Setters = {s1, s2}
  Metrics = {calls}
  None = None
  Torn = Torn
  MaxEvents = 7
SPECIFICATION Spec
SYMMETRY Symmetric
INVARIANTS NewestFirst LevelPersisted StatsAccounted
CHECK_DEADLOCK FALSE
