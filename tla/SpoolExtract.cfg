CONSTANTS
  None = None
  Threads = {1, 2}
  Links = {"ethernet", "raw"}
  Kinds <- MCKinds
  Asks <- MCAsks
  Policies <- MCPolicies
  TicksPerSec = 2
  Minute = 4
  Margin = 2
  Jitter = 1
  MaxClock = 6
  MaxPackets = 3
  MaxFiles = 3
SPECIFICATION MCSpec
CHECK_DEADLOCK FALSE
INVARIANTS
  NothingMissed
  TimeOrdered
  OnlyTheFlow
  PurgeWithinLimit
