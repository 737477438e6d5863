CONSTANTS
  None = None
  Threads = {1, 2}
  Links = {"ethernet", "raw"}
  Kinds <- MCKinds
  Asks <- MarginAsks
  Policies <- MCPolicies
  TicksPerSec = 2
  Minute = 4
  Margin = 2
  Jitter = 0
  MaxClock = 6
  MaxPackets = 3
  MaxFiles = 3
SPECIFICATION MCSpec
CHECK_DEADLOCK FALSE
INVARIANT NothingMissed
