SPECIFICATION MCSpec
CONSTANTS
  None = None
  n1 = n1
  Conn = {c1, c2, c3}
  Key = {k1, k2}
  Name = {n1}
  KeyName <- MCKeyName
  AllowUnauthenticated = TRUE
  ClientAborts = TRUE
  MaxMissedPongs = 0
  Req = {r1}
  MaxConcurrent = 2
  MaxBytes = 1
  BodyCapacity = 1
  FrameCapacity = 1
  OutboundCapacity = 2
  AgentResults <- MCFewResults
SYMMETRY Symmetry
INVARIANTS
  RevokedIsStopped
  PcapInv
PROPERTIES
  NoEviction
CHECK_DEADLOCK FALSE
