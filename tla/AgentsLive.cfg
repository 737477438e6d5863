SPECIFICATION MCFairSpec
CONSTANTS
  None = None
  n1 = n1
  Conn = {c1}
  Key = {}
  Name = {n1}
  KeyName <- MCKeyName
  AllowUnauthenticated = TRUE
  ClientAborts = FALSE
  MaxMissedPongs = 1
  Req = {r1}
  MaxConcurrent = 2
  MaxBytes = 2
  BodyCapacity = 1
  FrameCapacity = 1
  OutboundCapacity = 2
  AgentResults <- MCResults
INVARIANTS
  CleanEndIsWhole
PROPERTIES
  SilentIsReaped
  RequestEnds
  CancelReaches
CHECK_DEADLOCK FALSE
