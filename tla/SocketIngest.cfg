SPECIFICATION SockFairSpec
CONSTANTS
  Types = {"stream", "dgram"}
  Kinds = {"event", "big", "bad", "blank", "huge"}
  MaxRecords = 3
  MaxFaults = 1
  RecordCapacity = 1
  ByteCapacity = 2
  BatchSize = 2
INVARIANTS
  OneFate
PROPERTIES
  QueuedIsSettled
CHECK_DEADLOCK FALSE
