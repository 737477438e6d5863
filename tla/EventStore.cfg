SPECIFICATION MCSpec
CONSTANTS
  None = None
  e1 = e1
  e2 = e2
  e3 = e3
  n1 = n1
  Names = {n1}
  Events = {e1, e2, e3}
  Attr <- MCAttr
  Sensors = {None, 2}
  Opened = {e1}
  Stores = {"sqlite", "elastic"}
  RetainDays = 1
  ArchiveDays = 1
  SizeLimit = 2
  Limit = 1
  MaxDay = 2
  MaxTries = 2
  MaxOps = 2
  MaxFaults = 1
INVARIANTS
  HistoryExplains
  SearchIndexExact
  AckedStoredOnce
PROPERTIES
  ImplementsLifecycle
  ArchiveMatchesLine
  QueueDrains
  SizeLoopEnds
CHECK_DEADLOCK FALSE
