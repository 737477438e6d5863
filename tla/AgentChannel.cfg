SPECIFICATION ChFairSpec
CONSTANTS
  NoResult = NoResult
  NJobs = 2
  MaxConns = 2
  MaxPanics = 1
  UploadCapacity = 1
  ResultCapacity = 1
  MaxActiveJobs = 1
INVARIANTS
  SettledIsStopped
  OneExtraction
  ResultIsHonest
PROPERTIES
  JobEnds
CHECK_DEADLOCK FALSE
