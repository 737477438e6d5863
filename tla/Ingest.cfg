SPECIFICATION MCSpec
CONSTANTS
  NFiles = 3
  MaxLines = 1
  MaxFaults = 2
  BatchSize = 2
  Kinds = {"event"}
  SubmitFails = {}
  Spool = TRUE
  End = FALSE
  HasBookmark = TRUE
  DeleteSpool = TRUE
  Oneshot = FALSE
INVARIANTS
  BookmarkCommitted
  DeletedCommitted
  DuplicatesNeedFaults
PROPERTIES
  SpoolIsStored
