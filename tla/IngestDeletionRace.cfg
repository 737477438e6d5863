SPECIFICATION Spec
CONSTANTS
  NFiles = 2
  MaxLines = 1
  MaxFaults = 0
  BatchSize = 2
  Kinds = {"event"}
  SubmitFails = {}
  Spool = TRUE
  End = FALSE
  HasBookmark = TRUE
  DeleteSpool = TRUE
  Oneshot = FALSE
INVARIANTS
  SpoolDeletionSafe
CHECK_DEADLOCK FALSE
