SPECIFICATION Spec
CONSTANTS
  NumKeys = 1
  MaxSeq = 2
  MaxFile = 12
  MaxCrashes = 0
  MaxEnds = 0
  MaxHeld = 1
  Deletes = {FALSE}
  SyncOptions = {FALSE}
  NumLevels = 3
  MaxMemLevel = 1
  Faults = {}
  Manual = FALSE
  CutInsideKey = TRUE
INVARIANTS
  LatestRead
CHECK_DEADLOCK FALSE
