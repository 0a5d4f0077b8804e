SPECIFICATION Spec
CONSTANTS
  NumKeys = 2
  MaxSeq = 2
  MaxFile = 8
  MaxCrashes = 1
  MaxEnds = 2
  MaxHeld = 1
  Deletes = {FALSE, TRUE}
  SyncOptions = {FALSE, TRUE}
  NumLevels = 3
  MaxMemLevel = 1
  Faults = {"power", "add", "sync", "table", "manifest"}
  Manual = FALSE
  CutInsideKey = FALSE
INVARIANTS
  TypeOK
  NothingMissing
  LatestRead
  SnapshotsRead
  ReaderReads
  NeverCorrupt
  LevelsDisjoint
PROPERTIES
  SyncedKept
CHECK_DEADLOCK FALSE
