SPECIFICATION Spec
CONSTANTS
  MaxTasks = 4
  MaxResults = 3
  MaxToggles = 5
INVARIANTS
  TypeOK
  OneTask
  CrashOnlyIfLate
CHECK_DEADLOCK FALSE
