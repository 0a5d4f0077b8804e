SPECIFICATION Spec
CONSTANTS
  Thread = {w1, w2, w3}
  MaxCalls = 4
  BatchCalls = {1, 2, 4}
  SyncCalls = {1, 4}
  WriteBuffer = 0
  GroupLimit = 2
  L0Trigger = 1
  L0Slowdown = 1
  L0Stop = 2
  Faults = {"add", "sync", "newlog", "flush", "compact"}
INVARIANTS
  TypeOK
  HeadAlone
  MemoryFollowsLog
  WorkIsScheduled
PROPERTIES
  WritesInOrder
  EveryCallReturns
CHECK_DEADLOCK FALSE
