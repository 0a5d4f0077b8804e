SPECIFICATION Spec
CONSTANTS
  c1 = c1
  c2 = c2
  Client = {c1, c2}
  Leaf <- MCLeaf
  Value <- MCValue
  None = None
  Keep = Keep
  Watched <- MCWatched
  Block = {}
  FirstWrites <- MCFirstWrites
  Flaky = {c1, c2}
  MaxDrops = 1
  MaxWrites = 2
  Targets <- MCTargets
INVARIANTS
  ClientsTypeOK
  AcksCounted
  StreamExact
  Converged
  NothingMissed
PROPERTIES
  OwnWritesStay
CHECK_DEADLOCK FALSE
