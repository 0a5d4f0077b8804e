SPECIFICATION Spec
CONSTANTS
  Digit = {1, 2}
  Room <- MCRoom
  MaxLength = 5
  MaxEdits = 8
INVARIANTS
  TypeOK
  CirclesFollow
  UnhurriedIsSafe
  NeverStuck
CHECK_DEADLOCK FALSE
