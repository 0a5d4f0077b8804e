SPECIFICATION Spec
CONSTANTS
  MaxKey = 4
  MaxHeight = 3
INVARIANTS
  TypeOK
  ListsInOrder
PROPERTIES
  MovesAtOnce
  SearchEnds
CHECK_DEADLOCK FALSE
