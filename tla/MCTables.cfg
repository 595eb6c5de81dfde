SPECIFICATION Spec
CONSTANTS
  k1 = k1
  k2 = k2
  k3 = k3
  e1 = e1
  e2 = e2
  e3 = e3
  NOT_FOUND = NOT_FOUND
  EXISTS = EXISTS
  OK = OK
  KEY_FREE = KEY_FREE
  KEY_DELETED = KEY_DELETED
  NONE = NONE
  EMPTY = EMPTY
SYMMETRY TableSymmetry
INVARIANTS
  SearchesEnd
  MatchIsBest
  MaskIsEnough
  NothingLost
PROPERTY ImplementsMap
