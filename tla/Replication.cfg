SPECIFICATION Spec
CONSTANTS
  a = a
  b = b
  c = c
  Server = {a, b, c}
  Members = {a, b}
  MaxAppendSize = 2
  MayMiss = FALSE
  MaxTerm = 2
  MaxIndex = 2
  MaxEntries = 1
  MaxInFlight = 1
SYMMETRY Symmetry
CHECK_DEADLOCK FALSE
INVARIANTS
  TypeOK
  MatchedIsHeld
  CommittedIsHeld
PROPERTY ImplementsCommitPoint
