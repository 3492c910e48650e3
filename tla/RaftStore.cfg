SPECIFICATION Spec
CONSTANTS
  MaxSegmentEntries = 2
  MaxAppends = 5
  MaxSkips = 1
  MaxCrashes = 2
CHECK_DEADLOCK FALSE
INVARIANTS
  TypeOK
  ReadsAreRight
  ReturnedIsFound
  IndexIsFresh
  LastIsNewest
