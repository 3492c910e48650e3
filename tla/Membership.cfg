SPECIFICATION Spec
CONSTANTS
  a = a
  b = b
  Server = {a, b}
  Subject = {a}
  Crashing = {a, b}
  MaxIncarnation = 3
  MaxCrashes = 1
CHECK_DEADLOCK FALSE
INVARIANTS
  TypeOK
  IncarnationIsOwned
  
  
  DeadWasAccused
PROPERTIES
  IncarnationGrows
  SuspicionEnds
