SPECIFICATION Spec
CONSTANTS
  a = a
  b = b
  c = c
  Server = {a, b, c}
  NoServer = NoServer
  LastIndex <- MCLastIndex
  MaxTerm = 2
  MaxElections = 3
  MaxAppends = 1
SYMMETRY Symmetry
CHECK_DEADLOCK FALSE
INVARIANTS
  TypeOK
  OneVotePerTerm
  FreshElectionSafety
  WinIsBacked
  MasterWasElected
PROPERTY ImplementsVoting
