SPECIFICATION Spec
CONSTANTS
  Self = s
  NoServer = none
  Other = {o1, o2}
  MaxTerm = 2
  MaxElections = 1
CHECK_DEADLOCK FALSE
PROPERTY TermIncreases
