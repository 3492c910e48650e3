SPECIFICATION Spec
CONSTANTS
  Self = s
  NoServer = none
  Other = {o1, o2}
  MaxTerm = 2
  MaxElections = 2
CHECK_DEADLOCK FALSE
INVARIANTS
  TypeOK
  RolesInStep
  VotesInStep
  LeaderWasElected
PROPERTY HandlersEnd
