SPECIFICATION Spec
CONSTANTS
  Request = {1, 2}
CHECK_DEADLOCK FALSE
PROPERTY EveryRequestEnds
