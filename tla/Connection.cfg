SPECIFICATION Spec
CONSTANTS
  Request = {1, 2}
CHECK_DEADLOCK FALSE
INVARIANTS
  TypeOK
  InfoIsThere
  NothingLeftBehind
PROPERTIES
  ImplementsRequestReply
  EndsUnlessCleared
