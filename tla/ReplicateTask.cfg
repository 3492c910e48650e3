SPECIFICATION Spec
CONSTANTS
  Event = Event
  Joiner = {j, k}
  Task = {t1, t2, t3}
  None = None
INVARIANTS
  OneCallAtATime
  LoopIsThere
PROPERTY StoppedDrains
