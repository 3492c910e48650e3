SPECIFICATION Spec
CONSTANTS
  m1 = m1
  m2 = m2
  m3 = m3
  m4 = m4
  Message = {m1, m2, m3, m4}
  NoMessage = NoMessage
  NodeOf <- MCNodeOf
  Capacity = 2
  MaxTransmit = 1
  MaxCount = 1
  FindsNodes = {TRUE}
CHECK_DEADLOCK FALSE
PROPERTY FinishIsNotified
