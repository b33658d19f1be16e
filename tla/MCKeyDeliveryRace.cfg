SPECIFICATION Spec
CONSTANTS
  Sessions = {p1}
  Subscribers = {s1}
  SessionIDs = {i1}
  MaxLines = 1
  MaxRestarts = 0
  OUTPUTTYPE = "default_print"
  Fault = Fault
  None = None
PROPERTIES UndecodableIsReported
CHECK_DEADLOCK FALSE
