SPECIFICATION Spec
CONSTANTS
  Sessions = {p1}
  Subscribers = {s1, s2}
  SessionIDs = {i1}
  MaxLines = 1
  MaxRestarts = 1
  OUTPUTTYPE = "Syslog"
  Fault = Fault
  None = None
PROPERTIES KeyReachesTable MessageDealtWith
CHECK_DEADLOCK FALSE
