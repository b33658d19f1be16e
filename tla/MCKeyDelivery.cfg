SPECIFICATION Spec
CONSTANTS
  Sessions = {p1, p2}
  Subscribers = {s1}
  SessionIDs = {i1, i2}
  MaxLines = 2
  MaxRestarts = 2
  OUTPUTTYPE = "Syslog"
  Fault = Fault
  None = None
SYMMETRY Symmetry
INVARIANTS TypeOK KeyOnItsWay CorrectDecryption
PROPERTIES FaultOnlyInWindow DirectorySpec AgreementSpec
CHECK_DEADLOCK FALSE
