SPECIFICATION Spec
CONSTANTS
  Initiators = {i1, i2}
  Responder = Responder
  IntSize = 3
  BodySize = 3
  None = None
INVARIANTS TypeOK WholeOrNothing
PROPERTIES AgreementSpec ServerComesBack
CHECK_DEADLOCK FALSE
