SPECIFICATION Spec
CONSTANTS
  Clients = {c1, c2, c3, c4}
  FD_SETSIZE = 3
INVARIANT TypeOK
PROPERTIES ImplementsEcho Answered GoneAreFreed
CHECK_DEADLOCK FALSE
