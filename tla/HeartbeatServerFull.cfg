SPECIFICATION Spec
CONSTANTS
  Clients = {c1, c2, c3}
  FD_SETSIZE = 2
PROPERTY ClosedAreReleased
CHECK_DEADLOCK FALSE
