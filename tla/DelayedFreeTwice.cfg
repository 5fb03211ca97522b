SPECIFICATION Spec
CONSTANTS
  Ctl = {u, v, w}
  None = None
INVARIANT DeletedOnce
CHECK_DEADLOCK FALSE
