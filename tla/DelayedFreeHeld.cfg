SPECIFICATION Spec
CONSTANTS
  Ctl = {u, v, w}
  None = None
INVARIANT FreedAfterErased
CHECK_DEADLOCK FALSE
