SPECIFICATION Spec
CONSTANTS
  Ctl = {u, v, w}
  None = None
INVARIANTS TypeOK FreedOnce NoLostWakeup
CHECK_DEADLOCK FALSE
