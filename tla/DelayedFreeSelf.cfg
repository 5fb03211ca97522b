SPECIFICATION Spec
CONSTANTS
  Ctl = {u, v, w}
  None = None
INVARIANT SelfRemovalSafe
CHECK_DEADLOCK FALSE
