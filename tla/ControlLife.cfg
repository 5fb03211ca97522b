SPECIFICATION Spec
CONSTANTS
  Ctl = {a, b, d}
  None = None
  Root = Root
  Hidden = {d}
  Hasty = {}
  MaxDepth = 3
  MaxPosted = 2
INVARIANTS TypeOK OnePlace UsedAreAlive
CHECK_DEADLOCK FALSE
