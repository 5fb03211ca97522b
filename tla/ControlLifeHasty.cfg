SPECIFICATION Spec
CONSTANTS
  Ctl = {a, b}
  None = None
  Root = Root
  Hidden = {b}
  Hasty = {a}
  MaxDepth = 2
  MaxPosted = 1
INVARIANT UsedAreAlive
CHECK_DEADLOCK FALSE
