SPECIFICATION FairSpec
CONSTANTS
  N = 3
  MaxChanges = 1
  None = None
INVARIANTS TypeOK QuietRefresh
PROPERTIES LvReturns Settles
