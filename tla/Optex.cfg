SPECIFICATION FairSpec
CONSTANTS
  Threads = {t1, t2, t3}
  Nobody = Nobody
  SpinCount = 1
  MaxDepth = 2
INVARIANTS TypeOK OneClaimant FieldsAreExact HandOff
PROPERTIES ImplementsMutex EnterReturns
