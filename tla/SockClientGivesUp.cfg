SPECIFICATION FairSpec
CONSTANTS
  Commands = {c1}
  MaxRetries = 1
  MaxStarts = 1
  Setups <- LostSetups
PROPERTY GivingUpEnds
CHECK_DEADLOCK FALSE
