SPECIFICATION FairSpec
CONSTANTS
  Commands = {c1}
  MaxRetries = 1
  MaxStarts = 1
  Setups <- LiveSetups
PROPERTIES ShutdownEnds HeartbeatsHelp
