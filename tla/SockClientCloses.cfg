SPECIFICATION Spec
CONSTANTS
  Commands = {c1}
  MaxRetries = 1
  MaxStarts = 1
  Setups <- PlainSetups
INVARIANT CloseAfterThreads
