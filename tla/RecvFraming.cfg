SPECIFICATION Spec
CONSTANTS
  Types <- TypeBytes
  EOF = "EOF"
  Responses <- SomeResponses
  BufLen = 4
  MaxSent = 3
INVARIANTS TypeOK StuckTakenApart WholeKept
CHECK_DEADLOCK FALSE
