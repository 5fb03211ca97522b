SPECIFICATION Spec
CONSTANTS
  Types <- TypeBytes
  EOF = "EOF"
  Responses <- SomeResponses
  BufLen = 4
  MaxSent = 2
INVARIANT NothingInvented
CHECK_DEADLOCK FALSE
