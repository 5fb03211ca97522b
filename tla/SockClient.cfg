SPECIFICATION Spec
CONSTANTS
  Commands = {c1, c2}
  MaxRetries = 1
  MaxStarts = 2
  Setups <- SafetySetups
SYMMETRY Symmetric
INVARIANTS TypeOK InOrder DealtWithOnce OrderlyClose DownMeansDown
CHECK_DEADLOCK FALSE
