CONSTANTS
  PktLen = 3
  BufLen = 4
  Pre = Pre
  Others = {x, y}
  MaxBytes = 10
SPECIFICATION Spec
CHECK_DEADLOCK FALSE
INVARIANT CutIndependent
