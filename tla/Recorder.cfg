CONSTANTS
  First = 1
  Segment = 1
  Bufs = 3
  Radix = 2
  MaxFrames = 8
  MaxBroken = 1
  MaxRuns = 2
  Disallow = TRUE
SPECIFICATION Spec
INVARIANTS TypeOK CodedRight AllOnStick FirstNameFree
PROPERTIES EveryFrameInTurn
CHECK_DEADLOCK FALSE
