CONSTANTS
  Replies = {r1, r2}
  Lens <- AllLens
  Mts = 2
  Rings = {6}
  ChunkMax = 2
  LsbMod = 4
  Lossy = TRUE
SPECIFICATION Spec
SYMMETRY Sym
CHECK_DEADLOCK FALSE
INVARIANTS AcceptedIsSent
