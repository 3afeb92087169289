CONSTANTS
  Cap = 10
  ChunkMax = 3
  Sizes = {0, 2}
  Rates = {0}
SPECIFICATION Spec
INVARIANTS BsMeansUnsent
