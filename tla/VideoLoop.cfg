CONSTANTS
  Cap = 10
  ChunkMax = 2
  Sizes = {2, 12}
  Rates = {0, 2}
SPECIFICATION FairSpec
INVARIANTS TypeOK BsMeansUnsent
PROPERTIES NoFlapping VideoFlows
