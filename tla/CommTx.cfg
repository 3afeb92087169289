CONSTANTS
  Senders = {t1, t2}
  Cams = {c1}
  N = 3
  ChunkMax = 2
  LsbMod = 4
  MaxLen = 2
  AllowCalls <- ProgramCalls
  WriteErrors = FALSE
  NoPkt = NoPkt
SPECIFICATION FairSpec
INVARIANTS ChunkQueued
PROPERTIES QueueSpec QuietDrains CallsReturn
