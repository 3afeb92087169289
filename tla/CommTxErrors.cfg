CONSTANTS
  Senders = {t1, t2}
  Cams = {c1}
  N = 3
  ChunkMax = 2
  LsbMod = 4
  MaxLen = 2
  AllowCalls <- AnyCalls
  WriteErrors = TRUE
  NoPkt = NoPkt
SPECIFICATION Spec
CHECK_DEADLOCK FALSE
INVARIANTS TypeOK NoStaleSlot
PROPERTIES ChunkStable
