CONSTANTS
  TokenNames = {"W", "V"}
  Digits = {"1", "2"}
  MaxItems = 4
  Lexemes <- MCLexemes
  Files <- MCFiles
  DefaultEncCfg <- Long
  EeLen = 14
  Page = 5
  EncBufs = 2
  CapBufs = 3
  Spare = 0
  MaxFds = 2
  MaxCmds = 3
  MaxThrows = 2
SPECIFICATION FairSpec
CHECK_DEADLOCK FALSE
INVARIANTS TypeOK StopsSoon ParamsAsStored  Released DriverOwnsMemory
PROPERTIES ShutdownEnds Streams
