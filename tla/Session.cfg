CONSTANTS
  MdSize = 2
  EncSize = 3
  RoiSize = 3
  Configs <- MCConfigs
  Editors = {e1, e2}
  BoardIds = {2}
  HostRing = 2
  Damaged <- MCDamaged
  MaxOps = 3
  MaxFaults = 1
SPECIFICATION FairSpec
CHECK_DEADLOCK FALSE
INVARIANTS CallbackAlive AgreeWhenQuiet NothingRefused AnswersFresh StoreIntact
PROPERTIES HandlersReturn
