CONSTANTS
  MAX_DATA_SIZE = 3
  NRates = 3
  BootTries = 2
  Requests <- MCRequests
  Junk = {0, 255}
  MaxAsked = 2
  MaxFaults = 1
SPECIFICATION FairSpec
CHECK_DEADLOCK FALSE
INVARIANTS CameraFound AnswersInOrder NoOverrun
PROPERTIES BootEnds
