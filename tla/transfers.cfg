SPECIFICATION FairSpec
CONSTANTS
  Requests = {1, 2, 3}
  Slots = 1
  Length = 2
  InFlight = 1
  MaxImport = 1
  Bodies <- MCBodies
INVARIANTS TypeOK TransfersAreWhole NoStagingLeft
PROPERTIES EveryTransferEnds
CHECK_DEADLOCK FALSE
