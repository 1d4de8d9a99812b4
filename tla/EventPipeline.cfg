SPECIFICATION FairSpec
CONSTANTS
  NWorkers = 4
  MaxQueue = 2
  NBuffers = 5
PROPERTIES ImplementsSink Finishes
CHECK_DEADLOCK FALSE
