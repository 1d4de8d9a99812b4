SPECIFICATION FairSpec
CONSTANTS
  MaxCommands = 2
  MaxSignals = 0
PROPERTY StopEndsLoop
CHECK_DEADLOCK FALSE
