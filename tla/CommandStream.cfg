CONSTANTS
  MaxArgc = 1
  ReadSize = 4
  MaxPackets = 3
  MaxLosses = 2
SPECIFICATION FairSpec
INVARIANTS
  TypeOK
  ExecutesPrefix
  AcksMatch
  CallbackAfterEnd
PROPERTY CommandExecuted
CHECK_DEADLOCK FALSE
