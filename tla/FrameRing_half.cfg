SPECIFICATION FairSpec
CONSTANTS
  Q = 4
  MaxFrame = 8
  MaxDatagram = 1
  NetSize = 1
  Lossy = FALSE
  MaxStarts = 1
  NRequired = 6
  Bad = {}
INVARIANT AtMostOneFrameMore
PROPERTIES ImplementsFifo RequestAnswered
