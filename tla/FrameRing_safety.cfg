SPECIFICATION Spec
CONSTANTS
  Q = 2
  MaxFrame = 5
  MaxDatagram = 2
  NetSize = 1
  Lossy = TRUE
  MaxStarts = 2
  NRequired = 2
  Bad = {2}
INVARIANTS TypeOK OccupancyBounded NoTornFrame AtMostOneStale
PROPERTIES ImplementsFifo InOrder OnlyOlderPassedOver
