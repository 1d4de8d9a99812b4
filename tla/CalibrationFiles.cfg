SPECIFICATION Spec
CONSTANTS
  Secs = {0, 1}
  Millis = {9, 10, 95}
  MaxStarts = 2
INVARIANTS TypeOK LatestIsNewest TrueMeansTable TableSound
PROPERTY TableNeverBack
