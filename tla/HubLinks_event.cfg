SPECIFICATION FairSpec
CONSTANTS
  Roles = {"event"}
  LastFd = 4
  MaxEvents = 3
  Stoppable = TRUE
PROPERTIES LinkRecovered StopReturns
CHECK_DEADLOCK FALSE
