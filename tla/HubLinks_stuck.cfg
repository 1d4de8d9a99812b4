SPECIFICATION Spec
CONSTANTS
  Roles = {"command", "event"}
  LastFd = 6
  MaxEvents = 1
  Stoppable = FALSE
INVARIANT WaitsOnConnection
CHECK_DEADLOCK FALSE
