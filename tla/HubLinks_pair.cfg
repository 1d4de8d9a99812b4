SPECIFICATION Spec
CONSTANTS
  Roles = {"command", "event"}
  LastFd = 5
  MaxEvents = 1
  Stoppable = TRUE
INVARIANTS NoLeak ConnectionChecked
 
CHECK_DEADLOCK FALSE
