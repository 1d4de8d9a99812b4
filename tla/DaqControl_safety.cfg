SPECIFICATION FairSpec
CONSTANTS
  MaxCommands = 4
  MaxSignals = 1
INVARIANTS StartJoinsFinishedThread LoopUsesLiveServer FlagTellsLoop TerminateOnlyAfterSelfExit
PROPERTIES DoubleFreeOnlyAfterFailedInit CommandsEnd
CHECK_DEADLOCK FALSE
