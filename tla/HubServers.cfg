SPECIFICATION FairSpec
CONSTANTS
  NFds = 2
  MaxHubs = 1
  MaxListeners = 2
  MaxCommands = 1
INVARIANTS NoLeak SuccessIsTrue HarmOnlyAfterLoss
PROPERTY StopReturns
CHECK_DEADLOCK FALSE
