SPECIFICATION FairSpec
CONSTANTS
  Build = "uart"
  Transports = {"uart"}
  HostTokens <- AllTokens
  Configs = {c0, c1}
  DefaultConfig = c0
  RxCapacity = 3
  HostBudget = 5
CHECK_DEADLOCK FALSE
INVARIANT IInv
PROPERTIES SeenStopKeyUnlocks RestartOutlastsRuns
