SPECIFICATION FairSpec
CONSTANTS
  Build = "auto"
  Transports = {"uart"}
  HostTokens <- CoreTokens
  Configs = {c0, c1}
  DefaultConfig = c0
  RxCapacity = 3
  HostBudget = 3
CHECK_DEADLOCK FALSE
PROPERTY StopKeyUnlocks
