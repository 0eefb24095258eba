SPECIFICATION FairSpec
CONSTANTS
  Build = "auto"
  Transports = {"jtag", "uart"}
  HostTokens <- AllTokens
  Configs = {c0, c1}
  DefaultConfig = c0
  RxCapacity = 3
  HostBudget = 5
CHECK_DEADLOCK FALSE
INVARIANTS IInv TypeOK OneBaton SettingsFrozen NoStaleStop StopWasAsked
PROPERTIES StartLostOnlyToRestart RadioOffBeforeReset ImplementsSession ImplementsFairSession
PROPERTIES TimedSessionUnlocks SeenStopKeyUnlocks RestartOutlastsRuns
