SPECIFICATION Spec
CONSTANTS
  Build = "jtag-serial"
  Transports = {"jtag"}
  HostTokens <- CoreTokens
  Configs = {c0, c1}
  DefaultConfig = c0
  RxCapacity = 3
  HostBudget = 4
CHECK_DEADLOCK FALSE
INVARIANT StopWasAsked
