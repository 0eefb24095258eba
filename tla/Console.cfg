SPECIFICATION ConsoleSpec
CONSTANTS
  CliBufLen = 4
  Letters <- ConsoleLetters
  LineKeys <- ConsoleKeys
  MaxLine = 6
  Chip = "esp32c6"
  Loops = {"peek", "blind", "read"}
  RxCapacity = 3
  HostBudget = 6
CHECK_DEADLOCK FALSE
INVARIANTS ConsoleTypeOK LockedLineIsEmpty OnlyFirstLineIsTorn ReadLoopIgnoresLockedBytes
INVARIANT NoFlagIsIgnored
