SPECIFICATION ConsoleSpec
CONSTANTS
  CliBufLen = 4
  Letters <- ConsoleLetters
  LineKeys <- StartKeys
  MaxLine = 4
  Chip = "esp32c6"
  Loops = {"peek"}
  RxCapacity = 3
  HostBudget = 4
CHECK_DEADLOCK FALSE
INVARIANT LockedBytesAreIgnored
