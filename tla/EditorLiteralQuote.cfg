SPECIFICATION Spec
CONSTANTS
  CliBufLen = 4
  Letters = {"x"}
  LineKeys <- NoLineFeed
  MaxLine = 4
INVARIANT CommandIsVisibleLine
