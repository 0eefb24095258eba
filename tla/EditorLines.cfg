SPECIFICATION Spec
CONSTANTS
  CliBufLen = 4
  Letters = {"x"}
  LineKeys <- AllKeys
  MaxLine = 5
INVARIANTS TypeOK ForwardedMirrorsUsed QuoteMatchesShadow IntactLineIsCommand ShadowMirrorsLine
