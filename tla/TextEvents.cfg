SPECIFICATION Spec
CONSTANTS
  MaxMore = 3
  Texts <- MCTexts
INVARIANTS
  TokenizeSplits
  HandlersReadOwnLine
  OnlyBarsAreUndefined
  FramesCarry
  DialogShowsTyped
CHECK_DEADLOCK FALSE
