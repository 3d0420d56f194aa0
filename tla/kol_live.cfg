SPECIFICATION Spec
CONSTANTS
  Mint = {m1}
  Position = {p1, p2}
  Call = {c1, c2}
  NoPosition = NoPosition
  NoCall = NoCall
  Sublane <- MCSublane
  PartialTake = TRUE
  TailRetain = TRUE
  MaxConcurrent = 1
  Bought = 2
  Promoted <- MCPromoted
  MaxTokens = 3
  MaxRestarts = 1
INVARIANTS TypeOK ClosedWhileClosing NoCloseDuringTake NoSlotLeak HeldIsKnown NothingStuckInFlight
PROPERTIES TierKept DeferredCloseStarts
CHECK_DEADLOCK FALSE
