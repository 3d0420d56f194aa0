SPECIFICATION Spec
CONSTANTS
  Pair = {p1}
  Position = {o1, o2}
  TickCall = {t1}
  NoPair = NoPair
  NoPosition = NoPosition
  Live = TRUE
  SecurityGate = TRUE
  MaxConcurrent = 2
  CanaryEnabled = TRUE
  GlobalCap = 2
  MaxPending = 2
  MaxRestarts = 0
INVARIANT OneOpenPositionPerPair
