SPECIFICATION Spec
CONSTANTS
  Pair = {p1}
  Position = {o1}
  TickCall = {t1}
  NoPair = NoPair
  NoPosition = NoPosition
  Live = TRUE
  SecurityGate = FALSE
  MaxConcurrent = 1
  CanaryEnabled = TRUE
  GlobalCap = 1
  MaxPending = 2
  MaxRestarts = 0
INVARIANT BoughtPositionIsMonitored
