SPECIFICATION FairSpec
CONSTANTS
  Pair = {p1}
  Position = {o1, o2}
  TickCall = {t1, t2}
  NoPair = NoPair
  NoPosition = NoPosition
  Live = TRUE
  SecurityGate = TRUE
  MaxConcurrent = 2
  CanaryEnabled = TRUE
  GlobalCap = 2
  MaxPending = 2
  MaxRestarts = 1
SYMMETRY InterchangeablePositions
INVARIANTS TypeOK SingleEntryPerPosition ClosedMeansSold PairOverlapBounded  ClosesWorkOnOpen
PROPERTIES NoneJoinsOpenPosition EveryCloseReturns
