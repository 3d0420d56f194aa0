SPECIFICATION Spec
CONSTANTS
  Mint = {m1}
  Position = {p1, p2, p3}
  Call = {c1, c2, c3}
  NoPosition = NoPosition
  GlobalCap = 2
  MaxConcurrent = 2
  SwingMaxConcurrent = 1
  MigrationMaxConcurrent = 1
  MaxRestarts = 1
SYMMETRY Symmetry
INVARIANTS TypeOK ClosedMeansSold SlotsCounted OneBuyPerPair
PROPERTIES ClosesInTurn
CHECK_DEADLOCK FALSE
