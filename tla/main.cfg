SPECIFICATION Spec
CONSTANTS
    Pair = {p1, p2}
    Trade = {t1, t2}
    Signal = {s1, s2}
    ExitCall = {e1, e2}
    NoTrade = NoTrade
    NoPair = NoPair
    MaxConcurrent = 1
    MaxTimeouts = 1
    MaxRestarts = 1
SYMMETRY Interchangeable
CONSTRAINT TwoSuspended
INVARIANTS TypeOK ClosedMeansSold MarksAreFreed PositionsBounded HoldersBounded
PROPERTY RecoveryKeepsHeld
CHECK_DEADLOCK FALSE
