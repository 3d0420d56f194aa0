SPECIFICATION Spec
CONSTANTS
    Pair = {p1}
    Trade = {t1}
    Signal = {s1}
    ExitCall = {e1}
    NoTrade = NoTrade
    NoPair = NoPair
    MaxConcurrent = 1
    MaxTimeouts = 0
    MaxRestarts = 1
SYMMETRY Interchangeable
PROPERTY RecoveryWatches
CHECK_DEADLOCK FALSE
