SPECIFICATION Spec
CONSTANTS
    Pair = {p1, p2, p3}
    Trade = {t1, t2, t3, t4}
    Signal = {s1, s2}
    ExitCall = {}
    NoTrade = NoTrade
    NoPair = NoPair
    MaxConcurrent = 3
    MaxTimeouts = 0
    MaxRestarts = 0
SYMMETRY Interchangeable
INVARIANT ConcurrentCapKept
CHECK_DEADLOCK FALSE
