SPECIFICATION Spec
CONSTANTS
    f1 = f1
    f2 = f2
    w1 = w1
    w2 = w2
    p1 = p1
    p2 = p2
    p3 = p3
    Fare = {f1}
    Price = {p1, p2}
    NoPrice = NoPrice
    Rounded <- RoundsToP2
    Worker = {w1, w2}
    Result <- OneFare
    Reachable = TRUE
    MaxRetries = 0
    MaxFares = 1
    MaxRuns = 3
    MaxFaults = 0
SYMMETRY Symmetry
INVARIANT EveryChangeIsRecorded
CHECK_DEADLOCK FALSE
