SPECIFICATION Spec
CONSTANTS
    f1 = f1
    f2 = f2
    w1 = w1
    w2 = w2
    p1 = p1
    p2 = p2
    p3 = p3
    Fare = {f1}
    Price = {p1, p2, p3}
    NoPrice = NoPrice
    Rounded <- RoundsToP2
    Worker = {w1, w2}
    Result <- TwoExactFares
    Reachable = TRUE
    MaxRetries = 1
    MaxFares = 2
    MaxRuns = 3
    MaxFaults = 1
SYMMETRY Symmetry
INVARIANTS TypeOK EventsAreExplained NewPricesAreRecorded NotifiesCommittedChanges BoundedDispatch
CHECK_DEADLOCK FALSE
