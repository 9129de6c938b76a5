SPECIFICATION FairSerialSpec
CONSTANTS
    f1 = f1
    f2 = f2
    w1 = w1
    w2 = w2
    p1 = p1
    p2 = p2
    p3 = p3
    Fare = {f1, f2}
    Price = {p1, p2}
    NoPrice = NoPrice
    Rounded <- RoundsToP2
    Worker = {w1, w2}
    Result <- UpToTwoFares
    Reachable = TRUE
    MaxRetries = 1
    MaxFares = 2
    MaxRuns = 2
    MaxFaults = 0
PROPERTIES ImplementsWatch ChangesAreDispatched
CHECK_DEADLOCK FALSE
