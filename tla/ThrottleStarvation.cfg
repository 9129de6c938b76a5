SPECIFICATION FairSystem
CONSTANTS
    s1 = s1
    s2 = s2
    w1 = w1
    w2 = w2
    ryanair = ryanair
    wizzair = wizzair
    Subscription = {s1, s2}
    Everyone = Everyone
    Worker = {w1}
    Admin = {}
    MaxRetries = 1
    MaxDay = 0
    MaxQueue = 1
    MaxFaults = 0
    Rotation <- MCRotation
    Throttled = {wizzair}
    NoProvider = NoProvider
PROPERTY FaresKeepBeingSearched
