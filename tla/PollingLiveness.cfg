SPECIFICATION FairSystem
CONSTANTS
    s1 = s1
    s2 = s2
    w1 = w1
    w2 = w2
    ryanair = ryanair
    wizzair = wizzair
    Subscription = {s1}
    Everyone = Everyone
    Worker = {w1, w2}
    Admin = {}
    MaxRetries = 0
    MaxDay = 1
    MaxQueue = 1
    MaxFaults = 1
    Rotation <- MCRotation
    Throttled = {wizzair}
    NoProvider = NoProvider
INVARIANT LoopTypeOK
PROPERTIES WindowCloses ActiveKeepsBeingPolled ProvidersKeepBeingPolled
