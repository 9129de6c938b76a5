SPECIFICATION Spec
CONSTANTS
    s1 = s1
    s2 = s2
    w1 = w1
    w2 = w2
    Subscription = {s1}
    Everyone = Everyone
    Worker = {w1, w2}
    Admin = {a1}
    MaxRetries = 2
    MaxDay = 2
    MaxQueue = 2
    MaxFaults = 2
SYMMETRY Symmetry
INVARIANT TypeOK
PROPERTIES StoppedStaysStopped DeletedStaysDeleted
