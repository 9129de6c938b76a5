SPECIFICATION Spec
CONSTANTS
    s1 = s1
    s2 = s2
    w1 = w1
    w2 = w2
    Subscription = {s1}
    Everyone = Everyone
    Worker = {w1}
    Admin = {}
    MaxRetries = 3
    MaxDay = 0
    MaxQueue = 2
    MaxFaults = 0
PROPERTY CancelledStaysCancelled
