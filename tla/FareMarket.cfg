SPECIFICATION Spec
CONSTANTS
    k1 = k1
    k2 = k2
    t1 = t1
    t2 = t2
    None = None
    Empty = Empty
    NoPrice = NoPrice
    Price = {1, 2}
    Flight <- MCFlight
    KeyPaths <- MCKeyPaths
    Scenario <- MCScenario
    MaxPolls = 3
    MaxDays = 4
INVARIANTS RepricingsAreEvents EventsCompareOneFlight OffersAreBest
PROPERTY WindowsMoveOn
CHECK_DEADLOCK FALSE
