SPECIFICATION Spec
CONSTANTS
    Airport = {"a1", "a2", "a3"}
    Fragment <- MCFragment
    Bracketed <- MCBracketed
    Edits <- MCEdits
    Seed <- MCSeed
    Typed <- MCTyped
INVARIANT PickedAirportIsKept
PROPERTIES CodesComeFirst SharedCitiesAreRefused
