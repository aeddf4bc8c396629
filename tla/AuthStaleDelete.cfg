SPECIFICATION Spec
CONSTANTS
    Requests = {r1, r2}
    Genesis = genesis
    None = none
    MaxInFlight = 2
    Faults = {}
CHECK_DEADLOCK FALSE
PROPERTY DeletesOnlyItsOwnKey
