SPECIFICATION Spec
CONSTANTS
    Requests = {r1, r2, r3}
    Genesis = genesis
    None = none
    MaxInFlight = 3
    Faults = {"outage", "evict", "dberror", "erase"}
CHECK_DEADLOCK FALSE
SYMMETRY RequestSymmetry
INVARIANT TypeOK RotatedOnce ActiveFamilyHasLiveToken PromotedWasCommitted
PROPERTY ImplementsSingleSession
