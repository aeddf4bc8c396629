SPECIFICATION Spec
CONSTANTS
    Requests = {r1, r2, r3}
    Genesis = genesis
    None = none
    MaxInFlight = 1
    Faults = {"crash", "evict", "expiry", "dberror", "erase"}
CHECK_DEADLOCK FALSE
SYMMETRY RequestSymmetry
INVARIANT OnlyActiveFamilyLive SupersededNotCached QuietAgreement RevokedFamilyIsDead
