SPECIFICATION FairSpec
CONSTANTS
    Requests = {r1, r2}
    Genesis = genesis
    None = none
    MaxInFlight = 2
    Faults = {"crash", "outage", "evict", "dberror", "erase"}
CHECK_DEADLOCK FALSE
PROPERTY EveryRequestEnds UncommittedKeyGoesAway
