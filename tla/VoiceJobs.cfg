SPECIFICATION FairSpec
CONSTANTS
    Uploads = {u1, u2}
    Processes = {p1, p2}
    None = none
    MaxCrashes = 2
CHECK_DEADLOCK FALSE
INVARIANT TypeOK RowHasObject RecordIffCompleted NoUnaccountedObject
PROPERTY ImplementsJobLife JobSettles
