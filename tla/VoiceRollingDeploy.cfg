SPECIFICATION Spec
CONSTANTS
    Uploads = {u1}
    Processes = {p1, p2}
    None = none
    MaxCrashes = 1
CHECK_DEADLOCK FALSE
PROPERTY BootFailsOnlyOrphans
