SPECIFICATION FairSpec
CONSTANTS
    Processes = {p1}
    Batches = {b1}
    Devices = {d1}
    ScheduleKey = schedule
    None = none
    YearLength = 2
    Phases = {0}
    Offsets = {1}
    ScheduleTimes = {1}
    Unreadable = {"schedule"}
    BatchSize = 2
    MaxNow = 2
    MaxEdits = 3
    MaxCrashes = 1
CHECK_DEADLOCK FALSE
PROPERTY QueueDrains
