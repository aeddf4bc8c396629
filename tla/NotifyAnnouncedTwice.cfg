SPECIFICATION Spec
CONSTANTS
    Processes = {p1}
    Batches = {b1}
    Devices = {d1}
    ScheduleKey = schedule
    None = none
    YearLength = 2
    Phases = {1}
    Offsets = {1}
    ScheduleTimes = {1}
    Unreadable = {}
    BatchSize = 1
    MaxNow = 3
    MaxEdits = 2
    MaxCrashes = 0
CHECK_DEADLOCK FALSE
PROPERTY BirthdayAnnouncedOnce
