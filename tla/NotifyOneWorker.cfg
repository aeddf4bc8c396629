SPECIFICATION Spec
CONSTANTS
    Processes = {p1}
    Batches = {b1, b2}
    Devices = {d1}
    ScheduleKey = schedule
    None = none
    YearLength = 2
    Phases = {1}
    Offsets = {0, 1}
    ScheduleTimes = {1, 2}
    Unreadable = {"schedule"}
    BatchSize = 1
    MaxNow = 3
    MaxEdits = 3
    MaxCrashes = 1
CHECK_DEADLOCK FALSE
INVARIANT TypeOK EveryPushWasArmed SentIsInInbox PendingIsCurrent OneBirthdayArmed ChainUnbroken
