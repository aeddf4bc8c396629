SPECIFICATION MCSpec
CONSTANTS
    Requests = {q1, q2}
    p1 = p1
    p2 = p2
    r1 = r1
    s1 = s1
    SeedPeople = {p1, p2}
    SeedRecords = {r1}
    SeedSchedules = {s1}
    Phones = {a, b}
    None = None
    Faults = {"s3", "dberror", "ackLost", "crash"}
SYMMETRY Symmetry
CHECK_DEADLOCK FALSE
INVARIANTS TypeOK NoDeadLink ObjectsAccounted MediaOwned RecordingKept
PROPERTIES DeletesExactlyOrphans PhoneTakenOnce RecordKeepsItsSchedule
