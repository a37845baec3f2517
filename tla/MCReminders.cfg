SPECIFICATION Spec
CONSTANTS
    Reminder = {r1, r2}
    Process = {p1, p2}
    LeaseId = {l1, l2, l3}
    NoLease = NoLease
    NoReminder = NoReminder
    LeaseTime = 1
    MaxFailures = 2
    ClaimLimit = 2
    Interval = {1}
    Parked = 9
    BadSchedule = {r2}
    ByChannel = {r1}
    MaxClock = 4
SYMMETRY Symmetry
CHECK_DEADLOCK FALSE
INVARIANTS
    LeasesHold
PROPERTIES
    LateRunsHarmless
    KeepsPromise
