SPECIFICATION LiveSpec
CONSTANTS
    Reminder = {r1}
    Process = {p1, p2}
    LeaseId = {l1, l2, l3}
    NoLease = NoLease
    NoReminder = NoReminder
    LeaseTime = 1
    MaxFailures = 2
    ClaimLimit = 1
    Interval = {1}
    Parked = 9
    BadSchedule = {}
    ByChannel = {}
    MaxClock = 3
CHECK_DEADLOCK FALSE
PROPERTIES DueIsClaimed ClaimedIsRun
