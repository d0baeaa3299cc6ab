SPECIFICATION FairSpec
CONSTANTS
    s1 = s1
    s2 = s2
    r1 = r1
    r2 = r2
    r3 = r3
    Schedules = {s1, s2}
    Requests = {r1, r2}
    NoRequest = NoRequest
    MaxRestarts = 1
    Deletable = TRUE
    BadCron = TRUE
    DbErrors = TRUE
INVARIANTS TypeOK
PROPERTIES UntouchedStaysArmed DeletedStaysDeleted LeftoversGo EntriesAreNamed
CHECK_DEADLOCK FALSE
