SPECIFICATION Spec
CONSTANTS
    s1 = s1
    s2 = s2
    r1 = r1
    r2 = r2
    r3 = r3
    Schedules = {s1}
    Requests = {r1}
    NoRequest = NoRequest
    MaxRestarts = 0
    Deletable = FALSE
    BadCron = FALSE
    DbErrors = FALSE
INVARIANTS EnabledIsArmed
CHECK_DEADLOCK FALSE
