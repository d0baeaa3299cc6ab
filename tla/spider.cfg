SPECIFICATION Spec
CONSTANTS
    Spiders = {"s1", "s2"}
    Existing = {"s1"}
    Schedules = {"c1"}
    SpiderOf <- MCSpiderOf
    Tasks = {1, 2}
    OldTasks <- MCOldTasks
    DeleteIds = {1}
    Deletable = {"s1"}
    SourceIds = {"s1"}
    DbErrors = TRUE
INVARIANTS TypeOK DeletionLeavesOnlyLate OthersUntouched
CHECK_DEADLOCK FALSE
