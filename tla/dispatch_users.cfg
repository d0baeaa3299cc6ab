SPECIFICATION Spec
CONSTANTS
    m = m
    w = w
    c1 = c1
    c2 = c2
    Nodes <- MCNodes
    Master = m
    NoNode = NoNode
    Tasks = {1}
    NoTask = NoTask
    Calls <- MCOneCall
    Priorities = {1}
    MaxRunners = 1
    CancelTasks = {1}
    DeleteTasks = {1}
    MaxCrashes = 0
    Timeouts = FALSE
    DbErrors = TRUE
INVARIANTS WithdrawnNeverHanded
PROPERTIES DeletedStaysDeleted
CHECK_DEADLOCK FALSE
