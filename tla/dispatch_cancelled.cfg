SPECIFICATION Spec
CONSTANTS
    m = m
    w = w
    c1 = c1
    c2 = c2
    Nodes <- MCOneNode
    Master = m
    NoNode = NoNode
    Tasks = {1}
    NoTask = NoTask
    Calls <- MCOneCall
    Priorities = {1}
    MaxRunners = 1
    CancelTasks = {1}
    DeleteTasks = {}
    MaxCrashes = 0
    Timeouts = FALSE
    DbErrors = FALSE
PROPERTIES CancelledDoesNotRun
CHECK_DEADLOCK FALSE
