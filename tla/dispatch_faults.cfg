SPECIFICATION Spec
CONSTANTS
    m = m
    w = w
    c1 = c1
    c2 = c2
    Nodes <- MCNodes
    Master = m
    NoNode = NoNode
    Tasks = {1}
    NoTask = NoTask
    Calls <- MCCalls
    Priorities = {1}
    MaxRunners = 1
    CancelTasks = {}
    DeleteTasks = {}
    MaxCrashes = 1
    Timeouts = TRUE
    DbErrors = FALSE
INVARIANTS TypeOK PoolNeverCollides
PROPERTIES QueueRefinement
SYMMETRY CallSymmetry
CHECK_DEADLOCK FALSE
