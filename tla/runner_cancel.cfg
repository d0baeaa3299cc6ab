SPECIFICATION FairSpec
CONSTANTS
    r1 = r1
    r2 = r2
    Requests = {r1, r2}
    MaxRows = 0
    OnMaster = TRUE
    Deletable = FALSE
    DbErrors = FALSE
INVARIANTS CancelOkMeansEnded 
PROPERTIES RunnerLeaves CancelKills
CHECK_DEADLOCK FALSE
