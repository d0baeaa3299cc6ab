SPECIFICATION Spec
CONSTANTS
    r1 = r1
    r2 = r2
    Requests = {r1}
    MaxRows = 1
    OnMaster = FALSE
    Deletable = TRUE
    DbErrors = TRUE
INVARIANTS
    TypeOK StatusTellsExit SenderLeftOnlyAfterKill OrphanNeverWatched
    EndedStatStarted CountedTaskStarted ResultsNeverOvercounted
PROPERTIES LifeRefinement
CHECK_DEADLOCK FALSE
