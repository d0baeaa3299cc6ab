SPECIFICATION FairSpec
CONSTANTS
    c1 = c1
    c2 = c2
    MaxDocs = 1
    MaxStreams = 2
    Calls = {c1}
    MaxStops = 1
    MaxForms = 1
    Deletable = FALSE
    DbErrors = FALSE
PROPERTIES LiveWorkerOnline DeadWorkerOffline
CHECK_DEADLOCK FALSE
