SPECIFICATION Spec
CONSTANTS
    c1 = c1
    c2 = c2
    MaxDocs = 1
    MaxStreams = 1
    Calls = {c1, c2}
    MaxStops = 1
    MaxForms = 1
    Deletable = TRUE
    DbErrors = TRUE
INVARIANTS TypeOK StatusMatchesActive
PROPERTIES DeletedStaysDeleted
SYMMETRY CallSymmetry
CHECK_DEADLOCK FALSE
