SPECIFICATION Spec
CONSTANTS
    r1 = r1
    r2 = r2
    Paths <- MCPaths
    Above <- MCAbove
    Asked <- MCAsked
    Versions = {"v1", "v2"}
    Runners <- MCRunners
    MaxEdits = 2
    HttpErrors = TRUE
    MayCrash = TRUE
INVARIANTS TypeOK StartsFresh FailsForAReason
SYMMETRY RunnerSymmetry
CHECK_DEADLOCK FALSE
