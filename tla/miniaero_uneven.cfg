SPECIFICATION Spec
CONSTANTS
    GX = 3
    GY = 3
    GZ = 1
    BlocksX = 2
    BlocksY = 2
    BlocksZ = 1
    ProblemTypes = {0, 1, 2}
    WaitModes = {FALSE, TRUE}
    Unwritten = Unwritten
INVARIANTS TypeOK CellNumbering CheckPasses
PROPERTIES ReadsValid Terminates
CHECK_DEADLOCK FALSE
