SPECIFICATION Spec
CONSTANTS
    NZX = 4
    NZY = 3
    NumPcX = 3
    NumPcY = 2
    WaitModes = {FALSE, TRUE}
    Unwritten = Unwritten
INVARIANTS TypeOK PointNumberingBijective CheckPasses
PROPERTIES ReadsValid Terminates
CHECK_DEADLOCK FALSE
