SPECIFICATION Spec
CONSTANTS
    NumNodes = 3
    NumEdges = 2
    NumPieces = 2
    PctWireInPiece = 50
    RandomModes = {FALSE, TRUE}
    WaitModes = {FALSE, TRUE}
INVARIANTS TypeOK CheckPasses
PROPERTIES ReadsValid Terminates
CHECK_DEADLOCK FALSE
