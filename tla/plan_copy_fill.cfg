SPECIFICATION Spec
CONSTANTS
    iA = iA  iB = iB  iC = iC  iG = iG
    m0 = m0  m1 = m1  g = g  n0 = n0  n1 = n1
    Insts <- MCInsts
    Mems <- MCMems
    Nodes <- MCNodes
    InstMem <- MCInstMem
    MemNode <- MCMemNode
    GlobalMems <- MCGlobalMems
    MyNode = n0
    Fields <- MCFields
    MaxFields = 2
    Redops = {0, 7}
    FillValueSizes = {1, 2, 3}
INVARIANTS TypeOK CopyPairsBytes NoAssertFailure PlansRunWhereSpecSays FillPlansMatchFields
CHECK_DEADLOCK FALSE
