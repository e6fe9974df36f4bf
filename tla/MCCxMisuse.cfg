SPECIFICATION MSpec
CONSTANTS
    c1 = c1
    c2 = c2
    Clients <- MCClients
    Half <- MCHalf
    CxGuid <- MCCxGuid
    NumStates <- MCNumStates
    StateSize <- MCStateSize
    SwInit <- MCSwInit
    CX_INITIAL = 1
    Guids <- MCGuids
    Operands <- MCOperands
    CloseBound <- MCCloseBound
SYMMETRY Symmetry
INVARIANTS
    ExclusiveUnlessFreed
    AvailUnlessFreed
    IsolatedUnlessHarmed
PROPERTY
    SwInitZeroed
