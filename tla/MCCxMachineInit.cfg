SPECIFICATION Spec
CONSTANTS
    c1 = c1
    c2 = c2
    c3 = c3
    Clients <- MCClients
    Half <- MCHalf
    CxGuid <- SwGuid
    NumStates <- SwNumStates
    StateSize <- SwStateSize
    SwInit <- SwInitSet
    CX_INITIAL = 67108864
    Guids <- SwGuids
    Operands <- MCOperands
    CloseBound <- MCCloseBound
SYMMETRY Symmetry
PROPERTY
    OpenInitialises
