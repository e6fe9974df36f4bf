SPECIFICATION Spec
CONSTANTS
    c1 = c1
    c2 = c2
    c3 = c3
    Clients <- MCClients
    Half <- MCHalf
    CxGuid <- cx_init_guid
    NumStates <- cx_init_num_states
    StateSize <- MCStateSize
    SwInit <- MCNone
    CX_INITIAL = 1
    Guids <- MCGuids
    Operands <- MCOperands
    CloseBound <- MCCloseBound
SYMMETRY Symmetry
INVARIANT
    CounterCountsOpens
