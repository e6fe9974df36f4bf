SPECIFICATION PSpec
CONSTANTS
    p1 = p1
    p = p1
    main = main
    addsub = addsub
    muldiv = muldiv
    None = None
    N <- MCThreads
    Files <- MCFiles
    Procs <- MCProcs
    Index <- MCIndex
    Virts <- MCVirts
    States <- MCStates
    NumStates <- MCNumStates
    Half <- MCHalf
    Operands <- MCOperands
    MacFuncs <- MCMac
    NnFuncs <- MCMac
INVARIANTS
    AssertsHold
    LeavesNothing
PROPERTIES
    Terminates
