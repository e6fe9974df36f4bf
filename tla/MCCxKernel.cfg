SPECIFICATION KSpec
CONSTANTS
    p1 = p1
    p2 = p2
    i1 = i1
    i2 = i2
    None = None
    Procs <- MCProcs
    Index <- MCIndex
    Virts <- MCVirts
    States <- MCStates
    NumStates <- MCNumStates
    Half <- MCHalf
    Operands <- MCOperands
    MacFuncs <- MarkingMac
    NnFuncs <- MarkingNn
SYMMETRY Symmetry
INVARIANTS
    TypeOK
    LoadedOnce
    CleanMatchesSaved
    PoolExact
PROPERTIES
    ImplementsPrivate
