SPECIFICATION Spec
CONSTANTS
    v1 = v1
    v2 = v2
    v3 = v3
    s1 = s1
    s2 = s2
    None = None
    Virts <- MCVirts
    States <- MCStates
    Half <- MCHalf
    Operands <- MCOperands
    MacFuncs <- AllMac
    NnFuncs <- AllNn
SYMMETRY Symmetry
INVARIANT
    CleanMatchesSaved
