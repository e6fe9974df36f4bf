SPECIFICATION Spec
CONSTANTS
    Half <- MCHalf
    XLEN <- MCXlen
    Pow2 <- MCPow2
    Cxs <- MCCxs
    CFs <- MCCFs
    Operands <- MCOperands
    Few <- MCFew
    Garbage <- MCGarbage
INVARIANTS
    TypeOK
    WildCallsShow
    ScalarsExact
    LanesAreIndependent
    ReadBack
