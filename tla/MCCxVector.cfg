SPECIFICATION Spec
CONSTANTS
    v1 = v1
    v2 = v2
    v3 = v3
    s1 = s1
    s2 = s2
    None = None
    Virts <- MCVirts
    Slots <- MCSlots
    Half <- MCHalf
    NUM_REGS <- MCRegs
    VL <- MCVL
SYMMETRY Symmetry
INVARIANTS
    TypeOK
    RegistersFollow
    CleanMatchesImage
