SPECIFICATION Spec
CONSTANTS
    Capacity <- MCCapacity
    Items <- MCItems
INVARIANTS
    TypeOK
    RearIsLast
PROPERTIES
    ImplementsFifo
