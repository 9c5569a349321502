CONSTANTS
    Ids = {a, b}
    MaxTerminals = 2
    MaxChanges = 0
    InOrder = FALSE
SYMMETRY Symmetry
SPECIFICATION Spec
INVARIANTS
    TypeOK
    ClosedHoldsNothing
    RegistryIsExact
    CloseSignalIsDone
PROPERTIES
    ImplementsLease
CHECK_DEADLOCK FALSE
