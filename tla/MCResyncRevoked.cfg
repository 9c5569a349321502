CONSTANTS
    Terminals = {t1}
    MaxConns = 2
SPECIFICATION Spec
INVARIANTS
    RevokedIsTerminated
CHECK_DEADLOCK FALSE
