CONSTANTS
    Clients = {c1, c2}
    MaxPairings = 2
    MaxConns = 2
    MaxUnread = 1
SPECIFICATION FairSpec
INVARIANTS
    PairedIsCurrent
    ConfirmedAnew
    RevokedAsTold
PROPERTIES
    EveryCommandEnds
CHECK_DEADLOCK FALSE
