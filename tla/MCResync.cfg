CONSTANTS
    Terminals = {t1, t2}
    MaxConns = 3
SPECIFICATION FairSpec
INVARIANTS
    TypeOK
    LeasesSettle
    LiveKeepsItsLease
PROPERTIES
    StaleLeaseEnds
CHECK_DEADLOCK FALSE
