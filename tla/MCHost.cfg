CONSTANTS
    Procs = {2, 3, 4}
    MaxCrashes = 1
SPECIFICATION FairSpec
INVARIANTS
    TypeOK
    OneIdentity
    RunningIsReachable
    UpgradeTakesEffect
    UninstallStopsAll
PROPERTIES
    SupervisedAgentRuns
CHECK_DEADLOCK FALSE
