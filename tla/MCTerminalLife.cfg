CONSTANTS
    Ids = {a}
    MaxTerminals = 1
    MaxChanges = 3
    InOrder = TRUE
SPECIFICATION FairSpec

    
PROPERTIES
    CloseCompletes
    
    CloseAllReturns
CHECK_DEADLOCK FALSE
