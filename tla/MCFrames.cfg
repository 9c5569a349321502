CONSTANTS
    Bytes = {0, 3, 232, 233}
    Sizes = {0, 1, 256, 1000, 1001, 65535}
    MaxFrame = 6
    MaxOutput = 6
SPECIFICATION Spec
INVARIANTS
    
    SizeAsAsked
    
CHECK_DEADLOCK FALSE
