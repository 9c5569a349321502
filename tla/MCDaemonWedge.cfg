CONSTANTS
    Conns = {1}
    ResponsesCap = 4
    EventsCap = 16
    Spontaneous = {"pairing.state", "terminal.close"}
    MaxSent = 6
    Handlers = {}
    Senders = {}
    Loop = loop
    Free = free
    LocalCommands = {}
    MaxRequests = 0
    BackoffLimit = 1
SPECIFICATION FairSpec
PROPERTIES
    CloseIsServed
CHECK_DEADLOCK FALSE
