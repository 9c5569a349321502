CONSTANTS
    Conns = {1}
    ResponsesCap = 1
    EventsCap = 1
    Spontaneous = {"pairing.state", "terminal.close", "rejected"}
    MaxSent = 2
    Handlers = {h1}
    Senders = {}
    Loop = loop
    Free = free
    LocalCommands = {"pair", "status"}
    MaxRequests = 1
    BackoffLimit = 2
SPECIFICATION FairSpec
INVARIANTS
    TypeOK
    EventsUnbroken
PROPERTIES
    EveryCommandReturns
    DeadLinkIsRetired
    ShutdownCompletes
    ImplementsFairControlLink
CHECK_DEADLOCK FALSE
