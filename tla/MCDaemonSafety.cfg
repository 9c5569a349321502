CONSTANTS
    Conns = {1, 2}
    ResponsesCap = 1
    EventsCap = 1
    Spontaneous = {}
    MaxSent = 0
    Handlers = {h1, h2}
    Senders = {t1}
    Loop = loop
    Free = free
    LocalCommands = {"pair", "revoke"}
    MaxRequests = 2
    BackoffLimit = 1
SYMMETRY Symmetry
SPECIFICATION Spec
INVARIANTS
    SupersededIsClosed
    PublishedIsConnected
    PairingKeepsItsSession
    SerialAnswersAreOwn
PROPERTIES
    ImplementsControlLink
CHECK_DEADLOCK FALSE
