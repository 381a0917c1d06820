SPECIFICATION FairSpec
CONSTANTS
    t1 = t1
    t2 = t2
    s1 = s1
    c1 = c1
    c2 = c2
    k1 = k1
    k2 = k2
    k3 = k3
    None = None
    Threads <- MCThreads
    Senders <- MCSenders
    Callers <- MCCallers
    Connections <- MCConnections
    MayHang = TRUE
INVARIANTS
    TypeOK
    OneClientThread
    SendKeepsConnection
    ReceiverHasConnection
    ConnectionsOwned
    ConnectedIsPublished
PROPERTIES
    EventsInOrder
    StopReturns
    SendEnds
    Reconnects
    BreakIsNoticed
CHECK_DEADLOCK FALSE
