CONSTANTS
    connection_n = 3
    Null = Null
    Request = Request
    Fds <- MCFds
    spy_posted_accept_events = spy_posted_accept_events
    spy_posted_events = spy_posted_events
    listening_n = 1
    PacketParts = 2
    MaxClients = 3
SPECIFICATION LoopSpec
INVARIANTS
    LoopTypeOK
    LoopFreeListOK
    LoopTablesOK
    LoopLinksOK
    DescriptorsOK
    NoPostedEventWhenRecycled
    NoSilentConnection
PROPERTIES
    ImplementsSessions
    ImplementsConnectionPool
CHECK_DEADLOCK FALSE
