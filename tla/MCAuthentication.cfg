CONSTANTS
    connection_n = 3
    Null = Null
    Request = Request
    Fds <- MCFds
    spy_posted_accept_events = spy_posted_accept_events
    spy_posted_events = spy_posted_events
    listening_n = 1
    PacketParts = 2
    MaxClients = 1
SPECIFICATION LoopSpec
INVARIANT AuthenticationHandled
CHECK_DEADLOCK FALSE
