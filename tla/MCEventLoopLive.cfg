CONSTANTS
    connection_n = 3
    Null = Null
    Request = Request
    Fds <- MCFds
    spy_posted_accept_events = spy_posted_accept_events
    spy_posted_events = spy_posted_events
    listening_n = 2
    PacketParts = 2
    MaxClients = 3
SPECIFICATION LoopFairSpec
PROPERTIES
    ClientsServed
    GreetingsFinish
CHECK_DEADLOCK FALSE
