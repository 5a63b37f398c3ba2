CONSTANTS
    connection_n = 2
    Null = Null
    spy_posted_accept_events = spy_posted_accept_events
    spy_posted_events = spy_posted_events
SPECIFICATION PostedSpec
INVARIANT
    PostedLinksOK
PROPERTY ImplementsStacks
