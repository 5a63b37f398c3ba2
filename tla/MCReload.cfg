CONSTANTS
    addr1 = addr1
    addr2 = addr2
    Addrs = {addr1, addr2}
    Fds = {3, 4, 5, 6, 7}
    Configurations <- MCConfigurations
    Others = {addr2}
    connection_n = 3
    Null = Null
    Request = Request
SPECIFICATION ReloadSpec
INVARIANTS
    ReloadTypeOK
    RunningSocketsOK
    RunningFreeListOK
    ReloadWatchOK
PROPERTIES
    ReloadAllOrNothing
CHECK_DEADLOCK FALSE
VIEW RunningState
