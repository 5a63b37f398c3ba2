CONSTANTS
    addr1 = addr1
    addr2 = addr2
    Addrs = {addr1, addr2}
    Fds = {3, 4, 5, 6, 7, 8}
    Configurations <- MCConfigurations
    Others = {}
SPECIFICATION Spec
INVARIANTS
    EveryAddressBound
CHECK_DEADLOCK FALSE
