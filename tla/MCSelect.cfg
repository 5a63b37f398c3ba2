CONSTANTS
    connection_n = 3
    Null = Null
    Request = Request
    Fds = {0, 1, 2, 3}
SPECIFICATION SelectSpec
INVARIANTS
    SelectTypeOK
    SelectTableOK
    SelectMasterSetsOK
    SelectMaxFdOK
    PoolFreeListOK
PROPERTY ImplementsConnectionPool
VIEW LiveTables
