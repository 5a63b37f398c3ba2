CONSTANTS
    PoolSize = 4
    PoolHeader = 2
    DataHeader = 2
    MaxSmall = 3
    Alignment = 2
    LargeHeader = 2
    BufHeader = 2
    ArrayHeader = 2
    ListHeader = 2
    PartHeader = 1
    MaxFailed = 0
    Scanned = 1
    Large = {L1, L2}
    Null = Null
    Sizes = {1, 3}
    MaxBlocks = 5
    MaxElements = 3
SPECIFICATION PallocSpec
INVARIANTS
    PallocTypeOK
    RegionsOK
    LargeListOK
    CurrentOK
    ElementsOK
