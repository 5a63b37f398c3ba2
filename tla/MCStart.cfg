CONSTANTS
    Fds = {0, 1, 2, 3, 4}
    Null = Null
    TimeSlots = 2
    NoTime = NoTime
    Seconds = {1, 2}
    Keys = {"listen_addr", "work_connections", "error_log", "error_level", "debug_level"}
SPECIFICATION StartSpec
INVARIANT StartLaunches
CHECK_DEADLOCK FALSE
