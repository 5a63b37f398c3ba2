CONSTANTS
    Timers = {t1, t2, Cleaner}
    Cleaner = Cleaner
    Null = Null
    TimerLazyDelay = 2
    Delays = {1, 3}
    MaxNow = 3
SPECIFICATION TimerSpec
INVARIANTS
    WakesInTime
CHECK_DEADLOCK FALSE
