CONSTANTS
    Cleaner = Cleaner
    Timers = {t1, t2, t3, t4, t5, t6, Cleaner}
    Null = Null
    TimerLazyDelay = 2
    Delays = {1, 4}
    MaxNow = 0
SPECIFICATION ApiSpec
INVARIANTS
    TimerTypeOK
    HeapTimersOK
PROPERTIES
    OrderKept
    ImplementsTimerSet
CHECK_DEADLOCK FALSE
VIEW LiveTimers
