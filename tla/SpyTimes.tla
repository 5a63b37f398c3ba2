------------------------------- MODULE SpyTimes -------------------------------
(* The time cache: a ring of slots, so that whoever reads the string of one  *)
(* keeps it while the next is written. The strings are known by their slot.  *)
EXTENDS Naturals

CONSTANTS
    TimeSlots,     \* SPY_TIME_SLOTS
    NoTime         \* spy_cached_err_log_time.data before it is set

EmptyCache ==
    [ slot     |-> 0,
      sec      |-> [i \in 0 .. TimeSlots - 1 |-> 0],
      log_time |-> NoTime ]

\* spy_time_update_r, at second sec. The lock is free: there is one thread. The
\* slot is written before it is compared, so that it always has this second.
TimeUpdate(t, sec) ==
    LET tp   == [t EXCEPT !.sec[t.slot] = sec]
        next == IF t.slot = TimeSlots - 1 THEN 0 ELSE t.slot + 1
    IN  IF tp.sec[t.slot] = sec
        THEN tp
        ELSE [tp EXCEPT !.slot = next, !.log_time = next]
=============================================================================
