------------------------------- MODULE MCTimer -------------------------------
(* The timers for TLC. Without expiry nothing looks at what deleted timers   *)
(* leave behind (entries beyond "last", their keys and places), so states    *)
(* that differ in that only are one.                                         *)
EXTENDS SpyTimer

LiveTimers ==
    << pc, timer_set, heap.last, heap.max_num,
       {<<p, heap.node[p], heap.key[heap.node[p]], heap.index[heap.node[p]]>> :
            p \in 0 .. heap.last - 1} >>
=============================================================================
