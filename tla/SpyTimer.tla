------------------------------ MODULE SpyTimer ------------------------------
(* The timers of the events: a binary heap of pointers to events, ordered by *)
(* the time they are due. heap.node is the array, heap.last its length;      *)
(* heap.key and heap.index are the fields of each event's spy_minheap_node_t.*)
(* Entries beyond "last" keep what they held: spy_minheap_min looks at one.  *)
EXTENDS Integers, FiniteSets, FiniteSetsExt

CONSTANTS
    Timers,         \* the events of the connections, and Cleaner
    Cleaner,        \* spy_cleaner_event, which spy_global_init sets
    Null,           \* an entry of the array nobody wrote
    TimerLazyDelay, \* SPY_TIMER_LAZY_DELAY
    Delays,         \* the delays timers are set with
    MaxNow          \* bound on the clock

\* The array has 10 entries whatever number of timers is asked for: with more
\* than 10 it would be overrun.
max_timers == Cardinality(Timers \ {Cleaner})

ASSUME TimersAssumption ==
    /\ IsFiniteSet(Timers) /\ Cleaner \in Timers /\ Null \notin Timers
    /\ max_timers \in 2 .. 10
    /\ Delays \subseteq Nat \ {0} /\ TimerLazyDelay \in Nat \ {0}
    /\ MaxNow \in Nat

VARIABLES
    heap,           \* spy_event_timer_heap
    timer_set,      \* ev->timer_set
    now,            \* spy_current_msec
    pc              \* the place in the loop

vars == <<heap, timer_set, now, pc>>

Places   == 0 .. max_timers - 1
Parent(i) == (i - 1) \div 2

\* Handlers of events run before the timers expire (accepting), or after.
Handling == {"accepting", "loop"}

HeapType ==
    [ last    : 0 .. max_timers,
      max_num : 0 .. max_timers,
      node    : [Places -> Timers \cup {Null}],
      key     : [Timers -> Nat],
      index   : [Timers -> Nat] ]

TimerTypeOK ==
    /\ heap \in HeapType
    /\ timer_set \in [Timers -> BOOLEAN]
    /\ now \in 0 .. MaxNow
    /\ pc \in {"start"} \cup Handling \cup {"expiring", "bad_pointer"}

\* Static memory, before spy_minheap_init.
NoHeap ==
    [ last |-> 0, max_num |-> 0, node |-> [p \in Places |-> Null],
      key |-> [t \in Timers |-> 0], index |-> [t \in Timers |-> 0] ]

\* spy_minheap_init.
MinheapInit(h) == [h EXCEPT !.last = 0, !.max_num = max_timers]

(* The places a sift goes through from a on: next[p] is the place it goes to *)
(* from p, or p itself where it stops.                                       *)
Path(a, next) ==
    LET at[n \in 0 .. max_timers] == IF n = 0 THEN a ELSE next[at[n - 1]]
    IN  {at[n] : n \in 0 .. max_timers}

\* Mutant: only the timer that is placed learns its place.
SiftSilently(h, a, next, t) ==
    LET path == Path(a, next)
    IN  [h EXCEPT !.node  = [p \in Places |-> IF p \notin path THEN h.node[p]
                                              ELSE IF next[p] = p THEN t
                                              ELSE h.node[next[p]]],
                  !.index = [h.index EXCEPT ![t] = CHOOSE p \in path : next[p] = p]]

(* The assignments of a sift: each place gets what was at the next one, the  *)
(* last gets t, and every timer written learns its place.                    *)
Sift(h, a, next, t) ==
    LET path    == Path(a, next)
        Put(p)  == IF next[p] = p THEN t ELSE h.node[next[p]]
        Home(x) == {p \in path : Put(p) = x}
    IN  [h EXCEPT !.node  = [p \in Places |-> IF p \in path THEN Put(p) ELSE h.node[p]],
                  !.index = [x \in Timers |-> IF Home(x) = {} THEN h.index[x]
                                              ELSE CHOOSE p \in Home(x) : TRUE]]

(* spy_minheap_insert at the end of the heap: ancestors due later move down, *)
(* until one is not due later. A full heap takes nothing.                    *)
MinheapInsert(h, t) ==
    LET up == [p \in 0 .. h.last |->
                 IF p = 0 \/ h.key[t] >= h.key[h.node[Parent(p)]] THEN p ELSE Parent(p)]
    IN  IF h.last = h.max_num
        THEN h
        ELSE Sift([h EXCEPT !.last = h.last + 1], h.last, up, t)

\* Mutant: the last timer takes the hole and stays there.
DeleteUnsifted(h, index) ==
    IF h.last = 0
    THEN h
    ELSE Sift([h EXCEPT !.last = h.last - 1], index, [p \in Places |-> p], h.node[h.last - 1])

(* spy_minheap_delete: the last timer takes the hole, after children due     *)
(* before it have moved up.                                                  *)
MinheapDelete(h, index) ==
    LET last     == h.last - 1
        Key(p)   == h.key[h.node[p]]
        Child(p) == IF 2 * p + 1 < last - 1 /\ Key(2 * p + 1) > Key(2 * p + 2)
                    THEN 2 * p + 2 ELSE 2 * p + 1
        down     == [p \in Places |->
                       IF 2 * p + 1 >= last \/ Key(last) <= Key(Child(p)) THEN p ELSE Child(p)]
    IN  IF h.last = 0
        THEN h
        ELSE Sift([h EXCEPT !.last = last], index, down, h.node[last])

\* spy_minheap_min, which takes the second entry for the root.
MinheapMin(h) == IF h.last = 0 THEN Null ELSE h.node[1]

-----------------------------------------------------------------------------
\* The state the timer functions work on.
State == [heap |-> heap, timer_set |-> timer_set]

Become(s) == heap' = s.heap /\ timer_set' = s.timer_set

\* Mutant: deletes the root, the only deletion there once was.
DelRoot(s, t) ==
    [heap |-> MinheapDelete(s.heap, 0), timer_set |-> [s.timer_set EXCEPT ![t] = FALSE]]

\* spy_event_del_timer
DelTimer(s, t) ==
    [heap |-> MinheapDelete(s.heap, s.heap.index[t]),
     timer_set |-> [s.timer_set EXCEPT ![t] = FALSE]]

\* Mutant: the delay is taken off the time.
AddBackwards(s, t, delay) ==
    LET r == IF s.timer_set[t] THEN DelTimer(s, t) ELSE s
    IN  [heap |-> MinheapInsert([r.heap EXCEPT !.key[t] = now - delay], t),
         timer_set |-> [r.timer_set EXCEPT ![t] = TRUE]]

(* spy_event_add_timer: a timer that is set stays as it is when the new time *)
(* differs little, else it is deleted first. Nobody looks at whether the     *)
(* heap had room.                                                            *)
AddTimer(s, t, delay) ==
    LET key  == now + delay
        lazy == key - s.heap.key[t] \in 1 - TimerLazyDelay .. TimerLazyDelay - 1
        r    == IF s.timer_set[t] THEN DelTimer(s, t) ELSE s
    IN  IF s.timer_set[t] /\ lazy
        THEN s
        ELSE [heap |-> MinheapInsert([r.heap EXCEPT !.key[t] = key], t),
              timer_set |-> [r.timer_set EXCEPT ![t] = TRUE]]

-----------------------------------------------------------------------------
Init ==
    /\ heap = NoHeap
    /\ timer_set = [t \in Timers |-> FALSE]
    /\ now = 0
    /\ pc = "start"

\* The end of spy_global_init, before the heap exists or on a reload.
SetCleaner ==
    /\ pc \in {"start", "loop"}
    /\ ~ timer_set[Cleaner]
    /\ \E d \in Delays : Become(AddTimer(State, Cleaner, d))
    /\ UNCHANGED <<now, pc>>

\* spy_event_timer_init, from spy_event_init.
TimerInit ==
    /\ pc = "start" /\ timer_set[Cleaner]
    /\ heap' = MinheapInit(heap)
    /\ pc' = "loop"
    /\ UNCHANGED <<timer_set, now>>

\* A handler sets or deletes the timer of a connection's event.
Add(t, d) ==
    /\ pc \in Handling /\ t # Cleaner
    /\ Become(AddTimer(State, t, d))
    /\ UNCHANGED <<now, pc>>

Del(t) ==
    /\ pc \in Handling /\ t # Cleaner /\ timer_set[t]
    /\ Become(DelTimer(State, t))
    /\ UNCHANGED <<now, pc>>

ApiNext ==
    \/ SetCleaner \/ TimerInit
    \/ \E t \in Timers : Del(t) \/ \E d \in Delays : Add(t, d)

\* Timers are set and deleted, and none is expired.
ApiSpec == Init /\ [][ApiNext]_vars

-----------------------------------------------------------------------------
\* spy_event_find_timer: how long select(2) may wait; -1 is SPY_TIMER_INFINITE.
FindTimer(h) ==
    LET t == MinheapMin(h)
    IN  IF t = Null THEN -1
        ELSE Max({h.key[t] - now, 0})

\* select(2) updates the time; timers are looked at when it changed.
Turn(time) ==
    /\ pc = "loop" /\ time > now
    /\ now' = time
    /\ pc' = "accepting"
    /\ UNCHANGED <<heap, timer_set>>

Accepted ==
    /\ pc = "accepting"
    /\ pc' = "expiring"
    /\ UNCHANGED <<heap, timer_set, now>>

\* What a handler does with its own timer: nothing, or set it again.
Handled(s, t) == {s} \cup {AddTimer(s, t, d) : d \in Delays}

(* One turn of the loop of spy_event_expire_timers: what spy_minheap_min     *)
(* yields is deleted by its own index and handled.                           *)
ExpireOne ==
    LET t == MinheapMin(heap) IN
    /\ pc = "expiring" /\ t # Null /\ heap.key[t] <= now
    /\ \E s \in Handled(DelTimer(State, t), t) : Become(s)
    /\ UNCHANGED <<now, pc>>

ExpireDone ==
    LET t == MinheapMin(heap) IN
    /\ pc = "expiring" /\ (t # Null => heap.key[t] > now)
    /\ pc' = "loop"
    /\ UNCHANGED <<heap, timer_set, now>>

\* The entry nobody wrote is whatever malloc left there.
ExpireGarbage ==
    /\ pc = "expiring" /\ heap.last > 0 /\ MinheapMin(heap) = Null
    /\ pc' = "bad_pointer"
    /\ UNCHANGED <<heap, timer_set, now>>

ExpireNext == ExpireOne \/ ExpireDone \/ ExpireGarbage

TimerNext == ApiNext \/ (\E time \in 1 .. MaxNow : Turn(time)) \/ Accepted \/ ExpireNext

TimerSpec == Init /\ [][TimerNext]_vars

-----------------------------------------------------------------------------
InHeap(h) == {h.node[p] : p \in 0 .. h.last - 1}

(* Every entry of the heap knows its place, no timer is in it twice, and,    *)
(* once there is a heap, the connections' timers in it are those marked as   *)
(* set. spy_event_del_timer deletes by ev->timer.index and relies on it. It  *)
(* holds although the cleaner is marked as set and is not in the heap: the   *)
(* heap has room for every other event.                                      *)
HeapTimersOK ==
    /\ \A p \in 0 .. heap.last - 1 : heap.index[heap.node[p]] = p
    /\ pc # "start" => InHeap(heap) = {t \in Timers \ {Cleaner} : timer_set[t]}

Ordered(h) ==
    \A p \in 1 .. h.last - 1 : h.key[h.node[Parent(p)]] <= h.key[h.node[p]]

\* The last timer may take the place p: it is not due before the timer above p.
Fits(h, p) == p > 0 => h.key[h.node[Parent(p)]] <= h.key[h.node[h.last - 1]]

\* A step deletes t, or takes it to another time.
Leaves(t) == t \in InHeap(heap) /\ (t \notin InHeap(heap') \/ heap'.key[t] # heap.key[t])

(* Setting, moving and deleting timers keeps a heap in order, wherever in it *)
(* they are: an earlier one that is set rises, and the last one, which takes *)
(* the place of one that leaves, sinks. (It never rises: the order may be    *)
(* lost where it is due before the timer above that place.)                  *)
OrderKept ==
    [][ Ordered(heap) /\ (\A t \in Timers : Leaves(t) => Fits(heap, heap.index[t]))
        => Ordered(heap') ]_vars

\* When each timer in the heap is due.
DueTimes == [t \in Timers |-> IF t \in InHeap(heap) THEN heap.key[t] ELSE -1]

AbstractTimers == INSTANCE TimerSet WITH Never <- -1, due <- DueTimes

(* Setting and deleting timers acts on the timer that is meant, and on no    *)
(* other, wherever the heap moves them.                                      *)
ImplementsTimerSet == AbstractTimers!Spec

(* "spy_minheap_min": once its entry was written, select(2) waits no longer  *)
(* than until the first timer is due. (It may wait longer: the macro yields  *)
(* the second entry, and with one timer whatever that entry held before.)    *)
WakesInTime ==
    pc = "loop" /\ MinheapMin(heap) # Null =>
        \A t \in InHeap(heap) : now + FindTimer(heap) <= Max({heap.key[t], now})
=============================================================================
