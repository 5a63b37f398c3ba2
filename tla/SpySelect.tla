----------------------------- MODULE SpySelect -----------------------------
(* The select(2) backend: the index of watched events, the master descriptor *)
(* sets handed to the kernel, and the highest watched descriptor, together   *)
(* with the operations of the connection pool that touch them.               *)
EXTENDS SpyConnection, FiniteSets, FiniteSetsExt

VARIABLE sel

Slots == 0 .. 2 * connection_n - 1      \* what spy_select_init allocates

SelectType ==
    [ max_fd       : Fds \cup {NoFd},
      nevents      : 0 .. 2 * connection_n,
      event_index  : [Slots -> Events \cup {Null}],
      active       : [Events -> BOOLEAN],
      index        : [Events -> Slots \cup {InvalidIndex}],
      master       : [Kinds -> SUBSET Fds] ]

\* The entries of event_index from nevents on are never read. Neither are the
\* fields of an event before spy_get_connection clears them.
InitialSelect ==
    [ max_fd       |-> NoFd,
      nevents      |-> 0,
      event_index  |-> [i \in Slots |-> Null],
      active       |-> [e \in Events |-> FALSE],
      index        |-> [e \in Events |-> InvalidIndex],
      master       |-> [k \in Kinds |-> {}] ]

\* The part of spy_get_connection that clears both events of a slot.
ClearEvents(s, c) ==
    [ max_fd      |-> s.max_fd,
      nevents     |-> s.nevents,
      event_index |-> s.event_index,
      active      |-> [s.active EXCEPT ![ReadEvent(c)] = FALSE, ![WriteEvent(c)] = FALSE],
      index       |-> [s.index EXCEPT ![ReadEvent(c)] = InvalidIndex,
                                      ![WriteEvent(c)] = InvalidIndex],
      master      |-> s.master ]

\* Mutants: an event already watched is added again; max_fd is not raised.
AddTwice(s, e, f) ==
    [s EXCEPT !.active[e] = TRUE, !.event_index[s.nevents] = e,
              !.index[e] = s.nevents, !.nevents = @ + 1]
AddBelowMaxFd(s, e, f) ==
    IF s.index[e] # InvalidIndex
    THEN s
    ELSE [s EXCEPT !.master[KindOf(e)]      = @ \cup {f},
                   !.active[e]              = TRUE,
                   !.event_index[s.nevents] = e,
                   !.index[e]               = s.nevents,
                   !.nevents                = @ + 1]

\* spy_select_add_event; f is the descriptor of the event's connection. Every
\* caller names the event's own kind, which rules out the "invalid event" error.
\* Nothing looks at whether f is below FD_SETSIZE: here it is.
AddEvent(s, e, f) ==
    IF s.index[e] # InvalidIndex
    THEN s
    ELSE [ max_fd      |-> IF s.max_fd # NoFd /\ s.max_fd < f THEN f ELSE s.max_fd,
           nevents     |-> s.nevents + 1,
           event_index |-> [s.event_index EXCEPT ![s.nevents] = e],
           active      |-> [s.active EXCEPT ![e] = TRUE],
           index       |-> [s.index EXCEPT ![e] = s.nevents],
           master      |-> [s.master EXCEPT ![KindOf(e)] = @ \cup {f}] ]

\* Mutants: the moved event keeps its old place; max_fd stays.
DelWithoutTelling(s, e, f) ==
    IF s.index[e] = InvalidIndex
    THEN [s EXCEPT !.active[e] = FALSE]
    ELSE [s EXCEPT !.active[e]                = FALSE,
                   !.master[KindOf(e)]        = @ \ {f},
                   !.max_fd                   = IF @ = f THEN NoFd ELSE @,
                   !.nevents                  = @ - 1,
                   !.event_index[s.index[e]]  = s.event_index[s.nevents - 1],
                   !.index[e]                 = InvalidIndex]
DelKeepsMaxFd(s, e, f) ==
    IF s.index[e] = InvalidIndex
    THEN [s EXCEPT !.active[e] = FALSE]
    ELSE [s EXCEPT !.active[e]                             = FALSE,
                   !.master[KindOf(e)]                     = @ \ {f},
                   !.nevents                               = @ - 1,
                   !.event_index[s.index[e]]               = s.event_index[s.nevents - 1],
                   !.index[s.event_index[s.nevents - 1]]   = s.index[e],
                   !.index[e]                              = InvalidIndex]

\* spy_select_del_event: the last entry moves into the hole. When the event is
\* itself the last one (hole = last) nothing moves, and nothing changes by it.
DelEvent(s, e, f) ==
    IF s.index[e] = InvalidIndex
    THEN [s EXCEPT !.active[e] = FALSE]
    ELSE LET hole  == s.index[e]
             last  == s.nevents - 1
             moved == s.event_index[last]
         IN  [ max_fd      |-> IF s.max_fd = f THEN NoFd ELSE s.max_fd,
               nevents     |-> last,
               event_index |-> [s.event_index EXCEPT ![hole] = moved],
               active      |-> [s.active EXCEPT ![e] = FALSE],
               index       |-> [s.index EXCEPT ![moved] = hole, ![e] = InvalidIndex],
               master      |-> [s.master EXCEPT ![KindOf(e)] = @ \ {f}] ]

\* spy_event_init, for one listening socket: a slot, whose read event is watched.
ListenOn(f, p, s) ==
    [ pool |-> GetConnection(p, f),
      sel  |-> AddEvent(ClearEvents(s, p.free_connections), ReadEvent(p.free_connections), f) ]

\* All of them, the n-th with descriptor fds[n], in the order of the array (of
\* listening sockets; the code reads it as one of pointers to them).
ListenOnAll(n, fds) ==
    LET after[i \in 0 .. n] ==
            IF i = 0 THEN [pool |-> InitialPool, sel |-> InitialSelect]
                     ELSE ListenOn(fds[i], after[i - 1].pool, after[i - 1].sel)
    IN  after[n]

DelIfActive(s, e, f) == IF s.active[e] THEN DelEvent(s, e, f) ELSE s

\* Mutant: the write event is forgotten.
StopReading(s, c, p) ==
    IF IsOpen(p, c) THEN DelIfActive(s, ReadEvent(c), p.fd[c]) ELSE s

\* The part of spy_close_connection that stops watching.
StopWatching(s, c, p) ==
    IF IsOpen(p, c)
    THEN DelIfActive(DelIfActive(s, ReadEvent(c), p.fd[c]), WriteEvent(c), p.fd[c])
    ELSE s

-----------------------------------------------------------------------------
\* spy_select_process_events.

Watched(s) == {s.event_index[i] : i \in 0 .. s.nevents - 1}

\* Mutant: an invalid max_fd stays invalid.
KeepMaxFd(s, p) == s

\* max_fd is recomputed only when it was invalidated.
RecomputeMaxFd(s, p) ==
    [s EXCEPT !.max_fd =
        IF @ = NoFd THEN Max({NoFd} \cup {p.fd[ConnectionOf(e)] : e \in Watched(s)})
                    ELSE @]

\* What select(2) looks at: the members of the sets up to max_fd.
Offered(s, k) == {f \in s.master[k] : f =< s.max_fd}

\* Mutant: only the write set is repaired.
RepairWriteSet(s, opened) ==
    [s EXCEPT !.max_fd = NoFd,
              !.master["write"] = {f \in @ : f =< s.max_fd => f \in opened}]

\* spy_select_repair_fd_sets drops the descriptors the kernel says are closed.
RepairFdSets(s, opened) ==
    [ max_fd      |-> NoFd,
      nevents     |-> s.nevents,
      event_index |-> s.event_index,
      active      |-> s.active,
      index       |-> s.index,
      master      |-> [k \in Kinds |-> {f \in s.master[k] : f =< s.max_fd => f \in opened}] ]

\* EBADF: a descriptor that was offered is closed.
BadDescriptor(s, opened) == \E k \in Kinds : ~ (Offered(s, k) \subseteq opened)

\* The watched events select(2) found, given the ready descriptors of each kind.
Found(s, p, ready) ==
    {e \in Watched(s) : p.fd[ConnectionOf(e)] \in ready[KindOf(e)]}

\* select(2) counts the bits it sets, the loop counts the events it finds.
CountsAgree(s, p, ready) ==
    Cardinality(ready["read"]) + Cardinality(ready["write"]) = Cardinality(Found(s, p, ready))

\* The tables after a call that reported the descriptors of ready.
AfterSelect(s, p, ready, opened) ==
    IF BadDescriptor(s, opened) \/ ~ CountsAgree(s, p, ready)
    THEN RepairFdSets(s, opened)
    ELSE s

-----------------------------------------------------------------------------
(* The backend and the pool on their own: connections come and go, their     *)
(* events are watched and ignored in any order, and select(2) runs whenever. *)

SelectInit == PoolInit /\ sel = InitialSelect

NewConnection(s) ==
    /\ Get(s)
    /\ sel' = ClearEvents(sel, pool.free_connections)

Watch(e) ==
    /\ IsOpen(pool, ConnectionOf(e))
    /\ sel' = AddEvent(sel, e, pool.fd[ConnectionOf(e)])
    /\ UNCHANGED pool

Ignore(e) ==
    /\ IsOpen(pool, ConnectionOf(e))
    /\ sel' = DelEvent(sel, e, pool.fd[ConnectionOf(e)])
    /\ UNCHANGED pool

\* spy_close_accepted_connection runs before any event is watched.
AbandonConnection(c) ==
    /\ Abandon(c)
    /\ \A e \in EventsOf(c) : ~ sel.active[e]
    /\ UNCHANGED sel

ShutConnection(c) ==
    /\ Close(c)
    /\ sel' = StopWatching(sel, c, pool)

ProcessEvents ==
    LET s == RecomputeMaxFd(sel, pool) IN
    /\ \E rd \in SUBSET Offered(s, "read"), wr \in SUBSET Offered(s, "write") :
          sel' = AfterSelect(s, pool, [k \in Kinds |-> IF k = "read" THEN rd ELSE wr],
                             OpenFds(pool))
    /\ UNCHANGED pool

SelectNext ==
    \/ \E s \in Fds : NewConnection(s)
    \/ \E e \in Events : Watch(e) \/ Ignore(e)
    \/ \E c \in Connections : AbandonConnection(c) \/ ShutConnection(c)
    \/ ProcessEvents

SelectSpec == SelectInit /\ [][SelectNext]_<<pool, sel>>

-----------------------------------------------------------------------------
SelectTypeOK == pool \in PoolType /\ sel \in SelectType

(* The index and the events agree: the first nevents entries are exactly the *)
(* active events, each once, and each knows its own place. DelEvent moves an *)
(* entry and must tell the event it moved.                                   *)
TableOK(s) ==
    /\ \A i \in 0 .. s.nevents - 1 :
          /\ s.event_index[i] \in Events
          /\ s.active[s.event_index[i]]
          /\ s.index[s.event_index[i]] = i
    /\ \A e \in Events :
          IF s.active[e]
          THEN s.index[e] \in 0 .. s.nevents - 1 /\ s.event_index[s.index[e]] = e
          ELSE s.index[e] = InvalidIndex

(* The kernel is asked about the active events and nothing else: a bit left  *)
(* in a master set after its descriptor is closed would make every select(2) *)
(* fail with EBADF, and one missing would leave a client unheard.            *)
MasterSetsOK(s, p) ==
    \A k \in Kinds :
        s.master[k] = {p.fd[c] : c \in {x \in Connections : s.active[<<x, k>>]}}

(* Only open connections are watched: the loop over the index tests          *)
(* FD_ISSET(c->fd), undefined for the -1 of a closed one.                    *)
WatchedAreOpen(s, p) ==
    \A e \in Events : s.active[e] => IsOpen(p, ConnectionOf(e))

(* max_fd, when it is valid, is the highest watched descriptor: were it      *)
(* lower, select(2) would never look at a connection that is being watched.  *)
MaxFdOK(s, p) ==
    s.max_fd # NoFd =>
        /\ \E e \in Events : s.active[e] /\ p.fd[ConnectionOf(e)] = s.max_fd
        /\ \A e \in Events : s.active[e] => p.fd[ConnectionOf(e)] =< s.max_fd

\* The parts above, for the pair of tables this specification runs.
SelectTableOK      == TableOK(sel)
SelectMasterSetsOK == MasterSetsOK(sel, pool)
SelectMaxFdOK      == MaxFdOK(sel, pool)
=============================================================================
