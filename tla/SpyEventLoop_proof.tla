------------------------- MODULE SpyEventLoop_proof -------------------------
(* Proofs about the whole event loop, for any number of slots, listening     *)
(* sockets, descriptors, clients and parts of the greeting.                  *)
EXTENDS SpyEventLoop, SpySelect_proof, SpyPosted_proof

-----------------------------------------------------------------------------
(* The inductive invariant, of a state record. The handlers run to the end   *)
(* in one step but pass through states of their own, so that each part is    *)
(* stated of any record st.                                                  *)

EvType  == [ready : [Events -> BOOLEAN], handler : [Events -> Handlers]]

NetType == [ open      : SUBSET Fds,
             backlog   : [Listeners -> 0 .. MaxClients],
             arrived   : 0 .. MaxClients,
             room      : [Fds -> 0 .. PacketParts],
             client    : [Fds -> {"listening", "sent", "gone"}],
             premature : SUBSET Fds ]

StateType == [ pool : PoolType, sel : SelectType, posted : PostedType, ev : EvType,
               req : [Connections -> Requests], net : NetType,
               pc : Running \cup {"bad_pointer", "no_handler", "sigpipe"} ]

\* The events of the listening sockets.
Acceptors == {ReadEvent(i) : i \in Listeners}

\* An event's predecessor in its queue is of its own sort: accepting events are
\* in the queue of accepting events, and no other is.
SortedOK(l) ==
    \A e \in Events :
        IsPosted(l, e) =>
            (e \in Acceptors <=> l.prev[e] \in Acceptors \cup {spy_posted_accept_events})

QueuesOK(l) == PostedOK(l) /\ EndsOK(l) /\ SortedOK(l)

\* The listening sockets keep the slots they were given.
ListenersOK(p) == \A i \in Listeners : p.fd[i] = i /\ p.data[i] # Request

\* Accepting is the business of the listening sockets' events, sending the
\* greeting that of the other connections' write events.
HandlersOK(ev_) ==
    \A e \in Events :
        /\ ev_.handler[e] = "spy_event_accept" <=> e \in Acceptors
        /\ ev_.handler[e] = "spy_proxy_send_acl" =>
               e = WriteEvent(ConnectionOf(e)) /\ ConnectionOf(e) \notin Listeners

\* A client in the backlog has arrived.
BacklogOK(n) == \A l \in Listeners : n.backlog[l] <= n.arrived

\* What holds within a handler, too, but for the kernel's descriptors.
PartsOK(st) ==
    /\ st \in StateType
    /\ PoolOK(st.pool)
    /\ TablesOK(st.sel, st.pool)
    /\ QueuesOK(st.posted)
    /\ ListenersOK(st.pool)
    /\ HandlersOK(st.ev)
    /\ BacklogOK(st.net)

BaseOK(st) == PartsOK(st) /\ st.net.open = OpenFds(st.pool)

PostedAreOpen(st) ==
    \A e \in Events : IsPosted(st.posted, e) => IsOpen(st.pool, ConnectionOf(e))

\* A client in the middle of its greeting, or past it, is watched.
Heard(st, c) ==
    IsOpen(st.pool, c) /\ st.pool.data[c] = Request =>
        IF st.req[c].left > 0 THEN st.sel.active[WriteEvent(c)]
                              ELSE st.req[c].handshake /\ st.sel.active[ReadEvent(c)]

(* Closing a connection leaves its events posted, which does no harm because *)
(* the queue of accepting events is empty by then and nothing takes a slot   *)
(* until the other queue is empty too.                                       *)
LoopOK(st) ==
    /\ BaseOK(st)
    /\ st.pc \in {"process_events", "accept_events"} => PostedAreOpen(st)
    /\ st.pc = "posted_events" => st.posted.head[spy_posted_accept_events] = Null
    /\ st.pc \in Running => \A c \in Connections : Heard(st, c)

LoopIInv == LoopOK(State)

-----------------------------------------------------------------------------
\* The listening sockets' slots, descriptors and events.
LEMMA ListenersFacts ==
    /\ Listeners \subseteq Connections /\ Listeners \subseteq Fds /\ Listeners \subseteq Nat
    /\ Acceptors \subseteq Events
    /\ \A c \in Connections : /\ WriteEvent(c) \notin Acceptors
                              /\ ReadEvent(c) \in Acceptors <=> c \in Listeners
<1>1. Listeners \subseteq Connections
  BY ConnectionNAssumption, LoopAssumption DEF Listeners, Connections
<1>2. Listeners \subseteq Fds /\ Listeners \subseteq Nat
  BY LoopAssumption DEF Listeners
<1> QED BY <1>1, <1>2 DEF Acceptors, ReadEvent, WriteEvent, Events, Kinds

\* The descriptors in use once a connection is closed.
LEMMA OpenFdsAfterClose ==
    ASSUME NEW p \in PoolType, FdsDistinct(p), NEW c \in Connections, IsOpen(p, c)
    PROVE  OpenFds(CloseAccepted(p, c)) = OpenFds(p) \ {p.fd[c]}
<1>1. CloseAccepted(p, c).fd = [p.fd EXCEPT ![c] = NoFd]
  BY DEF CloseAccepted, FreeConnection
<1>2. \A x \in Connections : CloseAccepted(p, c).fd[x] = IF x = c THEN NoFd ELSE p.fd[x]
  BY <1>1 DEF PoolType
<1>3. \A x \in Connections : IsOpen(p, x) /\ p.fd[x] = p.fd[c] => x = c
  BY DEF FdsDistinct
<1> QED BY <1>2, <1>3 DEF OpenFds, IsOpen

\* The descriptors in use once a slot is taken.
LEMMA OpenFdsAfterGet ==
    ASSUME NEW p, PoolOK(p), CanGet(p), NEW f \in Fds
    PROVE  OpenFds(GetConnection(p, f)) = OpenFds(p) \cup {f}
<1> DEFINE c == p.free_connections
<1>1. c \in Connections /\ ~ IsOpen(p, c) /\ f # NoFd
  BY HeadIsFree, FdsAssumption DEF NoFd
<1>2. GetConnection(p, f).fd = [p.fd EXCEPT ![c] = f]
  BY DEF GetConnection
<1>3. \A x \in Connections : GetConnection(p, f).fd[x] = IF x = c THEN f ELSE p.fd[x]
  BY <1>2 DEF PoolOK, PoolType
<1> HIDE DEF c
<1> QED BY <1>1, <1>3 DEF OpenFds, IsOpen

\* Watching an event activates it and no other.
LEMMA AddEventActive ==
    ASSUME NEW s, NEW p \in PoolType, TablesOK(s, p), NEW e \in Events, NEW f
    PROVE  \A d \in Events : AddEvent(s, e, f).active[d] <=> s.active[d] \/ d = e
<1>1. s \in SelectType
  BY DEF TablesOK
<1>2. s.index[e] # InvalidIndex => s.active[e]
  BY DEF TablesOK, TableOK
<1> QED BY <1>1, <1>2 DEF AddEvent, SelectType

-----------------------------------------------------------------------------
(* What the parts of a handler that works on connection c leave alone.       *)
Elsewhere(st, t, c) ==
    /\ t.posted = st.posted
    /\ \A d \in Connections : d # c => /\ t.pool.fd[d] = st.pool.fd[d]
                                       /\ t.pool.data[d] = st.pool.data[d]
                                       /\ t.req[d] = st.req[d]
    /\ \A e \in Events : ConnectionOf(e) # c => t.sel.active[e] = st.sel.active[e]

\* A part that neither opens nor closes, and takes nothing back that was sent.
Touches(st, t, c) ==
    /\ BaseOK(t) /\ Elsewhere(st, t, c)
    /\ t.pc = st.pc /\ t.pool = st.pool
    /\ t.req[c].left <= st.req[c].left

\* A whole handler: it may close the connection, or die.
Handles(st, t, c) ==
    /\ BaseOK(t) /\ Elsewhere(st, t, c)
    /\ t.pool \in {st.pool, CloseConnection(st.pool, c)}
    /\ t.req[c].left <= st.req[c].left
    /\ \/ t.pc = st.pc /\ Heard(t, c)
       \/ t.pc \notin Running

\* Types that the arithmetic on parts of the greeting needs.
LEMMA LeftIsNat ==
    ASSUME NEW st, BaseOK(st), NEW c \in Connections
    PROVE  st.req[c].left \in Nat
BY LoopAssumption DEF BaseOK, PartsOK, StateType, Requests

LEMMA TouchesTwice ==
    ASSUME NEW st, NEW s, NEW t, NEW c \in Connections,
           BaseOK(st), Touches(st, s, c), Touches(s, t, c)
    PROVE  Touches(st, t, c)
<1>1. st.req[c].left \in Nat /\ s.req[c].left \in Nat /\ t.req[c].left \in Nat
  BY LeftIsNat DEF Touches
<1>2. t.req[c].left <= st.req[c].left
  BY <1>1 DEF Touches
<1> QED BY <1>2 DEF Touches, Elsewhere

LEMMA TouchesThenHandles ==
    ASSUME NEW st, NEW s, NEW t, NEW c \in Connections,
           BaseOK(st), Touches(st, s, c), Handles(s, t, c)
    PROVE  Handles(st, t, c)
<1>1. st.req[c].left \in Nat /\ s.req[c].left \in Nat /\ t.req[c].left \in Nat
  BY LeftIsNat DEF Touches, Handles
<1>2. t.req[c].left <= st.req[c].left
  BY <1>1 DEF Touches, Handles
<1>3. Elsewhere(st, t, c)
  BY DEF Touches, Handles, Elsewhere
<1>4. t.pool \in {st.pool, CloseConnection(st.pool, c)}
  BY DEF Touches, Handles
<1>5. (t.pc = st.pc /\ Heard(t, c)) \/ t.pc \notin Running
  BY DEF Touches, Handles
<1> QED BY <1>2, <1>3, <1>4, <1>5 DEF Handles

(* The process may die in the middle of a handler.                           *)
LEMMA DyingHandles ==
    ASSUME NEW st, BaseOK(st), NEW c \in Connections,
           NEW how \in {"bad_pointer", "no_handler", "sigpipe"}, NEW t \in Dies(st, how)
    PROVE  Handles(st, t, c)
<1>1. t = [st EXCEPT !.pc = how]
  BY DEF Dies
<1>2. st \in StateType
  BY DEF BaseOK, PartsOK
<1>3. t \in StateType
  BY <1>1, <1>2 DEF StateType
<1>4. /\ t.pool = st.pool /\ t.sel = st.sel /\ t.posted = st.posted /\ t.ev = st.ev
      /\ t.req = st.req /\ t.net = st.net /\ t.pc = how
  BY <1>1, <1>2 DEF StateType
<1>5. BaseOK(t)
  BY <1>3, <1>4 DEF BaseOK, PartsOK
<1>6. t.req[c].left <= st.req[c].left
  BY <1>4, LeftIsNat
<1>7. t.pc \notin Running
  BY <1>4 DEF Running
<1> QED BY <1>4, <1>5, <1>6, <1>7 DEF Handles, Elsewhere

(* Watching another event, or no longer watching one, in the same pool.      *)
LEMMA SelectTouches ==
    ASSUME NEW st, BaseOK(st), NEW c \in Connections, NEW s, TablesOK(s, st.pool),
           \A e \in Events : ConnectionOf(e) # c => s.active[e] = st.sel.active[e]
    PROVE  Touches(st, [st EXCEPT !.sel = s], c) /\ [st EXCEPT !.sel = s].sel = s
<1> DEFINE t == [st EXCEPT !.sel = s]
<1>1. st \in StateType /\ s \in SelectType
  BY DEF BaseOK, PartsOK, TablesOK
<1>2. /\ t.pool = st.pool /\ t.sel = s /\ t.posted = st.posted /\ t.ev = st.ev
      /\ t.req = st.req /\ t.net = st.net /\ t.pc = st.pc
  BY <1>1 DEF StateType
<1>3. t \in StateType
  BY <1>1 DEF StateType
<1> HIDE DEF t
<1>4. BaseOK(t)
  BY <1>2, <1>3 DEF BaseOK, PartsOK
<1>5. t.req[c].left <= st.req[c].left
  BY <1>2, LeftIsNat
<1>6. Elsewhere(st, t, c)
  BY <1>2 DEF Elsewhere
<1>7. Touches(st, t, c)
  BY <1>2, <1>4, <1>5, <1>6 DEF Touches
<1> QED BY <1>2, <1>7 DEF t

(* spy_handle_write_event leaves an event that is not ready watched.         *)
LEMMA HandleWriteEventOK ==
    ASSUME NEW st, BaseOK(st), NEW c \in Connections, IsOpen(st.pool, c)
    PROVE  LET t == HandleWriteEvent(st, WriteEvent(c)) IN
           /\ Touches(st, t, c)
           /\ t.ev = st.ev /\ t.req = st.req
           /\ ~ st.ev.ready[WriteEvent(c)] =>
                 /\ t.sel.active[WriteEvent(c)]
                 /\ st.sel.active[ReadEvent(c)] => t.sel.active[ReadEvent(c)]
<1> DEFINE e == WriteEvent(c)
           t == HandleWriteEvent(st, e)
           f == st.pool.fd[c]
<1>1. e \in Events /\ ConnectionOf(e) = c /\ IsOpen(st.pool, ConnectionOf(e))
  BY EventsOfSlot
<1>2. st \in StateType /\ st.pool \in PoolType /\ TablesOK(st.sel, st.pool) /\ st.sel \in SelectType
  BY DEF BaseOK, PartsOK, StateType
<1>3. \A s : [st EXCEPT !.sel = s].ev = st.ev /\ [st EXCEPT !.sel = s].req = st.req
  BY <1>2 DEF StateType
<1>4. CASE ~ st.sel.active[e] /\ ~ st.ev.ready[e]
  <2>1. t = [st EXCEPT !.sel = AddEvent(st.sel, e, f)]
    BY <1>1, <1>4 DEF HandleWriteEvent
  <2>2. TablesOK(AddEvent(st.sel, e, f), st.pool)
    BY <1>1, <1>2, AddEventOK
  <2>3. \A d \in Events : AddEvent(st.sel, e, f).active[d] <=> st.sel.active[d] \/ d = e
    BY <1>1, <1>2, AddEventActive
  <2>4. \A d \in Events : AddEvent(st.sel, e, f).active[d] \in BOOLEAN /\ st.sel.active[d] \in BOOLEAN
    BY <1>2, <2>2 DEF TablesOK, SelectType
  <2>5. \A d \in Events : ConnectionOf(d) # c => AddEvent(st.sel, e, f).active[d] = st.sel.active[d]
    BY <1>1, <2>3, <2>4
  <2> HIDE DEF t, e, f
  <2>6. Touches(st, t, c) /\ t.sel = AddEvent(st.sel, e, f)
    BY <2>1, <2>2, <2>5, SelectTouches
  <2> QED BY <1>1, <1>3, <2>1, <2>3, <2>6, EventsOfSlot DEF t, e
<1>5. CASE st.sel.active[e] /\ st.ev.ready[e]
  <2>1. t = [st EXCEPT !.sel = DelEvent(st.sel, e, f)]
    BY <1>1, <1>5 DEF HandleWriteEvent
  <2>2. /\ TablesOK(DelEvent(st.sel, e, f), st.pool)
        /\ \A d \in Events : d # e => DelEvent(st.sel, e, f).active[d] = st.sel.active[d]
    BY <1>1, <1>2, DelEventOK
  <2> HIDE DEF t, e, f
  <2>3. Touches(st, t, c)
    BY <1>1, <2>1, <2>2, SelectTouches
  <2> QED BY <1>3, <1>5, <2>1, <2>3 DEF t, e
<1>6. CASE ~ (st.sel.active[e] /\ st.ev.ready[e]) /\ ~ (~ st.sel.active[e] /\ ~ st.ev.ready[e])
  <2>1. t = st
    BY <1>6 DEF HandleWriteEvent
  <2>2. Touches(st, st, c)
    BY LeftIsNat DEF Touches, Elsewhere
  <2> QED BY <1>6, <2>1, <2>2
<1> QED BY <1>4, <1>5, <1>6

(* What the kernel takes of the greeting is the client's own, and no more    *)
(* than was left.                                                            *)
LEMMA TakeOK ==
    ASSUME NEW st, BaseOK(st), NEW c \in Connections, IsOpen(st.pool, c)
    PROVE  /\ Touches(st, Take(st, c), c)
           /\ Take(st, c).sel = st.sel /\ Take(st, c).ev = st.ev
<1> DEFINE f == st.pool.fd[c]
           n == Min({st.net.room[f], st.req[c].left})
           t == Take(st, c)
<1>1. st \in StateType /\ st.req[c] \in Requests /\ st.net \in NetType
  BY DEF BaseOK, PartsOK, StateType
<1>2. f \in Fds
  BY <1>1 DEF IsOpen, StateType, PoolType
<1>3. st.net.room[f] \in 0 .. PacketParts /\ st.req[c].left \in 0 .. PacketParts /\ PacketParts \in Nat
  BY <1>1, <1>2, LoopAssumption DEF NetType, Requests
<1>4. n \in Nat /\ n <= st.net.room[f] /\ n <= st.req[c].left
  <2>1. {st.net.room[f], st.req[c].left} \in SUBSET Nat
    BY <1>3
  <2> QED BY <2>1, NatMin
<1> HIDE DEF n, f
<1>5. st.req[c].left - n \in 0 .. PacketParts /\ st.net.room[f] - n \in 0 .. PacketParts
  BY <1>3, <1>4
<1>6. t = [st EXCEPT !.req[c].left = @ - n, !.net.room[f] = @ - n]
  BY DEF Take, n, f
<1>7. /\ t.pool = st.pool /\ t.sel = st.sel /\ t.posted = st.posted /\ t.ev = st.ev /\ t.pc = st.pc
      /\ t.req = [st.req EXCEPT ![c].left = st.req[c].left - n]
      /\ t.net = [st.net EXCEPT !.room[f] = st.net.room[f] - n]
  BY <1>1, <1>6 DEF StateType
<1> HIDE DEF t
<1>8. t.req \in [Connections -> Requests]
  BY <1>1, <1>5, <1>7 DEF Requests, StateType
<1>9. t.net \in NetType /\ t.net.open = st.net.open
      /\ t.net.backlog = st.net.backlog /\ t.net.arrived = st.net.arrived
  BY <1>1, <1>5, <1>7 DEF NetType
<1>10. t \in StateType
  BY <1>1, <1>6, <1>7, <1>8, <1>9 DEF StateType, t, Take
<1>11. t.req[c].left <= st.req[c].left /\ \A d \in Connections : d # c => t.req[d] = st.req[d]
  <2>1. t.req[c].left = st.req[c].left - n
    BY <1>1, <1>7 DEF Requests, StateType
  <2> QED BY <1>1, <1>3, <1>4, <1>7, <2>1 DEF StateType
<1>12. BaseOK(t)
  BY <1>7, <1>9, <1>10 DEF BaseOK, PartsOK, BacklogOK
<1> QED BY <1>7, <1>11, <1>12 DEF Touches, Elsewhere, t

\* A short send clears the event's "ready".
LEMMA NotReadyOK ==
    ASSUME NEW st, BaseOK(st), NEW c \in Connections
    PROVE  LET t == NotReady(st, WriteEvent(c)) IN
           /\ Touches(st, t, c) /\ ~ t.ev.ready[WriteEvent(c)]
           /\ t.sel = st.sel /\ t.req = st.req /\ t.net = st.net
<1> DEFINE e == WriteEvent(c)
           t == NotReady(st, e)
<1>1. st \in StateType /\ st.ev \in EvType /\ e \in Events
  BY EventsOfSlot DEF BaseOK, PartsOK, StateType
<1>2. /\ t.pool = st.pool /\ t.sel = st.sel /\ t.posted = st.posted /\ t.pc = st.pc
      /\ t.req = st.req /\ t.net = st.net
      /\ t.ev = [st.ev EXCEPT !.ready[e] = FALSE]
  BY <1>1 DEF NotReady, StateType
<1>3. t.ev \in EvType /\ t.ev.handler = st.ev.handler /\ ~ t.ev.ready[e]
  BY <1>1, <1>2, ZenonT(40) DEF EvType
<1>4. t \in StateType
  BY <1>1, <1>3 DEF NotReady, StateType
<1> HIDE DEF t, e
<1>5. BaseOK(t)
  BY <1>2, <1>3, <1>4 DEF BaseOK, PartsOK, HandlersOK
<1>6. t.req[c].left <= st.req[c].left
  BY <1>2, LeftIsNat
<1> QED BY <1>2, <1>3, <1>5, <1>6 DEF Touches, Elsewhere, t, e

(* The end of the greeting: the connection is read from now on.              *)
LEMMA FinishHandshakeOK ==
    ASSUME NEW st, BaseOK(st), NEW c \in Connections \ Listeners, IsOpen(st.pool, c),
           st.req[c].left = 0
    PROVE  Touches(st, FinishHandshake(st, c), c) /\ Heard(FinishHandshake(st, c), c)
<1> DEFINE e == ReadEvent(c)
           s == AddEvent(st.sel, e, st.pool.fd[c])
           t == FinishHandshake(st, c)
<1>1. /\ st \in StateType /\ st.ev \in EvType /\ st.req \in [Connections -> Requests]
      /\ st.pool \in PoolType /\ TablesOK(st.sel, st.pool)
  BY DEF BaseOK, PartsOK, StateType
<1>2. e \in Events /\ ConnectionOf(e) = c /\ e \notin Acceptors
  <2>1. c \in Connections /\ c \notin Listeners
    OBVIOUS
  <2>2. e \in Events /\ ConnectionOf(e) = c
    BY <2>1, EventsOfSlot
  <2>3. e \notin Acceptors
    BY <2>1 DEF Acceptors, ReadEvent
  <2> QED BY <2>2, <2>3
<1>3. TablesOK(s, st.pool)
  BY <1>1, <1>2, AddEventOK
<1>4. \A d \in Events : s.active[d] <=> st.sel.active[d] \/ d = e
  BY <1>1, <1>2, AddEventActive
<1>5. \A d \in Events : s.active[d] \in BOOLEAN /\ st.sel.active[d] \in BOOLEAN
  BY <1>1, <1>3 DEF TablesOK, SelectType
<1> HIDE DEF s
<1>6. /\ t.pool = st.pool /\ t.sel = s /\ t.posted = st.posted /\ t.pc = st.pc
      /\ t.net = st.net
      /\ t.ev = [st.ev EXCEPT !.handler[e] = "NULL"]
      /\ t.req = [st.req EXCEPT ![c].handshake = TRUE]
  BY <1>1 DEF FinishHandshake, StateType, s
<1> HIDE DEF t
<1>8. t.ev \in EvType /\ t.ev.handler = [st.ev.handler EXCEPT ![e] = "NULL"]
  BY <1>1, <1>6 DEF EvType, Handlers
<1>9. t.req \in [Connections -> Requests] /\ t.req[c].handshake /\ t.req[c].left = 0
      /\ \A d \in Connections : d # c => t.req[d] = st.req[d]
  <2>1. t.req[c] = [st.req[c] EXCEPT !.handshake = TRUE]
    BY <1>1, <1>6
  <2>2. t.req[c] \in Requests /\ t.req[c].handshake = TRUE /\ t.req[c].left = 0
    BY <1>1, <2>1 DEF Requests
  <2>3. \A d \in Connections : d # c => t.req[d] = st.req[d]
    BY <1>1, <1>6
  <2>4. t.req = [d \in Connections |-> t.req[d]]
    BY <1>1, <1>6
  <2> QED BY <1>1, <2>2, <2>3, <2>4
<1>10. t \in StateType
  <2>1. s \in SelectType
    BY <1>3 DEF TablesOK
  <2> QED BY <1>1, <1>6, <1>8, <1>9, <2>1 DEF StateType, t, FinishHandshake
<1> HIDE DEF e
<1>11. HandlersOK(t.ev)
  BY <1>1, <1>2, <1>8 DEF HandlersOK, BaseOK, PartsOK, EvType
<1>12. BaseOK(t)
  BY <1>3, <1>6, <1>10, <1>11 DEF BaseOK, PartsOK
<1>13. Elsewhere(st, t, c)
  BY <1>2, <1>4, <1>5, <1>6, <1>9 DEF Elsewhere
<1>14. Touches(st, t, c)
  BY <1>6, <1>9, <1>12, <1>13 DEF Touches
<1>15. Heard(t, c)
  BY <1>2, <1>4, <1>6, <1>9 DEF Heard, e
<1> QED BY <1>14, <1>15 DEF t


-----------------------------------------------------------------------------
\* Closing a connection stops the watching of its own events only.
LEMMA StopWatchingElsewhere ==
    ASSUME NEW s, NEW p \in PoolType, TablesOK(s, p), NEW c \in Connections
    PROVE  \A e \in Events : ConnectionOf(e) # c => StopWatching(s, c, p).active[e] = s.active[e]
<1> DEFINE r == ReadEvent(c)
           w == WriteEvent(c)
           t == DelIfActive(s, r, p.fd[c])
<1>1. r \in Events /\ w \in Events /\ ConnectionOf(r) = c /\ ConnectionOf(w) = c
  BY EventsOfSlot
<1>2. CASE ~ IsOpen(p, c)
  BY <1>2 DEF StopWatching
<1>3. CASE IsOpen(p, c)
  <2>1. TablesOK(t, p) /\ \A e \in Events : e # r => t.active[e] = s.active[e]
    BY <1>1, <1>3, DelEventOK DEF DelIfActive
  <2> HIDE DEF t
  <2>2. \A e \in Events : e # w => DelIfActive(t, w, p.fd[c]).active[e] = t.active[e]
    BY <1>1, <1>3, <2>1, DelEventOK DEF DelIfActive
  <2>3. StopWatching(s, c, p) = DelIfActive(t, w, p.fd[c])
    BY <1>3 DEF StopWatching, t
  <2> QED BY <1>1, <2>1, <2>2, <2>3
<1> QED BY <1>2, <1>3

\* spy_close_connection, for any connection but a listening socket.
LEMMA CloseConnOK ==
    ASSUME NEW st, BaseOK(st), NEW c \in Connections \ Listeners
    PROVE  LET t == CloseConn(st, c) IN
           Handles(st, t, c) /\ ~ IsOpen(t.pool, c) /\ t.pc = st.pc
<1> DEFINE t == CloseConn(st, c)
           p == CloseConnection(st.pool, c)
           s == StopWatching(st.sel, c, st.pool)
           n == CloseSocket(st.net, st.pool.fd[c])
<1>1. /\ st \in StateType /\ st.pool \in PoolType /\ st.net \in NetType
      /\ PoolOK(st.pool) /\ TablesOK(st.sel, st.pool) /\ c \in Connections
  BY DEF BaseOK, PartsOK, StateType
<1>2. CASE ~ IsOpen(st.pool, c)
  <2>1. t = st
    BY <1>2 DEF CloseConn
  <2>2. Handles(st, st, c)
    BY <1>2, LeftIsNat DEF Handles, Elsewhere, Heard
  <2> QED BY <1>2, <2>1, <2>2
<1>3. CASE IsOpen(st.pool, c)
  <2>1. p = CloseAccepted(st.pool, c) /\ PoolOK(p) /\ p \in PoolType
    BY <1>1, <1>3, CloseConnectionOK DEF CloseConnection, PoolOK
  <2>2. TablesOK(s, st.pool) /\ \A e \in EventsOf(c) : ~ s.active[e]
    BY <1>1, StopWatchingOK
  <2>3. \A e \in Events : ConnectionOf(e) # c => s.active[e] = st.sel.active[e]
    BY <1>1, StopWatchingElsewhere
  <2>4. TablesOK(s, p)
    <3> HIDE DEF s, p
    <3> QED BY <1>1, <2>1, <2>2, ClosingKeepsTables
  <2>5. \A d \in Connections : /\ p.fd[d] = IF d = c THEN NoFd ELSE st.pool.fd[d]
                               /\ d # c => p.data[d] = st.pool.data[d]
    BY <1>1, <2>1 DEF CloseAccepted, FreeConnection, PoolType
  <2>6. OpenFds(p) = OpenFds(st.pool) \ {st.pool.fd[c]}
    BY <1>1, <1>3, <2>1, OpenFdsAfterClose DEF TablesOK
  <2>7. /\ n \in NetType /\ n.open = st.net.open \ {st.pool.fd[c]}
        /\ n.backlog = st.net.backlog /\ n.arrived = st.net.arrived
    BY <1>1 DEF CloseSocket, NetType
  <2>8. t = [st EXCEPT !.sel = s, !.pool = p, !.net = n]
    BY <1>3 DEF CloseConn
  <2>9. s \in SelectType
    BY <2>2 DEF TablesOK
  <2> HIDE DEF s, p, n
  <2>10. /\ t.pool = p /\ t.sel = s /\ t.net = n /\ t.posted = st.posted
         /\ t.ev = st.ev /\ t.req = st.req /\ t.pc = st.pc /\ t \in StateType
    <3> HIDE DEF t
    <3> QED BY <1>1, <2>1, <2>7, <2>8, <2>9 DEF StateType
  <2> HIDE DEF t
  <2>11. ListenersOK(p)
    <3>1. \A i \in Listeners : i \in Connections /\ i # c
      BY ListenersFacts
    <3>2. ListenersOK(st.pool)
      BY DEF BaseOK, PartsOK
    <3> QED BY <2>5, <3>1, <3>2 DEF ListenersOK
  <2>12. BaseOK(t)
    BY <2>1, <2>4, <2>6, <2>7, <2>10, <2>11 DEF BaseOK, PartsOK, BacklogOK
  <2>13. ~ IsOpen(p, c)
    BY <1>1, <2>5 DEF IsOpen
  <2>14. Elsewhere(st, t, c)
    <3>1. \A d \in Connections : d # c => t.pool.fd[d] = st.pool.fd[d]
                                        /\ t.pool.data[d] = st.pool.data[d]
      BY <2>5, <2>10
    <3> QED BY <2>3, <2>10, <3>1 DEF Elsewhere
  <2>15. t.req[c].left <= st.req[c].left
    BY <2>10, LeftIsNat
  <2> QED BY <2>10, <2>12, <2>13, <2>14, <2>15 DEF Handles, Heard, t, p
<1> QED BY <1>2, <1>3

LEMMA CloseRequestOK ==
    ASSUME NEW st, BaseOK(st), NEW c \in Connections \ Listeners, NEW t \in CloseRequest(st, c)
    PROVE  Handles(st, t, c)
BY CloseConnOK, DyingHandles DEF CloseRequest

LEMMA SendFailsOK ==
    ASSUME NEW st, BaseOK(st), NEW c \in Connections \ Listeners, NEW t \in SendFails(st, c)
    PROVE  Handles(st, t, c)
BY CloseRequestOK, DyingHandles DEF SendFails


\* Writing to the log that a client closed prematurely.
LEMMA PrematureTouches ==
    ASSUME NEW st, BaseOK(st), NEW c \in Connections, IsOpen(st.pool, c)
    PROVE  Touches(st, [st EXCEPT !.net.premature = @ \cup {st.pool.fd[c]}], c)
<1> DEFINE f == st.pool.fd[c]
           t == [st EXCEPT !.net.premature = @ \cup {f}]
<1>1. st \in StateType /\ st.net \in NetType /\ f \in Fds
  BY DEF BaseOK, PartsOK, StateType, IsOpen, PoolType
<1>2. /\ t.pool = st.pool /\ t.sel = st.sel /\ t.posted = st.posted /\ t.ev = st.ev
      /\ t.req = st.req /\ t.pc = st.pc
      /\ t.net = [st.net EXCEPT !.premature = @ \cup {f}]
  BY <1>1 DEF StateType
<1> HIDE DEF f
<1>3. /\ t.net \in NetType /\ t.net.open = st.net.open
      /\ t.net.backlog = st.net.backlog /\ t.net.arrived = st.net.arrived
  BY <1>1, <1>2 DEF NetType
<1>4. t \in StateType
  BY <1>1, <1>3 DEF StateType
<1> HIDE DEF t
<1>5. BaseOK(t)
  BY <1>2, <1>3, <1>4 DEF BaseOK, PartsOK, BacklogOK
<1>6. t.req[c].left <= st.req[c].left
  BY <1>2, LeftIsNat
<1> QED BY <1>2, <1>5, <1>6 DEF Touches, Elsewhere, t, f

\* The packet is built once.
LEMMA BuildTouches ==
    ASSUME NEW st, BaseOK(st), NEW c \in Connections
    PROVE  LET t == [st EXCEPT !.req[c].init_packet = TRUE] IN
           /\ Touches(st, t, c)
           /\ t.req[c].left = st.req[c].left /\ t.req[c].handshake = st.req[c].handshake
           /\ t.sel = st.sel
<1> DEFINE t == [st EXCEPT !.req[c].init_packet = TRUE]
<1>1. st \in StateType /\ st.req \in [Connections -> Requests]
  BY DEF BaseOK, PartsOK, StateType
<1>2. /\ t.pool = st.pool /\ t.sel = st.sel /\ t.posted = st.posted /\ t.ev = st.ev
      /\ t.net = st.net /\ t.pc = st.pc
      /\ t.req = [st.req EXCEPT ![c].init_packet = TRUE]
  BY <1>1 DEF StateType
<1>3. /\ t.req \in [Connections -> Requests]
      /\ t.req[c].left = st.req[c].left /\ t.req[c].handshake = st.req[c].handshake
      /\ \A d \in Connections : d # c => t.req[d] = st.req[d]
  <2>1. t.req[c] = [st.req[c] EXCEPT !.init_packet = TRUE]
    BY <1>1, <1>2
  <2>2. /\ t.req[c] \in Requests
        /\ t.req[c].left = st.req[c].left /\ t.req[c].handshake = st.req[c].handshake
    BY <1>1, <2>1 DEF Requests
  <2>3. \A d \in Connections : d # c => t.req[d] = st.req[d]
    BY <1>1, <1>2
  <2>4. t.req = [d \in Connections |-> t.req[d]]
    BY <1>1, <1>2
  <2> QED BY <1>1, <2>2, <2>3, <2>4
<1>4. t \in StateType
  BY <1>1, <1>3 DEF StateType
<1> HIDE DEF t
<1>5. BaseOK(t)
  BY <1>2, <1>4 DEF BaseOK, PartsOK
<1>6. t.req[c].left <= st.req[c].left
  BY <1>3, LeftIsNat
<1> QED BY <1>2, <1>3, <1>5, <1>6 DEF Touches, Elsewhere, t

\* A handler that ends with a part that leaves the client heard.
LEMMA TouchesHandles ==
    ASSUME NEW st, NEW t, NEW c \in Connections, Touches(st, t, c), Heard(t, c)
    PROVE  Handles(st, t, c)
BY DEF Touches, Handles

LEMMA SendPartOK ==
    ASSUME NEW st, BaseOK(st), NEW c \in Connections \ Listeners, IsOpen(st.pool, c),
           NEW t \in SendPart(st, c)
    PROVE  Handles(st, t, c)
<1> DEFINE e == WriteEvent(c)
           f == st.pool.fd[c]
           s == Take(st, c)
<1>1. c \in Connections /\ st.req[c].left \in Nat
  BY LeftIsNat
<1>2. Touches(st, s, c) /\ s.pool = st.pool
  BY TakeOK DEF Touches
<1>3. BaseOK(s) /\ IsOpen(s.pool, c)
  BY <1>2 DEF Touches
<1>4. s.req[c].left \in Nat
  BY <1>3, LeftIsNat
<1>5. CASE st.req[c].left = 0
  <2> DEFINE u == NotReady(st, e)
             v == [u EXCEPT !.net.premature = @ \cup {f}]
  <2>1. Touches(st, u, c) /\ u.pool = st.pool /\ BaseOK(u)
    BY NotReadyOK DEF Touches
  <2>2. Touches(u, v, c) /\ BaseOK(v)
    <3> HIDE DEF u
    <3> QED BY <2>1, PrematureTouches DEF Touches
  <2>3. t \in CloseRequest(v, c)
    <3>1. s.req[c].left = 0
      BY <1>2, <1>4, <1>5 DEF Touches
    <3> QED BY <1>5, <3>1 DEF SendPart
  <2> HIDE DEF u, v
  <2>4. Handles(v, t, c)
    BY <2>2, <2>3, CloseRequestOK
  <2>5. Handles(u, t, c)
    BY <2>1, <2>2, <2>4, TouchesThenHandles
  <2> QED BY <2>1, <2>5, TouchesThenHandles
<1>6. CASE st.req[c].left # 0 /\ s.req[c].left = 0
  <2>1. t = FinishHandshake(s, c)
    BY <1>1, <1>6 DEF SendPart
  <2> HIDE DEF s
  <2>2. Handles(s, t, c)
    BY <1>3, <1>6, <2>1, FinishHandshakeOK, TouchesHandles
  <2> QED BY <1>2, <2>2, TouchesThenHandles
<1>7. CASE st.req[c].left # 0 /\ s.req[c].left # 0
  <2> DEFINE u == NotReady(s, e)
  <2>1. t = HandleWriteEvent(u, e)
    BY <1>7 DEF SendPart
  <2> HIDE DEF s
  <2>2. /\ Touches(s, u, c) /\ u.pool = s.pool /\ BaseOK(u) /\ IsOpen(u.pool, c)
        /\ ~ u.ev.ready[e] /\ u.req = s.req
    BY <1>3, NotReadyOK DEF Touches
  <2> HIDE DEF u, e
  <2>3. Touches(u, t, c) /\ t.req = s.req /\ t.sel.active[WriteEvent(c)]
    BY <2>1, <2>2, HandleWriteEventOK DEF e
  <2>4. Heard(t, c)
    BY <1>4, <1>7, <2>3 DEF Heard
  <2>5. Handles(u, t, c)
    BY <2>3, <2>4, TouchesHandles
  <2>6. Handles(s, t, c)
    BY <1>3, <2>2, <2>5, TouchesThenHandles
  <2> QED BY <1>2, <2>6, TouchesThenHandles
<1> QED BY <1>5, <1>6, <1>7

(* The sending loop. With the greeting out it must leave the connection      *)
(* watched for reading as it finds it.                                       *)
LEMMA SendRestOK ==
    ASSUME NEW st, BaseOK(st), NEW c \in Connections \ Listeners, IsOpen(st.pool, c),
           st.req[c].left = 0 => Heard(st, c), NEW t \in SendRest(st, c)
    PROVE  Handles(st, t, c)
<1>1. CASE st.ev.ready[WriteEvent(c)]
  BY <1>1, SendFailsOK, SendPartOK DEF SendRest
<1>2. CASE ~ st.ev.ready[WriteEvent(c)]
  <2>1. t = HandleWriteEvent(st, WriteEvent(c))
    BY <1>2 DEF SendRest
  <2>2. Touches(st, t, c) /\ t.req = st.req /\ t.sel.active[WriteEvent(c)] /\ t.pool = st.pool
    BY <1>2, <2>1, HandleWriteEventOK DEF Touches
  <2>3. st.req[c].left \in Nat
    BY LeftIsNat
  <2>4. CASE st.req[c].left > 0
    BY <2>2, <2>3, <2>4, TouchesHandles DEF Heard
  <2>5. CASE st.req[c].left = 0
    <3>1. st.sel.active[ReadEvent(c)] => t.sel.active[ReadEvent(c)]
      BY <1>2, <2>1, HandleWriteEventOK
    <3>2. Heard(t, c)
      BY <2>2, <2>5, <3>1 DEF Heard
    <3> QED BY <2>2, <3>2, TouchesHandles
  <2> QED BY <2>3, <2>4, <2>5
<1> QED BY <1>1, <1>2

(* spy_proxy_send_acl.                                                       *)
LEMMA SendAclOK ==
    ASSUME NEW st, BaseOK(st), NEW c \in Connections \ Listeners,
           st.req[c].left = 0 => Heard(st, c), NEW t \in SendAcl(st, c)
    PROVE  Handles(st, t, c)
<1> DEFINE s == [st EXCEPT !.req[c].init_packet = TRUE]
<1>1. CASE ~ IsOpen(st.pool, c)
  BY <1>1, DyingHandles DEF SendAcl
<1>2. CASE IsOpen(st.pool, c) /\ st.req[c].init_packet
  BY <1>2, SendRestOK DEF SendAcl
<1>3. CASE IsOpen(st.pool, c) /\ ~ st.req[c].init_packet
  <2>1. t \in SendRest(s, c) \cup CloseRequest(st, c) \cup Dies(st, "bad_pointer")
    BY <1>3 DEF SendAcl
  <2>2. /\ Touches(st, s, c) /\ BaseOK(s) /\ s.pool = st.pool /\ s.sel = st.sel
        /\ s.req[c].left = st.req[c].left /\ s.req[c].handshake = st.req[c].handshake
    BY BuildTouches DEF Touches
  <2> HIDE DEF s
  <2>3. s.req[c].left = 0 => Heard(s, c)
    BY <2>2 DEF Heard
  <2>4. CASE t \in SendRest(s, c)
    <3>1. Handles(s, t, c)
      BY <1>3, <2>2, <2>3, <2>4, SendRestOK
    <3> QED BY <2>2, <3>1, TouchesThenHandles
  <2> QED BY <2>1, <2>4, CloseRequestOK, DyingHandles
<1> QED BY <1>1, <1>2, <1>3


-----------------------------------------------------------------------------
(* Accepting. A step of the loop leaves every connection but one alone, and  *)
(* that one it serves further, closes, or takes for a new descriptor.        *)
StepOn(st, t, c) ==
    /\ \A d \in Connections : d # c => /\ t.pool.fd[d] = st.pool.fd[d]
                                       /\ t.pool.data[d] = st.pool.data[d]
                                       /\ t.req[d] = st.req[d]
    /\ \/ /\ t.pool.fd[c] = st.pool.fd[c]
          /\ t.pool.data[c] = st.pool.data[c]
          /\ t.req[c].left <= st.req[c].left
       \/ t.pool.fd[c] = NoFd
       \/ st.pool.fd[c] = NoFd /\ t.pool.fd[c] \notin OpenFds(st.pool)

\* What spy_event_accept is to leave behind.
Accepts(st, t) ==
    /\ BaseOK(t) /\ PostedAreOpen(t)
    /\ \/ t.pc = st.pc /\ \A d \in Connections : Heard(t, d)
       \/ t.pc \notin Running
    /\ \E c \in Connections : StepOn(st, t, c)

\* In s the slot c, free in st, has been taken for a descriptor just opened.
Fresh(st, s, c) ==
    /\ BaseOK(s)
    /\ c \in Connections \ Listeners
    /\ ~ IsOpen(st.pool, c)
    /\ s.pool.fd[c] \in Fds \ OpenFds(st.pool)
    /\ \A d \in Connections : d # c => /\ s.pool.fd[d] = st.pool.fd[d]
                                       /\ s.pool.data[d] = st.pool.data[d]
                                       /\ s.req[d] = st.req[d]
    /\ \A e \in Events : ConnectionOf(e) # c => s.sel.active[e] = st.sel.active[e]
    /\ s.posted.prev = st.posted.prev
    /\ s.pc = st.pc

LEMMA FreshTouches ==
    ASSUME NEW st, NEW s, NEW t, NEW c, Fresh(st, s, c), Touches(s, t, c)
    PROVE  Fresh(st, t, c)
<1>1. \A d \in Connections : d # c => /\ t.pool.fd[d] = st.pool.fd[d]
                                      /\ t.pool.data[d] = st.pool.data[d]
                                      /\ t.req[d] = st.req[d]
  BY DEF Fresh, Touches, Elsewhere
<1>2. \A e \in Events : ConnectionOf(e) # c => t.sel.active[e] = st.sel.active[e]
  BY DEF Fresh, Touches, Elsewhere
<1> QED BY <1>1, <1>2 DEF Fresh, Touches, Elsewhere

LEMMA HandlesClosed ==
    ASSUME NEW st, NEW s, NEW t, NEW c \in Connections, BaseOK(st),
           Handles(st, s, c), s.pc = st.pc, ~ IsOpen(s.pool, c), Handles(s, t, c)
    PROVE  Handles(st, t, c)
<1>1. st.req[c].left \in Nat /\ s.req[c].left \in Nat /\ t.req[c].left \in Nat
  BY LeftIsNat DEF Handles
<1>2. t.req[c].left <= st.req[c].left
  BY <1>1 DEF Handles
<1>3. Elsewhere(st, t, c)
  BY DEF Handles, Elsewhere
<1>4. t.pool = s.pool
  BY DEF Handles, CloseConnection
<1>5. t.pool \in {st.pool, CloseConnection(st.pool, c)}
  BY <1>4 DEF Handles
<1> QED BY <1>2, <1>3, <1>5 DEF Handles

(* A handler that begins with a connection just accepted leaves a state the  *)
(* loop goes on from.                                                        *)
LEMMA FreshThenHandles ==
    ASSUME NEW st, NEW s, NEW t, NEW c, BaseOK(st), PostedAreOpen(st),
           \A d \in Connections : Heard(st, d),
           Fresh(st, s, c), Handles(s, t, c)
    PROVE  Accepts(st, t)
<1>1. c \in Connections /\ s.pool \in PoolType
  BY DEF Fresh, BaseOK, PartsOK, StateType
<1>2. \A d \in Connections : d # c => /\ t.pool.fd[d] = st.pool.fd[d]
                                      /\ t.pool.data[d] = st.pool.data[d]
                                      /\ t.req[d] = st.req[d]
  BY DEF Fresh, Handles, Elsewhere
<1>3. \A e \in Events : ConnectionOf(e) # c => t.sel.active[e] = st.sel.active[e]
  BY DEF Fresh, Handles, Elsewhere
<1>4. t.posted.prev = st.posted.prev
  BY DEF Fresh, Handles, Elsewhere
<1>5. PostedAreOpen(t)
  <2> SUFFICES ASSUME NEW e \in Events, IsPosted(t.posted, e)
               PROVE  IsOpen(t.pool, ConnectionOf(e))
    BY DEF PostedAreOpen
  <2>1. IsOpen(st.pool, ConnectionOf(e))
    BY <1>4 DEF PostedAreOpen, IsPosted
  <2>2. ConnectionOf(e) # c /\ ConnectionOf(e) \in Connections
    BY <2>1, EventParts DEF Fresh
  <2> QED BY <1>2, <2>1, <2>2 DEF IsOpen
<1>6. \A d \in Connections : d # c => Heard(t, d)
  <2> SUFFICES ASSUME NEW d \in Connections, d # c
               PROVE  Heard(t, d)
    OBVIOUS
  <2>1. /\ t.sel.active[ReadEvent(d)] = st.sel.active[ReadEvent(d)]
        /\ t.sel.active[WriteEvent(d)] = st.sel.active[WriteEvent(d)]
    BY <1>3, EventsOfSlot
  <2>2. Heard(st, d)
    OBVIOUS
  <2> QED BY <1>2, <2>1, <2>2 DEF Heard, IsOpen
<1>7. StepOn(st, t, c)
  <2>1. t.pool.fd[c] \in {s.pool.fd[c], NoFd}
    BY <1>1 DEF Handles, CloseConnection, CloseAccepted, FreeConnection, PoolType
  <2> QED BY <1>2, <2>1 DEF StepOn, Fresh, IsOpen
<1> QED BY <1>1, <1>5, <1>6, <1>7 DEF Accepts, Handles, Fresh


LEMMA ReadyTouches ==
    ASSUME NEW st, BaseOK(st), NEW c \in Connections
    PROVE  Touches(st, [st EXCEPT !.ev.ready[WriteEvent(c)] = TRUE], c)
<1> DEFINE e == WriteEvent(c)
           t == [st EXCEPT !.ev.ready[e] = TRUE]
<1>1. st \in StateType /\ st.ev \in EvType /\ e \in Events
  BY EventsOfSlot DEF BaseOK, PartsOK, StateType
<1>2. /\ t.pool = st.pool /\ t.sel = st.sel /\ t.posted = st.posted /\ t.pc = st.pc
      /\ t.req = st.req /\ t.net = st.net
      /\ t.ev = [st.ev EXCEPT !.ready[e] = TRUE]
  BY <1>1 DEF StateType
<1>3. t.ev \in EvType /\ t.ev.handler = st.ev.handler
  <2>1. [st.ev.ready EXCEPT ![e] = TRUE] \in [Events -> BOOLEAN]
    BY <1>1 DEF EvType
  <2>2. t.ev.ready = [st.ev.ready EXCEPT ![e] = TRUE] /\ t.ev.handler = st.ev.handler
    BY <1>1, <1>2 DEF EvType
  <2> HIDE DEF t, e
  <2> QED BY <1>1, <1>2, <2>1, <2>2 DEF EvType
<1>4. t \in StateType
  BY <1>1, <1>3 DEF StateType
<1> HIDE DEF t, e
<1>5. BaseOK(t)
  BY <1>2, <1>3, <1>4 DEF BaseOK, PartsOK, HandlersOK
<1>6. t.req[c].left <= st.req[c].left
  BY <1>2, LeftIsNat
<1> QED BY <1>2, <1>5, <1>6 DEF Touches, Elsewhere, t, e

LEMMA HandlerTouches ==
    ASSUME NEW st, BaseOK(st), NEW c \in Connections \ Listeners
    PROVE  Touches(st, [st EXCEPT !.ev.handler[WriteEvent(c)] = "spy_proxy_send_acl"], c)
<1> DEFINE e == WriteEvent(c)
           t == [st EXCEPT !.ev.handler[e] = "spy_proxy_send_acl"]
<1>1. st \in StateType /\ st.ev \in EvType /\ c \in Connections
  BY DEF BaseOK, PartsOK, StateType
<1>2. e \in Events /\ ConnectionOf(e) = c /\ e \notin Acceptors
  BY <1>1, EventsOfSlot, ListenersFacts
<1>3. /\ t.pool = st.pool /\ t.sel = st.sel /\ t.posted = st.posted /\ t.pc = st.pc
      /\ t.req = st.req /\ t.net = st.net
      /\ t.ev = [st.ev EXCEPT !.handler[e] = "spy_proxy_send_acl"]
  BY <1>1 DEF StateType
<1>4. t.ev \in EvType /\ t.ev.handler = [st.ev.handler EXCEPT ![e] = "spy_proxy_send_acl"]
  BY <1>1, <1>3 DEF EvType, Handlers
<1>5. t \in StateType
  BY <1>1, <1>4 DEF StateType
<1>6. HandlersOK(t.ev)
  <2> HIDE DEF t
  <2>1. e = WriteEvent(ConnectionOf(e)) /\ ConnectionOf(e) \notin Listeners
    BY <1>2
  <2> HIDE DEF e
  <2> QED BY <1>1, <1>2, <1>4, <2>1 DEF HandlersOK, BaseOK, PartsOK, EvType
<1> HIDE DEF t, e
<1>7. BaseOK(t)
  BY <1>3, <1>5, <1>6 DEF BaseOK, PartsOK
<1>8. t.req[c].left <= st.req[c].left
  BY <1>1, <1>3, LeftIsNat
<1> QED BY <1>3, <1>7, <1>8 DEF Touches, Elsewhere, t, e

\* spy_proxy_init_request, on a connection just accepted.
LEMMA AttachFresh ==
    ASSUME NEW st, NEW s, NEW c, Fresh(st, s, c)
    PROVE  LET t == [s EXCEPT !.pool = AttachRequest(s.pool, c), !.req[c] = NewRequest] IN
           Fresh(st, t, c) /\ t.req[c].left # 0
<1> DEFINE p == AttachRequest(s.pool, c)
           t == [s EXCEPT !.pool = p, !.req[c] = NewRequest]
<1>1. /\ c \in Connections /\ c \notin Listeners /\ BaseOK(s) /\ s \in StateType
      /\ s.req \in [Connections -> Requests]
      /\ PoolOK(s.pool) /\ s.pool \in PoolType /\ TablesOK(s.sel, s.pool)
  BY DEF Fresh, BaseOK, PartsOK, StateType
<1>2. IsOpen(s.pool, c)
  BY FdsAssumption DEF Fresh, IsOpen, NoFd
<1>3. PoolOK(p) /\ p \in PoolType
  BY <1>1, <1>2, AttachRequestOK DEF PoolOK
<1>4. p.fd = s.pool.fd /\ p.data = [s.pool.data EXCEPT ![c] = Request]
  BY <1>1 DEF AttachRequest, PoolType
<1>5. TablesOK(s.sel, p) /\ OpenFds(p) = OpenFds(s.pool)
  <2>1. \A d \in Connections : IsOpen(p, d) <=> IsOpen(s.pool, d)
    BY <1>4 DEF IsOpen
  <2>2. \A e \in Events : ConnectionOf(e) \in Connections
    BY EventParts
  <2> HIDE DEF p
  <2>3. FdsDistinct(p)
    BY <1>1, <1>4, <2>1 DEF TablesOK, FdsDistinct
  <2>4. WatchedAreOpen(s.sel, p)
    BY <1>1, <2>1, <2>2 DEF TablesOK, WatchedAreOpen
  <2>5. MasterSetsOK(s.sel, p)
    <3>1. MasterSetsOK(s.sel, s.pool)
      BY <1>1 DEF TablesOK
    <3> QED BY <1>4, <3>1 DEF MasterSetsOK
  <2>6. MaxFdOK(s.sel, p)
    BY <1>1, <1>4 DEF TablesOK, MaxFdOK
  <2>7. OpenFds(p) = OpenFds(s.pool)
    BY <1>4, <2>1 DEF OpenFds
  <2> QED BY <1>1, <2>3, <2>4, <2>5, <2>6, <2>7 DEF TablesOK
<1>6. ListenersOK(p)
  <2>1. \A i \in Listeners : i # c /\ i \in Connections
    BY <1>1, ListenersFacts
  <2>2. ListenersOK(s.pool)
    BY <1>1 DEF BaseOK, PartsOK
  <2> QED BY <1>1, <1>4, <2>1, <2>2 DEF ListenersOK, PoolType
<1> HIDE DEF p
<1>7. /\ t.pool = p /\ t.sel = s.sel /\ t.posted = s.posted /\ t.ev = s.ev
      /\ t.net = s.net /\ t.pc = s.pc
      /\ t.req = [s.req EXCEPT ![c] = NewRequest]
  BY <1>1 DEF StateType
<1>8. NewRequest \in Requests /\ NewRequest.left # 0
  BY LoopAssumption DEF NewRequest, Requests
<1>9. t \in StateType
  BY <1>1, <1>3, <1>8 DEF StateType
<1> HIDE DEF t
<1>10. BaseOK(t)
  BY <1>1, <1>3, <1>5, <1>6, <1>7, <1>9 DEF BaseOK, PartsOK
<1>11. \A d \in Connections : d # c => /\ t.pool.fd[d] = st.pool.fd[d]
                                       /\ t.pool.data[d] = st.pool.data[d]
                                       /\ t.req[d] = st.req[d]
  BY <1>1, <1>4, <1>7 DEF Fresh, PoolType
<1>12. t.req[c] = NewRequest
  BY <1>1, <1>7
<1> QED BY <1>4, <1>7, <1>8, <1>10, <1>11, <1>12 DEF Fresh, t, p

\* Closing a connection that is not watched yet.
LEMMA CloseAcceptedHandles ==
    ASSUME NEW st, BaseOK(st), NEW c \in Connections \ Listeners, IsOpen(st.pool, c),
           \A e \in EventsOf(c) : ~ st.sel.active[e]
    PROVE  Handles(st, [st EXCEPT !.pool = CloseAccepted(st.pool, c),
                                  !.net  = CloseSocket(st.net, st.pool.fd[c])], c)
<1> DEFINE p == CloseAccepted(st.pool, c)
           n == CloseSocket(st.net, st.pool.fd[c])
           t == [st EXCEPT !.pool = p, !.net = n]
<1>1. /\ st \in StateType /\ st.pool \in PoolType /\ st.net \in NetType
      /\ PoolOK(st.pool) /\ TablesOK(st.sel, st.pool) /\ c \in Connections /\ c \notin Listeners
  BY DEF BaseOK, PartsOK, StateType
<1>2. PoolOK(p) /\ p \in PoolType /\ p = CloseConnection(st.pool, c)
  BY <1>1, CloseAcceptedOK DEF CloseConnection, PoolOK
<1>3. TablesOK(st.sel, p)
  BY <1>1, ClosingKeepsTables
<1>4. \A d \in Connections : /\ p.fd[d] = IF d = c THEN NoFd ELSE st.pool.fd[d]
                             /\ d # c => p.data[d] = st.pool.data[d]
  BY <1>1 DEF CloseAccepted, FreeConnection, PoolType
<1>5. OpenFds(p) = OpenFds(st.pool) \ {st.pool.fd[c]}
  BY <1>1, OpenFdsAfterClose DEF TablesOK
<1>6. /\ n \in NetType /\ n.open = st.net.open \ {st.pool.fd[c]}
      /\ n.backlog = st.net.backlog /\ n.arrived = st.net.arrived
  BY <1>1 DEF CloseSocket, NetType
<1> HIDE DEF p, n
<1>7. /\ t.pool = p /\ t.sel = st.sel /\ t.net = n /\ t.posted = st.posted
      /\ t.ev = st.ev /\ t.req = st.req /\ t.pc = st.pc /\ t \in StateType
  BY <1>1, <1>2, <1>6 DEF StateType
<1> HIDE DEF t
<1>8. ListenersOK(p)
  <2>1. \A i \in Listeners : i # c /\ i \in Connections
    BY <1>1, ListenersFacts
  <2>2. ListenersOK(st.pool)
    BY DEF BaseOK, PartsOK
  <2> QED BY <1>4, <2>1, <2>2 DEF ListenersOK
<1>9. BaseOK(t)
  BY <1>2, <1>3, <1>5, <1>6, <1>7, <1>8 DEF BaseOK, PartsOK, BacklogOK
<1>10. Elsewhere(st, t, c)
  <2>1. \A d \in Connections : d # c => t.pool.fd[d] = st.pool.fd[d]
                                        /\ t.pool.data[d] = st.pool.data[d]
    BY <1>4, <1>7
  <2> QED BY <1>7, <2>1 DEF Elsewhere
<1>11. t.req[c].left <= st.req[c].left
  BY <1>1, <1>7, LeftIsNat
<1>12. Heard(t, c)
  BY <1>1, <1>4, <1>7 DEF Heard, IsOpen
<1> QED BY <1>2, <1>7, <1>9, <1>10, <1>11, <1>12 DEF Handles, t, p, n


\* spy_proxy_init_packet.
LEMMA InitPacketOK ==
    ASSUME NEW st, NEW s, NEW c, Fresh(st, s, c), NEW t \in InitPacket(s, c),
           BaseOK(st), PostedAreOpen(st), \A d \in Connections : Heard(st, d)
    PROVE  Accepts(st, t)
<1> DEFINE u == [s EXCEPT !.ev.handler[WriteEvent(c)] = "spy_proxy_send_acl"]
           v == CloseConn(u, c)
           w == [u EXCEPT !.pool = AttachRequest(u.pool, c), !.req[c] = NewRequest]
<1>1. c \in Connections \ Listeners /\ c \in Connections /\ BaseOK(s)
  BY DEF Fresh
<1>2. t \in SendAcl(v, c) \/ t \in SendAcl(w, c)
  BY DEF InitPacket
<1>3. Touches(s, u, c)
  BY <1>1, HandlerTouches
<1> HIDE DEF u
<1>4. Fresh(st, u, c) /\ BaseOK(u)
  BY <1>3, FreshTouches DEF Fresh
<1>5. CASE t \in SendAcl(v, c)
  <2>1. Handles(u, v, c) /\ ~ IsOpen(v.pool, c) /\ v.pc = u.pc
    BY <1>1, <1>4, CloseConnOK
  <2> HIDE DEF v
  <2>2. BaseOK(v) /\ Heard(v, c)
    BY <2>1 DEF Handles, Heard
  <2>3. Handles(v, t, c)
    BY <1>1, <1>5, <2>2, SendAclOK
  <2>4. Handles(u, t, c)
    BY <1>1, <1>4, <2>1, <2>3, HandlesClosed
  <2> QED BY <1>4, <2>4, FreshThenHandles
<1>6. CASE t \in SendAcl(w, c)
  <2>1. Fresh(st, w, c) /\ w.req[c].left # 0
    BY <1>4, AttachFresh
  <2> HIDE DEF w
  <2>2. Handles(w, t, c)
    BY <1>1, <1>6, <2>1, SendAclOK DEF Fresh
  <2> QED BY <2>1, <2>2, FreshThenHandles
<1> QED BY <1>2, <1>5, <1>6

(* A state between accept() and the handing out of a slot: the kernel has    *)
(* opened descriptor f for nobody yet.                                       *)
Opened(st, u, f) ==
    /\ PartsOK(u)
    /\ f \in Fds \ OpenFds(st.pool)
    /\ u.net.open = OpenFds(st.pool) \cup {f}
    /\ u.pool = st.pool /\ u.sel = st.sel /\ u.posted = st.posted
    /\ u.req = st.req /\ u.pc = st.pc

\* spy_get_connection, when no event of a free slot is posted.
LEMMA TakeSlotOK ==
    ASSUME NEW st, NEW u, NEW f, Opened(st, u, f), CanGet(u.pool), PostedAreOpen(st)
    PROVE  LET c == u.pool.free_connections
               s == TakeSlot(u, f)
           IN  /\ Fresh(st, s, c) /\ s.pool.fd[c] = f
               /\ \A e \in EventsOf(c) : ~ s.sel.active[e]
<1> DEFINE c == u.pool.free_connections
           p == GetConnection(u.pool, f)
           l == ClearLinks(u.posted, c)
           b == ClearEvents(u.sel, c)
           s == TakeSlot(u, f)
<1>1. /\ u \in StateType /\ u.pool \in PoolType /\ u.ev \in EvType /\ u.sel \in SelectType
      /\ PoolOK(u.pool) /\ TablesOK(u.sel, u.pool)
      /\ QueuesOK(u.posted) /\ PostedOK(u.posted)
      /\ f \in Fds /\ f \notin OpenFds(u.pool)
  BY DEF Opened, PartsOK, StateType, QueuesOK
<1>2. c \in Connections /\ ~ IsOpen(u.pool, c)
  BY <1>1, HeadIsFree
<1>3. c \notin Listeners
  <2>1. \A i \in Listeners : u.pool.fd[i] = i /\ i \in Nat
    BY ListenersFacts DEF Opened, PartsOK, ListenersOK
  <2> HIDE DEF c
  <2> QED BY <1>2, <2>1 DEF IsOpen, NoFd
<1>4. PoolOK(p) /\ p \in PoolType
  BY <1>1, GetConnectionOK DEF PoolOK
<1>5. TablesOK(b, p) /\ b \in SelectType
  BY <1>1, GettingKeepsTables DEF TablesOK
<1>6. OpenFds(p) = OpenFds(u.pool) \cup {f}
  BY <1>1, OpenFdsAfterGet
<1>7. \A d \in Connections : /\ p.fd[d] = IF d = c THEN f ELSE u.pool.fd[d]
                             /\ d # c => p.data[d] = u.pool.data[d]
  BY <1>1, <1>2 DEF GetConnection, PoolType
<1>8. \A e \in EventsOf(c) : ~ IsPosted(u.posted, e)
  BY <1>2, EventsOfSlot DEF EventsOf, Opened, PostedAreOpen
<1>9. PostedOK(l) /\ l.prev = u.posted.prev /\ l.head = u.posted.head
  BY <1>1, <1>2, <1>8, ClearLinksOK, ClearLinksPrev
<1>10. QueuesOK(l)
  BY <1>1, <1>9 DEF QueuesOK, EndsOK, SortedOK, IsPosted
<1>11. /\ \A e \in EventsOf(c) : ~ b.active[e]
       /\ \A e \in Events : ConnectionOf(e) # c => b.active[e] = u.sel.active[e]
  <2>1. /\ ReadEvent(c) \in Events /\ WriteEvent(c) \in Events
        /\ ConnectionOf(ReadEvent(c)) = c /\ ConnectionOf(WriteEvent(c)) = c
    BY <1>2, EventsOfSlot
  <2>2. b.active = [u.sel.active EXCEPT ![ReadEvent(c)] = FALSE, ![WriteEvent(c)] = FALSE]
    BY DEF ClearEvents
  <2> HIDE DEF b, c
  <2> QED BY <1>1, <2>1, <2>2 DEF SelectType, EventsOf
<1>12. ListenersOK(p)
  <2>1. \A i \in Listeners : i # c /\ i \in Connections
    BY <1>3, ListenersFacts
  <2>2. ListenersOK(u.pool)
    BY DEF Opened, PartsOK
  <2> QED BY <1>7, <2>1, <2>2 DEF ListenersOK
<1> HIDE DEF p, l, b
<1>13. /\ s.pool = p /\ s.sel = b /\ s.posted = l /\ s.req = u.req
       /\ s.net = u.net /\ s.pc = u.pc
       /\ s.ev.ready = [u.ev.ready EXCEPT ![ReadEvent(c)] = FALSE, ![WriteEvent(c)] = FALSE]
       /\ s.ev.handler = [u.ev.handler EXCEPT ![ReadEvent(c)] = "NULL", ![WriteEvent(c)] = "NULL"]
  BY <1>1, ZenonT(40) DEF TakeSlot, StateType, EvType, p, l, b
<1>14. s.ev \in EvType
  <2>1. DOMAIN s.ev = {"ready", "handler"} /\ s.ev = [ready |-> s.ev.ready, handler |-> s.ev.handler]
    BY <1>1 DEF TakeSlot, StateType, EvType
  <2>2. s.ev.ready \in [Events -> BOOLEAN] /\ s.ev.handler \in [Events -> Handlers]
    <3> HIDE DEF s
    <3> QED BY <1>1, <1>13 DEF EvType, Handlers
  <2> HIDE DEF s
  <2> QED BY <2>1, <2>2 DEF EvType
<1>15. s \in StateType
  <2>1. l \in PostedType
    BY <1>9 DEF PostedOK
  <2> QED BY <1>1, <1>4, <1>5, <1>13, <1>14, <2>1 DEF TakeSlot, StateType
<1> HIDE DEF s
<1>16. HandlersOK(s.ev)
  <2>1. ReadEvent(c) \notin Acceptors /\ WriteEvent(c) \notin Acceptors
    BY <1>2, <1>3, ListenersFacts
  <2>2. HandlersOK(u.ev)
    BY DEF Opened, PartsOK
  <2> HIDE DEF c
  <2> QED BY <1>1, <1>13, <2>1, <2>2 DEF HandlersOK, EvType
<1>17. BaseOK(s)
  BY <1>4, <1>5, <1>6, <1>10, <1>12, <1>13, <1>15, <1>16 DEF BaseOK, PartsOK, Opened
<1> HIDE DEF c
<1>18. Fresh(st, s, c)
  <2>1. s.pool.fd[c] = f
    BY <1>2, <1>7, <1>13
  <2>2. \A d \in Connections : d # c => /\ s.pool.fd[d] = st.pool.fd[d]
                                        /\ s.pool.data[d] = st.pool.data[d]
                                        /\ s.req[d] = st.req[d]
    BY <1>7, <1>13 DEF Opened
  <2>3. \A e \in Events : ConnectionOf(e) # c => s.sel.active[e] = st.sel.active[e]
    BY <1>11, <1>13 DEF Opened
  <2> QED BY <1>2, <1>3, <1>9, <1>13, <1>17, <2>1, <2>2, <2>3 DEF Fresh, Opened
<1> QED BY <1>2, <1>7, <1>11, <1>13, <1>18 DEF s, c


\* accept() returned a descriptor.
LEMMA AcceptedOK ==
    ASSUME NEW st, NEW u, NEW f, Opened(st, u, f), NEW t \in Accepted(u, f),
           BaseOK(st), PostedAreOpen(st), \A d \in Connections : Heard(st, d)
    PROVE  Accepts(st, t)
<1> DEFINE c == u.pool.free_connections
           s == TakeSlot(u, f)
           r == [s EXCEPT !.ev.ready[WriteEvent(c)] = TRUE]
<1>1. CASE ~ CanGet(u.pool)
  <2> DEFINE n == CloseSocket(u.net, f)
  <2>1. t = [u EXCEPT !.net = n]
    BY <1>1 DEF Accepted
  <2>2. u \in StateType /\ u.net \in NetType /\ st.pool \in PoolType
    BY DEF Opened, PartsOK, StateType
  <2>3. /\ n \in NetType /\ n.open = u.net.open \ {f}
        /\ n.backlog = u.net.backlog /\ n.arrived = u.net.arrived
    BY <2>2 DEF CloseSocket, NetType
  <2>4. n.open = OpenFds(st.pool)
    BY <2>3 DEF Opened
  <2> HIDE DEF n
  <2>5. /\ t \in StateType /\ t.net = n /\ t.ev = u.ev /\ t.pool = u.pool /\ t.sel = u.sel
        /\ t.posted = u.posted /\ t.req = u.req /\ t.pc = u.pc
    BY <2>1, <2>2, <2>3 DEF StateType
  <2>6. BaseOK(t)
    BY <2>3, <2>4, <2>5 DEF BaseOK, PartsOK, BacklogOK, Opened
  <2>7. PostedAreOpen(t) /\ \A d \in Connections : Heard(t, d)
    BY <2>5 DEF PostedAreOpen, Heard, Opened
  <2>8. 0 \in Connections
    BY ConnectionNAssumption DEF Connections
  <2>9. StepOn(st, t, 0)
    BY <2>5, <2>8, LeftIsNat DEF StepOn, Opened
  <2> QED BY <2>5, <2>6, <2>7, <2>8, <2>9 DEF Accepts, Opened
<1>2. CASE CanGet(u.pool)
  <2>1. \/ t = [s EXCEPT !.pool = CloseAccepted(s.pool, c), !.net = CloseSocket(s.net, f)]
        \/ t \in InitPacket(r, c)
    BY <1>2 DEF Accepted
  <2>2. Fresh(st, s, c) /\ s.pool.fd[c] = f /\ \A e \in EventsOf(c) : ~ s.sel.active[e]
    BY <1>2, TakeSlotOK
  <2> HIDE DEF s, c
  <2>3. c \in Connections \ Listeners /\ c \in Connections /\ BaseOK(s) /\ IsOpen(s.pool, c)
    BY <2>2, FdsAssumption DEF Fresh, IsOpen, NoFd
  <2>4. CASE t = [s EXCEPT !.pool = CloseAccepted(s.pool, c), !.net = CloseSocket(s.net, f)]
    <3>1. Handles(s, t, c)
      BY <2>2, <2>3, <2>4, CloseAcceptedHandles
    <3> QED BY <2>2, <3>1, FreshThenHandles
  <2>5. CASE t \in InitPacket(r, c)
    <3>1. Touches(s, r, c)
      BY <2>3, ReadyTouches
    <3>2. Fresh(st, r, c)
      BY <2>2, <3>1, FreshTouches
    <3> HIDE DEF r
    <3> QED BY <2>5, <3>2, InitPacketOK
  <2> QED BY <2>1, <2>4, <2>5
<1> QED BY <1>1, <1>2

\* Nothing happens, or one client less waits.
LEMMA DequeueOK ==
    ASSUME NEW st, BaseOK(st), PostedAreOpen(st), \A d \in Connections : Heard(st, d),
           NEW l \in Listeners, st.net.backlog[l] # 0
    PROVE  LET s == Dequeue(st, l) IN
           /\ Accepts(st, s)
           /\ s.pool = st.pool /\ s.sel = st.sel /\ s.posted = st.posted
           /\ s.req = st.req /\ s.pc = st.pc /\ s.net.open = st.net.open
<1> DEFINE s == Dequeue(st, l)
<1>1. st \in StateType /\ st.net \in NetType /\ BacklogOK(st.net)
  BY DEF BaseOK, PartsOK, StateType
<1>2. /\ s.pool = st.pool /\ s.sel = st.sel /\ s.posted = st.posted /\ s.ev = st.ev
      /\ s.req = st.req /\ s.pc = st.pc
      /\ s.net = [st.net EXCEPT !.backlog[l] = @ - 1]
  BY <1>1 DEF Dequeue, StateType
<1>3. /\ s.net \in NetType /\ s.net.open = st.net.open /\ s.net.arrived = st.net.arrived
      /\ s.net.backlog = [st.net.backlog EXCEPT ![l] = @ - 1]
  <2>1. [st.net.backlog EXCEPT ![l] = @ - 1] \in [Listeners -> 0 .. MaxClients]
    BY <1>1, LoopAssumption DEF NetType
  <2> QED BY <1>1, <1>2, <2>1 DEF NetType
<1>4. s \in StateType
  BY <1>1, <1>2, <1>3 DEF Dequeue, StateType
<1> HIDE DEF s
<1>5. BacklogOK(s.net)
  BY <1>1, <1>3, LoopAssumption DEF BacklogOK, NetType
<1>6. BaseOK(s)
  BY <1>2, <1>3, <1>4, <1>5 DEF BaseOK, PartsOK
<1>7. PostedAreOpen(s) /\ \A d \in Connections : Heard(s, d)
  BY <1>2 DEF PostedAreOpen, Heard
<1>8. 0 \in Connections
  BY ConnectionNAssumption DEF Connections
<1>9. StepOn(st, s, 0)
  BY <1>2, <1>8, LeftIsNat DEF StepOn
<1> QED BY <1>2, <1>3, <1>6, <1>7, <1>8, <1>9 DEF Accepts, s

(* spy_event_accept.                                                         *)
LEMMA EventAcceptOK ==
    ASSUME NEW st, BaseOK(st), PostedAreOpen(st), \A d \in Connections : Heard(st, d),
           NEW l \in Listeners, NEW t \in EventAccept(st, l)
    PROVE  Accepts(st, t)
<1> DEFINE f == Min(Fds \ st.net.open)
           s == Dequeue(st, l)
<1>1. CASE t = st
  <2>1. 0 \in Connections
    BY ConnectionNAssumption DEF Connections
  <2>2. StepOn(st, st, 0)
    BY <2>1, LeftIsNat DEF StepOn
  <2> QED BY <1>1, <2>1, <2>2 DEF Accepts
<1>2. CASE t # st
  <2>1. /\ st.net.backlog[l] # 0 /\ ~ (Fds \subseteq st.net.open)
        /\ \/ t = s
           \/ \E room \in 0 .. PacketParts : t \in Accepted([s EXCEPT !.net = OpenSocket(s.net, f, room)], f)
    BY <1>2 DEF EventAccept
  <2>2. /\ Accepts(st, s) /\ BaseOK(s)
        /\ s.pool = st.pool /\ s.sel = st.sel /\ s.posted = st.posted
        /\ s.req = st.req /\ s.pc = st.pc /\ s.net.open = st.net.open
    BY <2>1, DequeueOK DEF Accepts
  <2>3. f \in Fds /\ f \notin st.net.open
    <3>1. (Fds \ st.net.open) \in SUBSET Nat /\ Fds \ st.net.open # {}
      BY <2>1, FdsAssumption
    <3> QED BY <3>1, NatMin
  <2> HIDE DEF f, s
  <2>4. ASSUME NEW room \in 0 .. PacketParts,
               t \in Accepted([s EXCEPT !.net = OpenSocket(s.net, f, room)], f)
        PROVE  Accepts(st, t)
    <3> DEFINE n == OpenSocket(s.net, f, room)
               u == [s EXCEPT !.net = n]
    <3>1. s \in StateType /\ s.net \in NetType
      BY <2>2 DEF BaseOK, PartsOK, StateType
    <3>2. /\ n \in NetType /\ n.open = s.net.open \cup {f}
          /\ n.backlog = s.net.backlog /\ n.arrived = s.net.arrived
      BY <2>3, <3>1 DEF OpenSocket, NetType
    <3> HIDE DEF n
    <3>3. /\ u \in StateType /\ u.net = n /\ u.pool = s.pool /\ u.sel = s.sel
          /\ u.posted = s.posted /\ u.ev = s.ev /\ u.req = s.req /\ u.pc = s.pc
      BY <3>1, <3>2 DEF StateType
    <3> HIDE DEF u
    <3>4. PartsOK(u)
      BY <2>2, <3>2, <3>3 DEF BaseOK, PartsOK, BacklogOK
    <3>5. Opened(st, u, f)
      BY <2>2, <2>3, <3>2, <3>3, <3>4 DEF Opened, BaseOK
    <3> QED BY <2>4, <3>5, AcceptedOK DEF u, n
  <2> QED BY <2>1, <2>2, <2>4
<1> QED BY <1>1, <1>2


-----------------------------------------------------------------------------
(* The steps of the loop. Each goes from a state of the invariant to         *)
(* another, and works on one connection at most.                             *)
Goes(st, t) == LoopOK(t) /\ \E c \in Connections : StepOn(st, t, c)

\* The state after a step is one of those its handler may leave.
LEMMA BecomeIs ==
    ASSUME NEW states, Become(states), \A t \in states : t \in StateType
    PROVE  State' \in states
<1>1. PICK t \in states : /\ pool' = t.pool /\ sel' = t.sel /\ posted' = t.posted
                          /\ ev' = t.ev /\ req' = t.req /\ net' = t.net /\ pc' = t.pc
  BY DEF Become
<1>2. t = [ pool |-> t.pool, sel |-> t.sel, posted |-> t.posted, ev |-> t.ev,
            req |-> t.req, net |-> t.net, pc |-> t.pc ]
  BY DEF StateType
<1>3. State' = t
  BY <1>1, <1>2 DEF State
<1> QED BY <1>3

\* A step that changes neither a connection nor a request is on any.
LEMMA StepOnNone ==
    ASSUME NEW st, NEW t, BaseOK(st), t.pool = st.pool, t.req = st.req
    PROVE  \E c \in Connections : StepOn(st, t, c)
<1>1. 0 \in Connections
  BY ConnectionNAssumption DEF Connections
<1>2. StepOn(st, t, 0)
  BY <1>1, LeftIsNat DEF StepOn
<1> QED BY <1>1, <1>2

\* Taking an event off its queue.
LEMMA DeletedOK ==
    ASSUME NEW st, BaseOK(st), NEW e \in Events, IsPosted(st.posted, e)
    PROVE  LET t == [st EXCEPT !.posted = DeletePosted(st.posted, e)] IN
           /\ BaseOK(t)
           /\ PostedAreOpen(st) => PostedAreOpen(t)
           /\ t.pool = st.pool /\ t.sel = st.sel /\ t.ev = st.ev /\ t.req = st.req
           /\ t.net = st.net /\ t.pc = st.pc
           /\ t.posted = DeletePosted(st.posted, e)
<1> DEFINE l == st.posted
           m == DeletePosted(l, e)
           t == [st EXCEPT !.posted = m]
<1>1. st \in StateType /\ PostedOK(l) /\ EndsOK(l) /\ SortedOK(l) /\ l \in PostedType
  BY DEF BaseOK, PartsOK, QueuesOK, PostedOK
<1>2. PostedOK(m) /\ EndsOK(m) /\ m \in PostedType
  BY <1>1, DeletePostedOK, DeletePostedEnds DEF PostedOK
<1>3. \A x \in Events :
         /\ l.next[e] \in Events => l.prev[l.next[e]] = e
         /\ m.prev[x] = IF x = e THEN Null ELSE IF x = l.next[e] THEN l.prev[e] ELSE l.prev[x]
  BY <1>1, DeletePostedPrev
<1> HIDE DEF l, m
<1>4. \A x \in Events : IsPosted(m, x) => IsPosted(l, x)
  BY <1>1, <1>3, NullAssumption DEF IsPosted
<1>5. SortedOK(m)
  <2> SUFFICES ASSUME NEW x \in Events, IsPosted(m, x)
               PROVE  x \in Acceptors <=> m.prev[x] \in Acceptors \cup {spy_posted_accept_events}
    BY DEF SortedOK
  <2>1. x # e /\ IsPosted(l, x) /\ IsPosted(l, e)
    BY <1>3, <1>4 DEF IsPosted, l
  <2>2. e # spy_posted_accept_events
    BY PlacesApart DEF Queues
  <2>3. /\ x \in Acceptors <=> l.prev[x] \in Acceptors \cup {spy_posted_accept_events}
        /\ e \in Acceptors <=> l.prev[e] \in Acceptors \cup {spy_posted_accept_events}
    BY <1>1, <2>1 DEF SortedOK
  <2> QED BY <1>3, <2>1, <2>2, <2>3
<1>6. /\ t.pool = st.pool /\ t.sel = st.sel /\ t.ev = st.ev /\ t.req = st.req
      /\ t.net = st.net /\ t.pc = st.pc /\ t.posted = m
  BY <1>1 DEF StateType
<1>7. t \in StateType
  BY <1>1, <1>2 DEF StateType
<1> HIDE DEF t
<1>8. BaseOK(t)
  BY <1>2, <1>5, <1>6, <1>7 DEF BaseOK, PartsOK, QueuesOK
<1>9. PostedAreOpen(st) => PostedAreOpen(t)
  BY <1>4, <1>6 DEF PostedAreOpen, l
<1> QED BY <1>6, <1>8, <1>9 DEF t, m, l

\* The head of the other queue stays where it is.
LEMMA DeletedHead ==
    ASSUME NEW l, PostedOK(l), NEW q \in Queues, l.head[q] # Null, NEW r \in Queues, r # q
    PROVE  DeletePosted(l, l.head[q]).head[r] = l.head[r]
<1>1. l.prev[l.head[q]] = q /\ l \in PostedType
  BY HeadIsPosted DEF PostedOK
<1>2. DeletePosted(l, l.head[q]).head = [l.head EXCEPT ![q] = l.next[l.head[q]]]
  BY <1>1 DEF DeletePosted, Store, PostedType
<1> QED BY <1>1, <1>2 DEF PostedType

\* The events of a queue's head, by their sort.
LEMMA HeadsSorted ==
    ASSUME NEW l, QueuesOK(l), NEW q \in Queues, l.head[q] # Null
    PROVE  /\ l.head[q] \in Events /\ IsPosted(l, l.head[q])
           /\ l.head[q] \in Acceptors <=> q = spy_posted_accept_events
<1>1. l.head[q] \in Events /\ l.prev[l.head[q]] = q /\ IsPosted(l, l.head[q])
  BY HeadIsPosted DEF QueuesOK
<1>2. q \notin Acceptors
  BY PlacesApart, ListenersFacts
<1> QED BY <1>1, <1>2 DEF QueuesOK, SortedOK

(* A handler of the other events, run with nothing left to accept.           *)
LEMMA HandlesGoes ==
    ASSUME NEW st, NEW t, NEW c \in Connections, BaseOK(st), Handles(st, t, c),
           st.pc = "posted_events", st.posted.head[spy_posted_accept_events] = Null,
           \A d \in Connections : Heard(st, d)
    PROVE  Goes(st, t)
<1>1. BaseOK(t) /\ Elsewhere(st, t, c) /\ st.pool \in PoolType
  BY DEF Handles, BaseOK, PartsOK, StateType
<1>2. \A d \in Connections : d # c => Heard(t, d)
  <2> SUFFICES ASSUME NEW d \in Connections, d # c
               PROVE  Heard(t, d)
    OBVIOUS
  <2>1. /\ t.sel.active[ReadEvent(d)] = st.sel.active[ReadEvent(d)]
        /\ t.sel.active[WriteEvent(d)] = st.sel.active[WriteEvent(d)]
    BY <1>1, EventsOfSlot DEF Elsewhere
  <2>2. Heard(st, d)
    OBVIOUS
  <2> QED BY <1>1, <2>1, <2>2 DEF Elsewhere, Heard, IsOpen
<1>3. t.pc \in Running => \A d \in Connections : Heard(t, d)
  BY <1>2 DEF Handles
<1>4. t.pc = "posted_events" \/ t.pc \notin Running
  BY DEF Handles
<1>5. t.posted.head[spy_posted_accept_events] = Null
  BY <1>1 DEF Elsewhere
<1>6. LoopOK(t)
  BY <1>1, <1>3, <1>4, <1>5 DEF LoopOK, Running
<1>7. StepOn(st, t, c)
  <2>1. CASE t.pool = st.pool
    BY <1>1, <2>1 DEF StepOn, Elsewhere, Handles
  <2>2. CASE t.pool # st.pool
    <3>1. t.pool = CloseAccepted(st.pool, c)
      BY <2>2 DEF Handles, CloseConnection
    <3>2. t.pool.fd[c] = NoFd
      BY <1>1, <3>1 DEF CloseAccepted, FreeConnection, PoolType
    <3> QED BY <1>1, <3>2 DEF StepOn, Elsewhere
  <2> QED BY <2>1, <2>2
<1> QED BY <1>6, <1>7 DEF Goes

LEMMA ProcessPostedAcceptOK ==
    ASSUME LoopIInv, ProcessPostedAccept
    PROVE  Goes(State, State')
<1> DEFINE e == posted.head[spy_posted_accept_events]
           st == [State EXCEPT !.posted = DeletePosted(posted, e)]
           l == pool.fd[ConnectionOf(e)]
<1>1. /\ BaseOK(State) /\ State.pc = "accept_events" /\ PostedAreOpen(State)
      /\ \A d \in Connections : Heard(State, d)
      /\ State.posted = posted /\ State.pool = pool /\ State.ev = ev /\ State.req = req
  BY DEF LoopIInv, LoopOK, Running, ProcessPostedAccept, State
<1>2. e \in Events /\ IsPosted(posted, e) /\ e \in Acceptors
  BY <1>1, HeadsSorted DEF ProcessPostedAccept, Queues, BaseOK, PartsOK
<1> HIDE DEF e
<1>3. /\ BaseOK(st) /\ PostedAreOpen(st) /\ st.pool = pool /\ st.sel = State.sel
      /\ st.req = req /\ st.pc = "accept_events"
  BY <1>1, <1>2, DeletedOK
<1>4. l \in Listeners
  <2>1. PICK i \in Listeners : e = ReadEvent(i)
    BY <1>2 DEF Acceptors
  <2>2. ConnectionOf(e) = i
    BY <2>1, ListenersFacts, EventsOfSlot
  <2> QED BY <1>1, <2>2 DEF BaseOK, PartsOK, ListenersOK
<1>5. ev.handler[e] = "spy_event_accept"
  BY <1>1, <1>2 DEF BaseOK, PartsOK, HandlersOK
<1>6. Become(EventAccept(st, l))
  BY <1>5 DEF ProcessPostedAccept, Handle, e
<1> HIDE DEF st, l
<1>7. \A d \in Connections : Heard(st, d)
  BY <1>1, <1>3 DEF Heard
<1>8. \A t \in EventAccept(st, l) : Accepts(st, t)
  BY <1>3, <1>4, <1>7, EventAcceptOK
<1>9. \A t \in EventAccept(st, l) : t \in StateType
  BY <1>8 DEF Accepts, BaseOK, PartsOK
<1>10. State' \in EventAccept(st, l)
  BY <1>6, <1>9, BecomeIs
<1> DEFINE t == State'
<1>11. Accepts(st, t)
  BY <1>8, <1>10
<1> HIDE DEF t
<1>12. LoopOK(t)
  BY <1>3, <1>11 DEF Accepts, LoopOK, Running
<1>13. \E c \in Connections : StepOn(State, t, c)
  BY <1>1, <1>3, <1>11 DEF Accepts, StepOn
<1> QED BY <1>12, <1>13 DEF Goes, t

LEMMA ProcessPostedOK ==
    ASSUME LoopIInv, ProcessPosted
    PROVE  Goes(State, State')
<1> DEFINE e == posted.head[spy_posted_events]
           c == ConnectionOf(e)
           st == [State EXCEPT !.posted = DeletePosted(posted, e)]
<1>1. /\ BaseOK(State) /\ State.pc = "posted_events"
      /\ posted.head[spy_posted_accept_events] = Null
      /\ \A d \in Connections : Heard(State, d)
      /\ State.posted = posted /\ State.pool = pool /\ State.ev = ev /\ State.req = req
  BY DEF LoopIInv, LoopOK, Running, ProcessPosted, State
<1>2. e \in Events /\ IsPosted(posted, e) /\ e \notin Acceptors
  BY <1>1, HeadsSorted, QueuesAssumption DEF ProcessPosted, Queues, BaseOK, PartsOK
<1>3. DeletePosted(posted, e).head[spy_posted_accept_events] = Null
  BY <1>1, DeletedHead, QueuesAssumption DEF ProcessPosted, Queues, BaseOK, PartsOK, QueuesOK
<1> HIDE DEF e
<1>4. /\ BaseOK(st) /\ st.pool = pool /\ st.sel = State.sel /\ st.req = req
      /\ st.pc = "posted_events" /\ st.posted = DeletePosted(posted, e)
  BY <1>1, <1>2, DeletedOK
<1>5. /\ ev.handler[e] \in {"NULL", "spy_proxy_send_acl"}
      /\ ev.handler[e] = "spy_proxy_send_acl" => c \notin Listeners
      /\ c \in Connections
  BY <1>1, <1>2, EventParts DEF BaseOK, PartsOK, HandlersOK, StateType, EvType, Handlers
<1> DEFINE states == IF ev.handler[e] = "NULL" THEN Dies(st, "no_handler") ELSE SendAcl(st, c)
<1>6. Become(states)
  <2>1. CASE ev.handler[e] = "NULL"
    BY <2>1 DEF ProcessPosted, Handle, e
  <2>2. CASE ev.handler[e] = "spy_proxy_send_acl"
    BY <2>2 DEF ProcessPosted, Handle, e
  <2> QED BY <1>5, <2>1, <2>2
<1> HIDE DEF st, c
<1>7. \A d \in Connections : Heard(st, d)
  BY <1>1, <1>4 DEF Heard
<1>8. \A t \in states : Handles(st, t, c)
  BY <1>4, <1>5, <1>7, DyingHandles, SendAclOK
<1> HIDE DEF states
<1>9. \A t \in states : t \in StateType
  BY <1>8 DEF Handles, BaseOK, PartsOK
<1>10. State' \in states
  BY <1>6, <1>9, BecomeIs
<1> DEFINE t == State'
<1>11. Handles(st, t, c)
  BY <1>8, <1>10
<1> HIDE DEF t
<1>12. Goes(st, t)
  BY <1>3, <1>4, <1>5, <1>7, <1>11, HandlesGoes
<1>13. \A d \in Connections : StepOn(st, t, d) => StepOn(State, t, d)
  BY <1>1, <1>4 DEF StepOn
<1> QED BY <1>12, <1>13 DEF Goes, t


\* With both queues empty no event is posted at all.
LEMMA QueuesDoneOK ==
    ASSUME LoopIInv, PostedAcceptDone \/ PostedDone
    PROVE  Goes(State, State')
<1> DEFINE t == State'
<1>1. /\ t.pool = State.pool /\ t.sel = State.sel /\ t.posted = State.posted /\ t.ev = State.ev
      /\ t.req = State.req /\ t.net = State.net /\ t.pc \in {"posted_events", "process_events"}
      /\ t = [pool |-> t.pool, sel |-> t.sel, posted |-> t.posted, ev |-> t.ev,
              req |-> t.req, net |-> t.net, pc |-> t.pc]
  BY DEF PostedAcceptDone, PostedDone, State
<1>2. BaseOK(State) /\ \A d \in Connections : Heard(State, d)
  BY DEF LoopIInv, LoopOK, PostedAcceptDone, PostedDone, State, Running
<1>3. t.pc = "posted_events" => t.posted.head[spy_posted_accept_events] = Null
  BY DEF PostedAcceptDone, PostedDone, State
<1>4. t.pc = "process_events" => PostedAreOpen(t)
  <2> SUFFICES ASSUME t.pc = "process_events" PROVE PostedAreOpen(t)
    OBVIOUS
  <2>1. /\ PostedDone
        /\ posted.head[spy_posted_events] = Null /\ posted.head[spy_posted_accept_events] = Null
    BY DEF PostedAcceptDone, PostedDone, State, LoopIInv, LoopOK
  <2>2. PostedOK(posted) /\ EndsOK(posted)
    BY <1>2 DEF BaseOK, PartsOK, QueuesOK, State
  <2>3. \A e \in Events : ~ IsPosted(posted, e)
    BY <2>1, <2>2, NothingPosted DEF Queues
  <2>4. t.posted = posted
    BY <2>1 DEF PostedDone, State
  <2> HIDE DEF t
  <2> QED BY <2>3, <2>4 DEF PostedAreOpen
<1> HIDE DEF t
<1>5. t \in StateType
  BY <1>1, <1>2 DEF BaseOK, PartsOK, StateType, Running
<1>6. BaseOK(t)
  BY <1>1, <1>2, <1>5 DEF BaseOK, PartsOK
<1>7. \A d \in Connections : Heard(t, d)
  BY <1>1, <1>2 DEF Heard
<1>8. LoopOK(t)
  BY <1>1, <1>3, <1>4, <1>6, <1>7 DEF LoopOK
<1>9. \E c \in Connections : StepOn(State, t, c)
  BY <1>1, <1>2, StepOnNone
<1> QED BY <1>8, <1>9 DEF Goes, t

\* The clients and the kernel touch no table of the process.
LEMMA ClientStepOK ==
    ASSUME LoopIInv, NEW n \in NetType, n.open = net.open, BacklogOK(n), ClientStep(n)
    PROVE  Goes(State, State')
<1> DEFINE t == State'
<1>1. /\ t.pool = State.pool /\ t.sel = State.sel /\ t.posted = State.posted /\ t.ev = State.ev
      /\ t.req = State.req /\ t.net = n /\ t.pc = State.pc /\ State.net = net
      /\ t = [pool |-> t.pool, sel |-> t.sel, posted |-> t.posted, ev |-> t.ev,
              req |-> t.req, net |-> t.net, pc |-> t.pc]
  BY DEF ClientStep, State
<1>2. LoopOK(State) /\ BaseOK(State)
  BY DEF LoopIInv, LoopOK
<1> HIDE DEF t
<1>3. t \in StateType
  BY <1>1, <1>2 DEF BaseOK, PartsOK, StateType
<1>4. BaseOK(t)
  BY <1>1, <1>2, <1>3 DEF BaseOK, PartsOK
<1>5. (PostedAreOpen(State) => PostedAreOpen(t)) /\ \A d \in Connections : Heard(State, d) => Heard(t, d)
  BY <1>1 DEF PostedAreOpen, Heard
<1>6. LoopOK(t)
  BY <1>1, <1>2, <1>4, <1>5 DEF LoopOK
<1>7. \E c \in Connections : StepOn(State, t, c)
  BY <1>1, <1>2, StepOnNone
<1> QED BY <1>6, <1>7 DEF Goes, t

LEMMA ClientsOK ==
    ASSUME LoopIInv,
           \/ \E l \in Listeners : Connect(l)
           \/ \E f \in Fds : ClientReads(f) \/ ClientSends(f) \/ ClientLeaves(f)
    PROVE  Goes(State, State')
<1>1. net \in NetType /\ BacklogOK(net)
  BY DEF LoopIInv, LoopOK, BaseOK, PartsOK, StateType, State
<1>2. ASSUME NEW l \in Listeners, Connect(l) PROVE Goes(State, State')
  <2> DEFINE n == [net EXCEPT !.arrived = @ + 1, !.backlog[l] = @ + 1]
  <2>1. ClientStep(n) /\ net.arrived < MaxClients
    BY <1>2 DEF Connect
  <2>2. net.arrived \in 0 .. MaxClients /\ net.backlog[l] \in 0 .. MaxClients
        /\ net.backlog[l] <= net.arrived /\ MaxClients \in Nat
    BY <1>1, LoopAssumption DEF NetType, BacklogOK
  <2>3. n.open = net.open /\ n.arrived = net.arrived + 1
        /\ n.backlog = [net.backlog EXCEPT ![l] = @ + 1]
    BY <1>1 DEF NetType
  <2>4. [net.backlog EXCEPT ![l] = @ + 1] \in [Listeners -> 0 .. MaxClients]
    BY <1>1, <2>1, <2>2 DEF NetType
  <2>5. n \in NetType
    <3>1. net.arrived + 1 \in 0 .. MaxClients
      BY <2>1, <2>2
    <3>2. n = [ [net EXCEPT !.arrived = net.arrived + 1]
                  EXCEPT !.backlog = [net.backlog EXCEPT ![l] = @ + 1] ]
      BY <1>1 DEF NetType
    <3> HIDE DEF n
    <3> QED BY <1>1, <2>4, <3>1, <3>2 DEF NetType
  <2>6. BacklogOK(n)
    <3> HIDE DEF n
    <3> QED BY <1>1, <2>2, <2>3 DEF BacklogOK, NetType
  <2> HIDE DEF n
  <2> QED BY <2>1, <2>3, <2>5, <2>6, ClientStepOK
<1>3. ASSUME NEW f \in Fds, ClientReads(f) PROVE Goes(State, State')
  <2> DEFINE n == [net EXCEPT !.room[f] = @ + 1]
  <2>1. ClientStep(n) /\ net.room[f] < PacketParts
    BY <1>3 DEF ClientReads
  <2>2. [net.room EXCEPT ![f] = @ + 1] \in [Fds -> 0 .. PacketParts]
    BY <1>1, <2>1, LoopAssumption DEF NetType
  <2>3. n \in NetType /\ n.open = net.open /\ n.arrived = net.arrived /\ n.backlog = net.backlog
    BY <1>1, <2>2 DEF NetType
  <2> HIDE DEF n
  <2> QED BY <1>1, <2>1, <2>3, ClientStepOK DEF BacklogOK
<1>4. ASSUME NEW f \in Fds, NEW what \in {"sent", "gone"}, ClientStep([net EXCEPT !.client[f] = what])
      PROVE  Goes(State, State')
  <2> DEFINE n == [net EXCEPT !.client[f] = what]
  <2>1. n \in NetType /\ n.open = net.open /\ n.arrived = net.arrived /\ n.backlog = net.backlog
    BY <1>1 DEF NetType
  <2>2. ClientStep(n)
    BY <1>4
  <2> HIDE DEF n
  <2> QED BY <1>1, <2>1, <2>2, ClientStepOK DEF BacklogOK
<1> QED BY <1>2, <1>3, <1>4 DEF ClientSends, ClientLeaves


\* Posting an event to the queue of its sort.
LEMMA PostEventSorted ==
    ASSUME NEW l, QueuesOK(l), NEW e \in Events, NEW q \in Queues,
           e \in Acceptors <=> q = spy_posted_accept_events
    PROVE  LET m == PostEvent(l, e, q) IN
           /\ QueuesOK(m)
           /\ \A x \in Events : IsPosted(m, x) => IsPosted(l, x) \/ x = e
<1> DEFINE m == PostEvent(l, e, q)
<1>1. PostedOK(l) /\ EndsOK(l) /\ SortedOK(l)
  BY DEF QueuesOK
<1>2. CASE IsPosted(l, e)
  BY <1>2 DEF PostEvent
<1>3. CASE ~ IsPosted(l, e)
  <2>1. PostedOK(m) /\ EndsOK(m)
    BY <1>1, PostEventOK, PostEventEnds
  <2>2. \A x \in Events :
           /\ l.head[q] \in Events => l.prev[l.head[q]] = q
           /\ m.prev[x] = IF x = e THEN q ELSE IF x = l.head[q] THEN e ELSE l.prev[x]
    BY <1>1, <1>3, PostEventPrev
  <2> HIDE DEF m
  <2>3. q # Null /\ q \notin Acceptors
    BY PlacesApart, ListenersFacts
  <2>4. ASSUME NEW x \in Events, IsPosted(m, x)
        PROVE  /\ IsPosted(l, x) \/ x = e
               /\ x \in Acceptors <=> m.prev[x] \in Acceptors \cup {spy_posted_accept_events}
    <3>1. CASE x = e
      BY <2>2, <2>3, <3>1
    <3>2. CASE x # e /\ x = l.head[q]
      <4>1. l.prev[x] = q /\ IsPosted(l, x) /\ m.prev[x] = e
        BY <2>2, <2>3, <3>2 DEF IsPosted
      <4>2. x \in Acceptors <=> q \in Acceptors \cup {spy_posted_accept_events}
        BY <1>1, <4>1 DEF SortedOK
      <4>3. e # spy_posted_accept_events
        BY PlacesApart DEF Queues
      <4> QED BY <2>3, <4>1, <4>2, <4>3
    <3>3. CASE x # e /\ x # l.head[q]
      <4>1. m.prev[x] = l.prev[x]
        BY <2>2, <3>3
      <4> QED BY <1>1, <2>4, <4>1 DEF SortedOK, IsPosted
    <3> QED BY <3>1, <3>2, <3>3
  <2> QED BY <2>1, <2>4 DEF QueuesOK, SortedOK, m
<1> QED BY <1>2, <1>3

(* The loop over the index posts events of open connections, each to the     *)
(* queue of its sort, in however many rounds.                                *)
LEMMA PostFoundOK ==
    ASSUME LoopIInv, PostedAreOpen(State), NEW s, NEW found, s.nevents \in Nat,
           \A i \in 0 .. s.nevents - 1 : /\ s.event_index[i] \in Events
                                         /\ IsOpen(pool, ConnectionOf(s.event_index[i]))
    PROVE  LET l == PostFound(s, found) IN
           /\ QueuesOK(l)
           /\ \A e \in Events : IsPosted(l, e) => IsOpen(pool, ConnectionOf(e))
<1> DEFINE n == s.nevents
           A == {l \in PostedType : /\ QueuesOK(l)
                                    /\ \A e \in Events : IsPosted(l, e) => IsOpen(pool, ConnectionOf(e))}
           Round(i, l) == LET e == s.event_index[i - 1] IN
                          IF e \in found THEN PostEvent(l, e, QueueOf(e)) ELSE l
           G == [x \in (1 .. n) \X A |-> Round(x[1], x[2])]
           Body(f) == [i \in 0 .. s.nevents |->
                         IF i = 0 THEN posted
                         ELSE LET e == s.event_index[i - 1] IN
                              IF e \in found THEN PostEvent(f[i - 1], e, QueueOf(e))
                                             ELSE f[i - 1]]
           after == CHOOSE f : f = Body(f)
<1>1. posted \in A
  <2>1. BaseOK(State) /\ State.posted = posted /\ State.pool = pool
    BY DEF LoopIInv, LoopOK, State
  <2> QED BY <2>1 DEF BaseOK, PartsOK, QueuesOK, PostedOK, PostedAreOpen
<1>2. ASSUME NEW i \in 1 .. n, NEW l \in A
      PROVE  Round(i, l) \in A
  <2> DEFINE e == s.event_index[i - 1]
  <2>1. i - 1 \in 0 .. n - 1
    OBVIOUS
  <2>2. e \in Events /\ IsOpen(pool, ConnectionOf(e))
    BY <2>1
  <2>3. QueueOf(e) \in Queues /\ (e \in Acceptors <=> QueueOf(e) = spy_posted_accept_events)
    <3>1. HandlersOK(ev)
      BY DEF LoopIInv, LoopOK, BaseOK, PartsOK, State
    <3> HIDE DEF e
    <3> QED BY <2>2, <3>1, QueuesAssumption DEF QueueOf, Queues, HandlersOK
  <2> DEFINE m == PostEvent(l, e, QueueOf(e))
  <2> HIDE DEF e
  <2>4. QueuesOK(m) /\ \A x \in Events : IsPosted(m, x) => IsPosted(l, x) \/ x = e
    BY <2>2, <2>3, PostEventSorted
  <2> HIDE DEF m
  <2>5. m \in A
    BY <2>2, <2>4 DEF QueuesOK, PostedOK
  <2> QED BY <2>5 DEF m, e
<1> HIDE DEF A, Round
<1>3. StepsIn(G, n, A)
  BY <1>2 DEF StepsIn
<1>4. PICK f : IsIteration(f, G, posted, n, A)
  <2> HIDE DEF G
  <2> QED BY <1>1, <1>3, IterationExists
<1>5. ASSUME NEW i \in 1 .. n PROVE f[i] = Round(i, f[i - 1])
  <2>1. i - 1 \in 0 .. n
    OBVIOUS
  <2>2. f[i - 1] \in A /\ f[i] = G[<<i, f[i - 1]>>]
    <3> HIDE DEF G
    <3> QED BY <1>4, <2>1 DEF IsIteration
  <2>3. <<i, f[i - 1]>> \in (1 .. n) \X A
    BY <2>2
  <2> QED BY <2>2, <2>3
<1> HIDE DEF G
<1>6. f = Body(f)
  BY <1>4, <1>5 DEF IsIteration, Round
<1> HIDE DEF Body
<1>7. after = Body(after)
  BY <1>6
<1>8. PostFound(s, found) = after[n]
  BY DEF PostFound, Body
<1> HIDE DEF after
<1>9. after[0] = posted /\ \A i \in 1 .. n : after[i] = Round(i, after[i - 1])
  BY <1>7 DEF Body, Round
<1> DEFINE S == {i \in 0 .. n : after[i] \in A}
<1>10. S = 0 .. n
  <2>1. 0 \in S
    BY <1>1, <1>9
  <2>2. ASSUME NEW i \in S, i < n PROVE i + 1 \in S
    <3>1. i + 1 \in 1 .. n /\ (i + 1) - 1 = i
      BY <2>2
    <3>2. after[i + 1] = Round(i + 1, after[i])
      BY <1>9, <3>1
    <3> QED BY <1>2, <3>1, <3>2
  <2>3. S \in SUBSET (0 .. n)
    OBVIOUS
  <2> HIDE DEF S
  <2> QED BY <2>1, <2>2, <2>3, BoundedInduction
<1> QED BY <1>8, <1>10 DEF A


\* The tables that select(2) is called with, and those it leaves.
LEMMA SelectTables ==
    ASSUME NEW st, BaseOK(st), NEW ready
    PROVE  LET s == RecomputeMaxFd(st.sel, st.pool)
               r == RepairFdSets(s, st.net.open)
           IN  /\ TablesOK(s, st.pool)
               /\ TablesOK(AfterSelect(s, st.pool, ready, st.net.open), st.pool)
               /\ s.active = st.sel.active /\ r.active = st.sel.active
               /\ AfterSelect(s, st.pool, ready, st.net.open).active = st.sel.active
               /\ BadDescriptor(s, st.net.open) =>
                      AfterSelect(s, st.pool, ready, st.net.open) = r
<1>1. /\ st.pool \in PoolType /\ TablesOK(st.sel, st.pool) /\ st.net.open = OpenFds(st.pool)
      /\ st.sel \in SelectType
  BY DEF BaseOK, PartsOK, StateType
<1> DEFINE s == RecomputeMaxFd(st.sel, st.pool)
<1>2. TablesOK(s, st.pool)
  BY <1>1, RecomputeMaxFdOK
<1>3. s.active = st.sel.active
  BY <1>1 DEF RecomputeMaxFd, SelectType
<1> HIDE DEF s
<1>4. TablesOK(AfterSelect(s, st.pool, ready, st.net.open), st.pool)
  BY <1>1, <1>2, AfterSelectOK
<1>5. RepairFdSets(s, st.net.open).active = s.active
  BY DEF RepairFdSets
<1> QED BY <1>2, <1>3, <1>4, <1>5 DEF AfterSelect, s

\* select(2) failed: nothing is posted.
LEMMA ProcessFailedOK ==
    ASSUME LoopIInv, ProcessFailed
    PROVE  Goes(State, State')
<1> DEFINE t == State'
           s == RecomputeMaxFd(sel, pool)
<1>1. /\ t.pool = State.pool /\ t.posted = State.posted /\ t.ev = State.ev
      /\ t.req = State.req /\ t.net = State.net /\ t.pc = State.pc
      /\ t.sel = IF BadDescriptor(s, net.open) THEN RepairFdSets(s, net.open) ELSE s
      /\ State.sel = sel /\ State.pool = pool /\ State.net = net
      /\ t = [pool |-> t.pool, sel |-> t.sel, posted |-> t.posted, ev |-> t.ev,
              req |-> t.req, net |-> t.net, pc |-> t.pc]
  BY DEF ProcessFailed, State
<1>2. LoopOK(State) /\ BaseOK(State)
  BY DEF LoopIInv, LoopOK
<1> HIDE DEF t
<1>3. TablesOK(t.sel, pool) /\ t.sel.active = sel.active
  <2>1. /\ TablesOK(s, pool) /\ s.active = sel.active
        /\ RepairFdSets(s, net.open).active = sel.active
        /\ BadDescriptor(s, net.open) => TablesOK(RepairFdSets(s, net.open), pool)
    BY <1>1, <1>2, SelectTables
  <2> HIDE DEF s
  <2> QED BY <1>1, <2>1
<1>4. t.sel \in SelectType
  BY <1>3 DEF TablesOK
<1>5. t \in StateType
  BY <1>1, <1>2, <1>4 DEF BaseOK, PartsOK, StateType
<1> HIDE DEF s
<1>6. BaseOK(t)
  BY <1>1, <1>2, <1>3, <1>5 DEF BaseOK, PartsOK
<1>7. (PostedAreOpen(State) => PostedAreOpen(t)) /\ \A d \in Connections : Heard(State, d) => Heard(t, d)
  BY <1>1, <1>3 DEF PostedAreOpen, Heard
<1>8. LoopOK(t)
  BY <1>1, <1>2, <1>6, <1>7 DEF LoopOK
<1>9. \E c \in Connections : StepOn(State, t, c)
  BY <1>1, <1>2, StepOnNone
<1> QED BY <1>8, <1>9 DEF Goes, t

LEMMA ProcessReadyOK ==
    ASSUME LoopIInv, ProcessReady
    PROVE  Goes(State, State')
<1> DEFINE t == State'
           s == RecomputeMaxFd(sel, pool)
           fds == ReadyFds(s)
           found == Found(s, pool, fds)
<1>1. /\ t.pool = State.pool /\ t.req = State.req /\ t.net = State.net
      /\ t.pc = "accept_events"
      /\ t.sel = AfterSelect(s, pool, fds, net.open)
      /\ t.posted = PostFound(s, found)
      /\ t.ev = [ev EXCEPT !.ready = [e \in Events |-> ev.ready[e] \/ e \in found]]
      /\ State.sel = sel /\ State.pool = pool /\ State.net = net /\ State.ev = ev
      /\ State.pc = "process_events"
      /\ t = [pool |-> t.pool, sel |-> t.sel, posted |-> t.posted, ev |-> t.ev,
              req |-> t.req, net |-> t.net, pc |-> t.pc]
  BY DEF ProcessReady, State
<1>2. /\ LoopOK(State) /\ BaseOK(State) /\ PostedAreOpen(State)
      /\ \A d \in Connections : Heard(State, d)
  BY <1>1 DEF LoopIInv, LoopOK, Running
<1> HIDE DEF t, fds, found
<1>3. /\ TablesOK(t.sel, pool) /\ t.sel.active = sel.active
      /\ TablesOK(s, pool) /\ s.active = sel.active
  BY <1>1, <1>2, SelectTables
<1> HIDE DEF s
<1>4. t.sel \in SelectType /\ s \in SelectType
  BY <1>3 DEF TablesOK
<1>5. /\ QueuesOK(t.posted)
      /\ \A e \in Events : IsPosted(t.posted, e) => IsOpen(pool, ConnectionOf(e))
  <2>1. s.nevents \in Nat
    BY <1>4, ConnectionNAssumption DEF SelectType
  <2>2. \A i \in 0 .. s.nevents - 1 : /\ s.event_index[i] \in Events
                                      /\ IsOpen(pool, ConnectionOf(s.event_index[i]))
    BY <1>3 DEF TablesOK, TableOK, WatchedAreOpen
  <2> QED BY <1>1, <1>2, <2>1, <2>2, PostFoundOK
<1>6. t.ev \in EvType /\ t.ev.handler = ev.handler
  <2>1. ev \in EvType
    BY <1>1, <1>2 DEF BaseOK, PartsOK, StateType
  <2>2. [e \in Events |-> ev.ready[e] \/ e \in found] \in [Events -> BOOLEAN]
    OBVIOUS
  <2> QED BY <1>1, <2>1, <2>2 DEF EvType
<1>7. t \in StateType
  <2>1. t.posted \in PostedType
    BY <1>5 DEF QueuesOK, PostedOK
  <2>2. t.pc \in Running
    BY <1>1 DEF Running
  <2> QED BY <1>1, <1>2, <1>4, <1>6, <2>1, <2>2 DEF BaseOK, PartsOK, StateType
<1>8. BaseOK(t)
  BY <1>1, <1>2, <1>3, <1>5, <1>6, <1>7 DEF BaseOK, PartsOK, HandlersOK
<1>9. PostedAreOpen(t) /\ \A d \in Connections : Heard(t, d)
  BY <1>1, <1>2, <1>3, <1>5 DEF PostedAreOpen, Heard
<1>10. LoopOK(t)
  BY <1>1, <1>8, <1>9 DEF LoopOK
<1>11. \E c \in Connections : StepOn(State, t, c)
  BY <1>1, <1>2, StepOnNone
<1> QED BY <1>10, <1>11 DEF Goes, t

(* Every step of the loop, its clients' and the kernel's included.           *)
LEMMA LoopStepGoes ==
    ASSUME LoopIInv, LoopNext
    PROVE  Goes(State, State')
BY ProcessReadyOK, ProcessFailedOK, ProcessPostedAcceptOK, ProcessPostedOK, QueuesDoneOK,
   ClientsOK DEF LoopNext

LEMMA LoopStepOK ==
    ASSUME LoopIInv, [LoopNext]_vars
    PROVE  LoopIInv'
<1>1. CASE LoopNext
  BY <1>1, LoopStepGoes DEF Goes, LoopIInv
<1>2. CASE UNCHANGED vars
  <2>1. State' = State
    BY <1>2 DEF State, vars
  <2> QED BY <2>1 DEF LoopIInv
<1> QED BY <1>1, <1>2


-----------------------------------------------------------------------------
(* The initial state: what the loop of spy_event_init has done after i       *)
(* sockets. The i-th slot and the i-th descriptor go to the i-th socket.     *)
Listening(i, r) ==
    /\ r \in [pool : PoolType, sel : SelectType]
    /\ PoolOK(r.pool) /\ TablesOK(r.sel, r.pool)
    /\ r.pool.free_connections = IF i < connection_n THEN i ELSE Null
    /\ \A d \in Connections :
          /\ r.pool.fd[d] = IF d < i THEN d ELSE NoFd
          /\ r.pool.data[d] = IF d >= i /\ d + 1 < connection_n THEN d + 1 ELSE Null

LEMMA NothingListening == Listening(0, [pool |-> InitialPool, sel |-> InitialSelect])
<1>1. PoolOK(InitialPool) /\ TablesOK(InitialSelect, InitialPool)
  BY InitialPoolOK, InitialSelectOK
<1>2. InitialPool \in PoolType /\ InitialSelect \in SelectType
  BY <1>1 DEF PoolOK, TablesOK
<1>3. /\ InitialPool.free_connections = IF 0 < connection_n THEN 0 ELSE Null
      /\ \A d \in Connections :
            /\ InitialPool.fd[d] = IF d < 0 THEN d ELSE NoFd
            /\ InitialPool.data[d] = IF d >= 0 /\ d + 1 < connection_n THEN d + 1 ELSE Null
  BY ConnectionNAssumption DEF InitialPool, Connections
<1> HIDE DEF InitialPool, InitialSelect
<1> QED BY <1>1, <1>2, <1>3 DEF Listening

LEMMA ListenOnOK ==
    ASSUME NEW i \in 0 .. listening_n - 1, NEW r, Listening(i, r)
    PROVE  Listening(i + 1, ListenOn(i, r.pool, r.sel))
<1> DEFINE p == r.pool
           c == p.free_connections
           q == GetConnection(p, i)
           b == ClearEvents(r.sel, c)
           a == AddEvent(b, ReadEvent(c), i)
<1>1. i \in Connections /\ i < connection_n /\ i \in Nat /\ i \in Fds
  BY ConnectionNAssumption, LoopAssumption DEF Connections
<1>2. PoolOK(p) /\ TablesOK(r.sel, p) /\ p \in PoolType /\ c = i
  BY <1>1 DEF Listening
<1>3. CanGet(p)
  BY <1>1, <1>2, NullAssumption DEF CanGet
<1>4. i \notin OpenFds(p)
  <2>1. \A d \in Connections : IsOpen(p, d) => p.fd[d] < i
    BY <1>1 DEF Listening, IsOpen, NoFd, Connections
  <2> HIDE DEF p
  <2> QED BY <1>1, <2>1 DEF OpenFds
<1>5. PoolOK(q) /\ q \in PoolType
  BY <1>1, <1>2, <1>3, GetConnectionOK DEF PoolOK
<1>6. TablesOK(b, q)
  BY <1>1, <1>2, <1>3, <1>4, GettingKeepsTables
<1>7. /\ q.free_connections = p.data[i]
      /\ \A d \in Connections : /\ q.fd[d] = IF d = i THEN i ELSE p.fd[d]
                                /\ q.data[d] = IF d = i THEN Null ELSE p.data[d]
  BY <1>1, <1>2 DEF GetConnection, PoolType
<1> HIDE DEF q, b
<1>8. TablesOK(a, q)
  <2>1. ReadEvent(i) \in Events /\ ConnectionOf(ReadEvent(i)) = i
    BY <1>1, EventsOfSlot
  <2>2. IsOpen(q, i) /\ q.fd[i] = i
    BY <1>1, <1>7 DEF IsOpen, NoFd
  <2> HIDE DEF p, c
  <2> QED BY <1>2, <1>5, <1>6, <2>1, <2>2, AddEventOK
<1>9. ListenOn(i, r.pool, r.sel) = [pool |-> q, sel |-> a]
  BY DEF ListenOn, q, b
<1>10. a \in SelectType
  BY <1>8 DEF TablesOK
<1> HIDE DEF a
<1>11. /\ q.free_connections = IF i + 1 < connection_n THEN i + 1 ELSE Null
       /\ \A d \in Connections :
             /\ q.fd[d] = IF d < i + 1 THEN d ELSE NoFd
             /\ q.data[d] = IF d >= i + 1 /\ d + 1 < connection_n THEN d + 1 ELSE Null
  <2>1. \A d \in Connections :
             /\ p.fd[d] = IF d < i THEN d ELSE NoFd
             /\ p.data[d] = IF d >= i /\ d + 1 < connection_n THEN d + 1 ELSE Null
    BY DEF Listening
  <2>2. \A d \in Connections : d \in Nat
    BY ConnectionNAssumption DEF Connections
  <2> HIDE DEF p
  <2> QED BY <1>1, <1>7, <2>1, <2>2
<1> QED BY <1>5, <1>8, <1>9, <1>10, <1>11 DEF Listening

\* All listening sockets.
LEMMA ListenOnAllOK ==
    Listening(listening_n, ListenOnAll(listening_n, [i \in 1 .. listening_n |-> i - 1]))
<1> DEFINE n == listening_n
           fds == [i \in 1 .. n |-> i - 1]
           A == [pool : PoolType, sel : SelectType]
           none == [pool |-> InitialPool, sel |-> InitialSelect]
           Next1(i, r) == ListenOn(fds[i], r.pool, r.sel)
           Round(i, r) == IF Next1(i, r) \in A THEN Next1(i, r) ELSE r
           G == [x \in (1 .. n) \X A |-> Round(x[1], x[2])]
           Body(f) == [i \in 0 .. n |->
                         IF i = 0 THEN [pool |-> InitialPool, sel |-> InitialSelect]
                                  ELSE ListenOn(fds[i], f[i - 1].pool, f[i - 1].sel)]
           after == CHOOSE f : f = Body(f)
<1>1. n \in Nat /\ \A i \in 1 .. n : i - 1 \in 0 .. n - 1 /\ fds[i] = i - 1
  BY LoopAssumption, ConnectionNAssumption
<1>2. Listening(0, none) /\ none \in A
  BY NothingListening DEF Listening
<1> HIDE DEF fds
<1>3. ASSUME NEW i \in 1 .. n, NEW r, Listening(i - 1, r)
      PROVE  Listening(i, Next1(i, r)) /\ Next1(i, r) \in A
  <2>1. Listening((i - 1) + 1, ListenOn(i - 1, r.pool, r.sel))
    BY <1>1, <1>3, ListenOnOK
  <2>2. (i - 1) + 1 = i
    BY <1>1
  <2> QED BY <1>1, <2>1, <2>2 DEF Listening
<1> HIDE DEF A, none, Next1
<1>4. StepsIn(G, n, A)
  BY DEF StepsIn
<1>5. PICK f : IsIteration(f, G, none, n, A)
  <2> HIDE DEF G
  <2> QED BY <1>1, <1>2, <1>4, IterationExists
<1>6. ASSUME NEW i \in 1 .. n PROVE f[i] = Round(i, f[i - 1])
  <2>1. i - 1 \in 0 .. n
    BY <1>1
  <2>2. f[i - 1] \in A /\ f[i] = G[<<i, f[i - 1]>>]
    <3> HIDE DEF G
    <3> QED BY <1>5, <2>1 DEF IsIteration
  <2>3. <<i, f[i - 1]>> \in (1 .. n) \X A
    BY <2>2
  <2> QED BY <2>2, <2>3
<1> HIDE DEF G
\* A sequence that starts with none and goes on while it can is listening.
<1>7. ASSUME NEW g, g[0] = none,
             \A i \in 1 .. n : Listening(i - 1, g[i - 1]) => g[i] = Next1(i, g[i - 1])
      PROVE  \A i \in 0 .. n : Listening(i, g[i])
  <2> DEFINE S == {i \in 0 .. n : Listening(i, g[i])}
  <2>1. 0 \in S
    BY <1>1, <1>2, <1>7
  <2>2. ASSUME NEW i \in S, i < n PROVE i + 1 \in S
    <3>1. i + 1 \in 1 .. n /\ (i + 1) - 1 = i
      BY <1>1, <2>2
    <3>2. g[i + 1] = Next1(i + 1, g[i]) /\ Listening((i + 1) - 1, g[i])
      BY <1>7, <3>1
    <3> QED BY <1>3, <3>1, <3>2
  <2>3. S \in SUBSET (0 .. n)
    OBVIOUS
  <2> HIDE DEF S
  <2>4. S = 0 .. n
    BY <1>1, <2>1, <2>2, <2>3, BoundedInduction
  <2> QED BY <2>4 DEF S
<1>8. \A i \in 0 .. n : Listening(i, f[i])
  <2>1. f[0] = none
    BY <1>5 DEF IsIteration
  <2>2. \A i \in 1 .. n : Listening(i - 1, f[i - 1]) => f[i] = Next1(i, f[i - 1])
    BY <1>3, <1>6
  <2> QED BY <1>7, <2>1, <2>2
<1>9. f = Body(f)
  <2>1. f[0] = none /\ f = [i \in 0 .. n |-> f[i]]
    BY <1>5 DEF IsIteration
  <2>2. \A i \in 1 .. n : f[i] = Next1(i, f[i - 1])
    BY <1>1, <1>3, <1>6, <1>8
  <2> QED BY <2>1, <2>2, SMTT(30) DEF none, Next1
<1> HIDE DEF Body
<1>10. after = Body(after)
  BY <1>9
<1>11. ListenOnAll(n, fds) = after[n]
  BY DEF ListenOnAll, Body
<1> HIDE DEF after
<1>12. after[0] = none /\ \A i \in 1 .. n : after[i] = Next1(i, after[i - 1])
  BY <1>1, <1>10 DEF Body, none, Next1
<1>13. Listening(n, after[n])
  BY <1>1, <1>7, <1>12
<1> QED BY <1>11, <1>13 DEF fds


\* Initially nothing is posted, no greeting is under way and no client waits.
LEMMA LoopInitOK ==
    ASSUME LoopInit
    PROVE  LoopIInv /\ \A c \in Connections : pool.data[c] # Request
<1> DEFINE listen == ListenOnAll(listening_n, [i \in 1 .. listening_n |-> i - 1])
<1>1. /\ pool = listen.pool /\ sel = listen.sel /\ posted = EmptyQueues
      /\ ev = [ ready   |-> [e \in Events |-> FALSE],
                handler |-> [e \in Events |->
                                 IF \E i \in Listeners : e = ReadEvent(i)
                                 THEN "spy_event_accept" ELSE "NULL"] ]
      /\ req = [c \in Connections |-> NewRequest]
      /\ net = [ open      |-> Listeners,
                 backlog   |-> [i \in Listeners |-> 0],
                 arrived   |-> 0,
                 room      |-> [f \in Fds |-> 0],
                 client    |-> [f \in Fds |-> "listening"],
                 premature |-> {} ]
      /\ pc = "process_events"
  BY DEF LoopInit
<1>2. Listening(listening_n, listen)
  BY ListenOnAllOK
<1> HIDE DEF listen
<1>3. /\ pool \in PoolType /\ sel \in SelectType /\ PoolOK(pool) /\ TablesOK(sel, pool)
      /\ \A d \in Connections :
            /\ pool.fd[d] = IF d < listening_n THEN d ELSE NoFd
            /\ pool.data[d] = IF d >= listening_n /\ d + 1 < connection_n THEN d + 1 ELSE Null
  BY <1>1, <1>2 DEF Listening
<1>4. \A c \in Connections : pool.data[c] # Request
  <2>1. \A d \in Connections : d + 1 < connection_n => d + 1 \in Connections
    BY ConnectionNAssumption DEF Connections
  <2> QED BY <1>3, <2>1, RequestAssumption
<1>5. ListenersOK(pool)
  <2>1. \A i \in Listeners : i \in Connections /\ i < listening_n
    BY ListenersFacts, LoopAssumption DEF Listeners
  <2> QED BY <1>3, <1>4, <2>1 DEF ListenersOK
<1>6. OpenFds(pool) = Listeners
  <2>1. \A d \in Connections : IsOpen(pool, d) <=> d \in Listeners
    BY <1>3, LoopAssumption, ConnectionNAssumption DEF IsOpen, NoFd, Listeners, Connections
  <2>2. \A d \in Listeners : d \in Connections /\ pool.fd[d] = d
    BY <1>5, ListenersFacts DEF ListenersOK
  <2> QED BY <2>1, <2>2 DEF OpenFds
<1>7. posted \in PostedType /\ QueuesOK(posted) /\ \A e \in Events : ~ IsPosted(posted, e)
  <2>1. PostedOK(posted) /\ EndsOK(posted)
    BY <1>1, EmptyQueuesOK
  <2>2. \A e \in Events : ~ IsPosted(posted, e)
    BY <1>1 DEF EmptyQueues, IsPosted
  <2> QED BY <2>1, <2>2 DEF QueuesOK, SortedOK, PostedOK
<1>8. ev \in EvType /\ HandlersOK(ev)
  <2>1. \A e \in Events : (\E i \in Listeners : e = ReadEvent(i)) <=> e \in Acceptors
    BY DEF Acceptors
  <2>2. ev.handler = [e \in Events |-> IF e \in Acceptors THEN "spy_event_accept" ELSE "NULL"]
    BY <1>1, <2>1
  <2>3. ev = [ready |-> [e \in Events |-> FALSE], handler |-> ev.handler]
    BY <1>1
  <2>4. ev \in EvType
    <3>1. [e \in Events |-> FALSE] \in [Events -> BOOLEAN] /\ ev.handler \in [Events -> Handlers]
      BY <2>2 DEF Handlers
    <3> DEFINE ready == [e \in Events |-> FALSE]
               handler == ev.handler
    <3>2. ev = [ready |-> ready, handler |-> handler]
      BY <2>3
    <3>3. ready \in [Events -> BOOLEAN] /\ handler \in [Events -> Handlers]
      BY <3>1
    <3> HIDE DEF ready, handler
    <3> QED BY <3>2, <3>3 DEF EvType
  <2> QED BY <2>2, <2>4 DEF HandlersOK
<1>9. NewRequest \in Requests
  BY LoopAssumption DEF NewRequest, Requests
<1>10. net \in NetType /\ BacklogOK(net) /\ net.open = Listeners
  BY <1>1, ListenersFacts, LoopAssumption DEF NetType, BacklogOK
<1>11. State \in StateType
  BY <1>1, <1>3, <1>7, <1>8, <1>9, <1>10 DEF State, StateType, Running
<1> DEFINE st == State
<1>12. /\ st.pool = pool /\ st.sel = sel /\ st.posted = posted /\ st.ev = ev
       /\ st.req = req /\ st.net = net /\ st.pc = "process_events"
  BY <1>1 DEF State
<1> HIDE DEF st
<1>13. BaseOK(st)
  BY <1>3, <1>5, <1>6, <1>7, <1>8, <1>10, <1>11, <1>12 DEF BaseOK, PartsOK, st
<1>14. LoopOK(st)
  BY <1>4, <1>7, <1>12, <1>13 DEF LoopOK, PostedAreOpen, Heard
<1> QED BY <1>4, <1>14 DEF LoopIInv, st

-----------------------------------------------------------------------------
(* The inductive invariant holds, whatever the clients, the kernel and the   *)
(* allocator do.                                                             *)
THEOREM LoopInvariant == LoopSpec => []LoopIInv
<1>1. LoopInit => LoopIInv
  BY LoopInitOK
<1>2. LoopIInv /\ [LoopNext]_vars => LoopIInv'
  BY LoopStepOK
<1> QED BY <1>1, <1>2, PTL DEF LoopSpec

\* The parts of the invariant in terms of the variables.
LEMMA LoopIInvParts ==
    ASSUME LoopIInv
    PROVE  /\ State \in StateType
           /\ PoolOK(pool) /\ TablesOK(sel, pool) /\ QueuesOK(posted)
           /\ net.open = OpenFds(pool)
           /\ pc \in {"process_events", "accept_events"} =>
                 \A e \in Events : IsPosted(posted, e) => IsOpen(pool, ConnectionOf(e))
           /\ pc \in Running => \A c \in Connections : Heard(State, c)
BY DEF LoopIInv, LoopOK, BaseOK, PartsOK, PostedAreOpen, State

(* Everything the loop keeps has its type: no descriptor, index or pointer   *)
(* out of range, and no counter below zero, in any order of events.          *)
THEOREM LoopTypes == LoopSpec => []LoopTypeOK
<1>1. LoopIInv => LoopTypeOK
  BY LoopIInvParts DEF LoopTypeOK, State, StateType, EvType, NetType
<1> QED BY <1>1, LoopInvariant, PTL

(* Accepting, failing and closing, in any order, keep the free list exactly  *)
(* the closed slots.                                                         *)
THEOREM LoopFreeList == LoopSpec => []LoopFreeListOK
<1>1. LoopIInv => LoopFreeListOK
  BY LoopIInvParts DEF LoopFreeListOK, PoolOK
<1> QED BY <1>1, LoopInvariant, PTL

(* Between any two handlers the select(2) tables are those of the open       *)
(* connections.                                                              *)
THEOREM LoopTables == LoopSpec => []LoopTablesOK
<1>1. LoopIInv => LoopTablesOK
  BY LoopIInvParts DEF LoopTablesOK, TablesOK
<1> QED BY <1>1, LoopInvariant, PTL

(* The posted queues stay well linked, although slots are cleared under them *)
(* and closed connections leave their events behind.                         *)
THEOREM LoopLinks == LoopSpec => []LoopLinksOK
<1>1. LoopIInv => LoopLinksOK
  BY LoopIInvParts DEF LoopLinksOK, QueuesOK, PostedOK
<1> QED BY <1>1, LoopInvariant, PTL

(* No descriptor leaks and none is held twice or after it was closed, on     *)
(* every path through the handlers.                                          *)
THEOREM NoDescriptorLeaks == LoopSpec => []DescriptorsOK
<1>1. LoopIInv => DescriptorsOK
  BY LoopIInvParts DEF DescriptorsOK, TablesOK
<1> QED BY <1>1, LoopInvariant, PTL

(* While connections are accepted no event of a free slot is posted, so that *)
(* clearing the links of a slot handed out breaks no queue.                  *)
THEOREM RecyclingIsSafe == LoopSpec => []NoPostedEventWhenRecycled
<1>1. LoopIInv => NoPostedEventWhenRecycled
  BY LoopIInvParts DEF NoPostedEventWhenRecycled
<1> QED BY <1>1, LoopInvariant, PTL

(* Every client is watched: for writing until its greeting is out, and for   *)
(* reading from then on.                                                     *)
THEOREM NoClientForgotten == LoopSpec => []NoSilentConnection
<1>1. LoopIInv => NoSilentConnection
  BY LoopIInvParts DEF NoSilentConnection, Heard, State, Alive
<1> QED BY <1>1, LoopInvariant, PTL


-----------------------------------------------------------------------------
\* The abstract pool of the whole loop, where slots are taken and given back
\* only by handlers.
LEMMA LoopPoolStep ==
    ASSUME LoopIInv, LoopIInv', NEW c \in Connections, StepOn(State, State', c)
    PROVE  [AbstractPool!Next]_<<pool.fd, pool.free_connections = Null>>
<1> DEFINE fd == pool.fd
           refused == pool.free_connections = Null
<1>1. PoolOK(pool) /\ PoolOK(pool')
  BY LoopIInvParts DEF LoopIInv, LoopOK, BaseOK, PartsOK, State
<1>2. (refused <=> AbstractPool!Full(fd)) /\ (refused' <=> AbstractPool!Full(fd'))
  BY <1>1, RefusesWhenFull
<1>3. fd \in [Connections -> Fds \cup {NoFd}] /\ fd' \in [Connections -> Fds \cup {NoFd}]
  BY <1>1 DEF PoolOK, PoolType
<1>4. \A d \in Connections : d # c => fd'[d] = fd[d]
  BY DEF StepOn, State
<1>5. fd'[c] = fd[c] \/ fd'[c] = NoFd \/ fd[c] = NoFd
  BY DEF StepOn, State
<1>6. fd' = [fd EXCEPT ![c] = fd'[c]]
  BY <1>3, <1>4
<1> HIDE DEF fd, refused
<1>7. CASE fd'[c] = fd[c]
  <2>1. fd' = fd
    BY <1>3, <1>6, <1>7
  <2>2. refused' = refused
    BY <1>2, <2>1 DEF refused
  <2> QED BY <2>1, <2>2 DEF fd, refused
<1>8. CASE fd'[c] = NoFd /\ fd[c] # NoFd
  <2>1. AbstractPool!TakeBack(c)
    BY <1>6, <1>8 DEF AbstractPool!TakeBack, fd
  <2> QED BY <1>2, <2>1 DEF AbstractPool!Next, fd, refused
<1>9. CASE fd'[c] # NoFd /\ fd[c] = NoFd
  <2>1. fd'[c] \in Fds
    BY <1>3, <1>9
  <2>2. AbstractPool!Give(c, fd'[c])
    BY <1>6, <1>9 DEF AbstractPool!Give, fd
  <2> QED BY <1>2, <2>1, <2>2 DEF AbstractPool!Next, fd, refused
<1> QED BY <1>5, <1>7, <1>8, <1>9

(* Through the handlers, too, the pool hands out only slots nobody holds and *)
(* refuses only when all are held.                                           *)
THEOREM LoopImplementsConnectionPool == LoopSpec => ImplementsConnectionPool
<1>1. LoopInit => AbstractPool!Init
  <2> SUFFICES ASSUME LoopInit PROVE AbstractPool!Init
    OBVIOUS
  <2>1. PoolOK(pool)
    BY LoopInitOK, LoopIInvParts
  <2>2. (pool.free_connections = Null) <=> AbstractPool!Full(pool.fd)
    BY <2>1, RefusesWhenFull
  <2>3. pool.fd \in [Connections -> Fds \cup {NoFd}]
    BY <2>1 DEF PoolOK, PoolType
  <2> QED BY <2>2, <2>3 DEF AbstractPool!Init
<1>2. LoopIInv /\ LoopIInv' /\ [LoopNext]_vars
        => [AbstractPool!Next]_<<pool.fd, pool.free_connections = Null>>
  <2>1. ASSUME LoopIInv, LoopIInv', LoopNext
        PROVE  [AbstractPool!Next]_<<pool.fd, pool.free_connections = Null>>
    BY <2>1, LoopStepGoes, LoopPoolStep DEF Goes
  <2>2. UNCHANGED vars => UNCHANGED <<pool.fd, pool.free_connections = Null>>
    BY DEF vars
  <2> QED BY <2>1, <2>2
<1> QED BY <1>1, <1>2, LoopInvariant, PTL
        DEF LoopSpec, ImplementsConnectionPool, AbstractPool!Spec

\* A session seen from its slot, in any state.
Session(st, c) ==
    IF IsOpen(st.pool, c) /\ st.pool.data[c] = Request
    THEN {[client |-> st.pool.fd[c], left |-> st.req[c].left]}
    ELSE {}

LEMMA LoopSessionStep ==
    ASSUME LoopIInv, LoopIInv', NEW c \in Connections, StepOn(State, State', c)
    PROVE  [AbstractSessions!Next]_AllSessions
<1> DEFINE session == AllSessions
           st == State
           t == State'
<1>1. st \in StateType /\ t \in StateType
  BY DEF LoopIInv, LoopOK, BaseOK, PartsOK
<1>2. /\ \A d \in Connections : session[d] = Session(st, d) /\ session'[d] = Session(t, d)
      /\ session = [d \in Connections |-> session[d]]
      /\ session' = [d \in Connections |-> session'[d]]
  BY DEF SessionOf, Session, State, AllSessions
<1>3. StepOn(st, t, c)
  OBVIOUS
<1> HIDE DEF st, t, session
<1>4. \A d \in Connections : d # c => session'[d] = session[d]
  BY <1>2, <1>3, ZenonT(40) DEF StepOn, Session, IsOpen
<1>5. session' = [session EXCEPT ![c] = session'[c]]
  BY <1>2, <1>4
<1>6. CASE session'[c] = session[c]
  <2>1. session' = session
    BY <1>2, <1>5, <1>6
  <2> QED BY <2>1 DEF session
<1>7. CASE session[c] # {} /\ session'[c] = {}
  <2>1. AbstractSessions!End(c)
    BY <1>5, <1>7 DEF AbstractSessions!End, session
  <2> QED BY <2>1 DEF AbstractSessions!Next
<1>8. CASE session'[c] # {} /\ session'[c] # session[c]
  <2> DEFINE s == [client |-> t.pool.fd[c], left |-> t.req[c].left]
  <2>1. session'[c] = {s} /\ IsOpen(t.pool, c) /\ t.pool.data[c] = Request
    BY <1>2, <1>8 DEF Session
  <2>2. s \in AbstractSessions!Sessions
    <3>1. t.pool.fd[c] \in Fds /\ t.req[c].left \in 0 .. PacketParts
      BY <1>1, <2>1 DEF StateType, PoolType, IsOpen, Requests
    <3> QED BY <3>1 DEF AbstractSessions!Sessions
  <2>3. CASE st.pool.fd[c] = t.pool.fd[c]
    <3> DEFINE old == [client |-> st.pool.fd[c], left |-> st.req[c].left]
    <3>1. st.pool.data[c] = t.pool.data[c] /\ t.req[c].left <= st.req[c].left
      BY <1>3, <2>1, <2>3 DEF StepOn, IsOpen, OpenFds
    <3>2. session[c] = {old} /\ t.req[c].left # st.req[c].left
      BY <1>2, <1>8, <2>1, <2>3, <3>1 DEF Session, IsOpen
    <3>3. t.req[c].left \in Nat /\ st.req[c].left \in Nat
      BY <1>1, LoopAssumption DEF StateType, Requests
    <3>4. s.client = old.client /\ s.left < old.left
      BY <2>3, <3>1, <3>2, <3>3
    <3> HIDE DEF s, old
    <3>5. AbstractSessions!Send(c)
      BY <1>5, <2>1, <2>2, <3>2, <3>4 DEF AbstractSessions!Send, session
    <3> QED BY <3>5 DEF AbstractSessions!Next
  <2>4. CASE st.pool.fd[c] # t.pool.fd[c]
    <3>1. st.pool.fd[c] = NoFd /\ t.pool.fd[c] \notin OpenFds(st.pool)
      BY <1>3, <2>1, <2>4 DEF StepOn, IsOpen
    <3>2. session[c] = {}
      BY <1>2, <3>1 DEF Session, IsOpen
    <3>3. \A d \in Connections : \A x \in session[d] : x.client \in OpenFds(st.pool)
      BY <1>2 DEF Session, OpenFds
    <3>4. s.client \notin {x.client : x \in UNION {session[d] : d \in Connections}}
      BY <3>1, <3>3
    <3> HIDE DEF s
    <3>5. AbstractSessions!Begin(c)
      BY <1>5, <2>1, <2>2, <3>2, <3>4 DEF AbstractSessions!Begin, AbstractSessions!Served, session
    <3> QED BY <3>5 DEF AbstractSessions!Next
  <2> QED BY <2>3, <2>4
<1> QED BY <1>6, <1>7, <1>8

(* Every client is served in a session of its own: the greeting goes out     *)
(* once, from the first part to the last, and no step of the loop touches    *)
(* any client but the one it is for.                                         *)
THEOREM LoopImplementsSessions == LoopSpec => ImplementsSessions
<1>1. LoopInit => AbstractSessions!Init
  BY LoopInitOK DEF AbstractSessions!Init, SessionOf, AllSessions
<1>2. LoopIInv /\ LoopIInv' /\ [LoopNext]_vars
        => [AbstractSessions!Next]_AllSessions
  <2>1. ASSUME LoopIInv, LoopIInv', LoopNext
        PROVE  [AbstractSessions!Next]_AllSessions
    BY <2>1, LoopStepGoes, LoopSessionStep DEF Goes
  <2>2. UNCHANGED vars => UNCHANGED AllSessions
    BY DEF vars, SessionOf, AllSessions
  <2> QED BY <2>1, <2>2
<1> QED BY <1>1, <1>2, LoopInvariant, PTL
        DEF LoopSpec, ImplementsSessions, AbstractSessions!Spec
=============================================================================
