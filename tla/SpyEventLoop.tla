---------------------------- MODULE SpyEventLoop ----------------------------
(* The single process of Spy: the event loop over the connection pool, the   *)
(* select(2) backend and the posted queues, with the two handlers it runs,   *)
(* spy_event_accept and spy_proxy_send_acl, against a kernel and clients     *)
(* that move between any two of its steps.                                   *)
(*                                                                           *)
(* A handler runs to completion, so it is one step. It is written as the set *)
(* of states it may leave behind: a state is the record of all variables,    *)
(* and the outcomes differ in what the kernel and the allocator answered.    *)
(* Undefined behaviour that ends in a fault is a state of its own: the loop  *)
(* stops with pc saying what happened.                                       *)
EXTENDS SpySelect, SpyPosted

CONSTANTS
    listening_n,     \* listening sockets
    PacketParts,     \* the buffer with the greeting, as the kernel may split it
    MaxClients       \* bound: clients that ever connect

\* The listening sockets got the first descriptors.
ASSUME LoopAssumption ==
    /\ listening_n \in 1 .. connection_n
    /\ 0 .. listening_n - 1 \subseteq Fds
    /\ PacketParts \in Nat \ {0}
    /\ MaxClients \in Nat

VARIABLES
    ev,      \* the fields of the events the backend and the queues leave alone
    req,     \* the request of each connection in use
    net,     \* external: the kernel's sockets and the clients behind them
    pc       \* where the loop is, or how it died

vars == <<pool, sel, posted, ev, req, net, pc>>

\* The listening sockets get the first descriptors, spy_event_init the first slots.
Listeners == 0 .. listening_n - 1

Handlers == {"NULL", "spy_event_accept", "spy_proxy_send_acl"}

\* "bad_pointer", "no_handler" and "sigpipe" are the ways the process dies.
Running == {"process_events", "accept_events", "posted_events"}
Alive   == pc \in Running

Requests == [ init_packet : BOOLEAN,            \* built yet?
              left        : 0 .. PacketParts,   \* parts not yet taken by the kernel
              handshake   : BOOLEAN ]

NewRequest == [init_packet |-> FALSE, left |-> PacketParts, handshake |-> FALSE]

LoopTypeOK ==
    /\ pool \in PoolType
    /\ sel \in SelectType
    /\ posted \in PostedType
    /\ ev \in [ready : [Events -> BOOLEAN], handler : [Events -> Handlers]]
    /\ req \in [Connections -> Requests]
    /\ net \in [ open      : SUBSET Fds,
                 backlog   : [Listeners -> 0 .. MaxClients],
                 arrived   : 0 .. MaxClients,
                 room      : [Fds -> 0 .. PacketParts],
                 client    : [Fds -> {"listening", "sent", "gone"}],
                 premature : SUBSET Fds ]
    /\ pc \in Running \cup {"bad_pointer", "no_handler", "sigpipe"}

State == [ pool |-> pool, sel |-> sel, posted |-> posted, ev |-> ev,
           req |-> req, net |-> net, pc |-> pc ]

Become(states) ==
    \E s \in states :
        /\ pool' = s.pool
        /\ sel' = s.sel
        /\ posted' = s.posted
        /\ ev' = s.ev
        /\ req' = s.req
        /\ net' = s.net
        /\ pc' = s.pc

Dies(st, how) == {[st EXCEPT !.pc = how]}

-----------------------------------------------------------------------------
\* Initially spy_event_init has given every listening socket its slot (their
\* array holds the sockets; the code reads it as one of pointers to them).

LoopInit ==
    LET listen == ListenOnAll(listening_n, [i \in 1 .. listening_n |-> i - 1])
    IN  /\ pool = listen.pool
        /\ sel = listen.sel
        /\ posted = EmptyQueues
        /\ ev = [ ready   |-> [e \in Events |-> FALSE],
                  handler |-> [e \in Events |->
                                 IF \E i \in Listeners : e = ReadEvent(i)
                                 THEN "spy_event_accept" ELSE "NULL"] ]
        /\ req = [c \in Connections |-> NewRequest]
        /\ net = [ open      |-> Listeners,
                   backlog   |-> [i \in Listeners |-> 0],
                   arrived   |-> 0,
                   room      |-> [f \in Fds |-> 0],
                   client    |-> [f \in Fds |-> "listening"],
                   premature |-> {} ]
        /\ pc = "process_events"

-----------------------------------------------------------------------------
\* The kernel, as the code sees it.

CloseSocket(n, f) == [n EXCEPT !.open = @ \ {f}]

\* accept() gives the lowest free number; how much the new socket takes at
\* once is the kernel's business.
OpenSocket(n, f, room) ==
    [n EXCEPT !.open = @ \cup {f}, !.room[f] = room, !.client[f] = "listening",
              !.premature = @ \ {f}]

Readable(f) == IF f \in Listeners THEN net.backlog[f] > 0
                                  ELSE net.client[f] \in {"sent", "gone"}
Writable(f) == f \notin Listeners /\ (net.room[f] > 0 \/ net.client[f] = "gone")

-----------------------------------------------------------------------------
\* Closing.

\* Mutant: closed while still watched.
CloseWatched(st, c) ==
    IF IsOpen(st.pool, c)
    THEN [st EXCEPT !.pool = CloseConnection(st.pool, c),
                    !.net  = CloseSocket(st.net, st.pool.fd[c])]
    ELSE st

CloseConn(st, c) ==
    IF IsOpen(st.pool, c)
    THEN [st EXCEPT !.sel  = StopWatching(st.sel, c, st.pool),
                    !.pool = CloseConnection(st.pool, c),
                    !.net  = CloseSocket(st.net, st.pool.fd[c])]
    ELSE st

\* r->connection is read though nothing ever sets it: whatever malloc left
\* there is no connection, or happens to be the right one.
CloseRequest(st, c) == Dies(st, "bad_pointer") \cup {CloseConn(st, c)}

-----------------------------------------------------------------------------
\* spy_handle_write_event.
HandleWriteEvent(st, e) ==
    LET f == st.pool.fd[ConnectionOf(e)] IN
    IF ~ st.sel.active[e] /\ ~ st.ev.ready[e]
    THEN [st EXCEPT !.sel = AddEvent(st.sel, e, f)]
    ELSE IF st.sel.active[e] /\ st.ev.ready[e]
         THEN [st EXCEPT !.sel = DelEvent(st.sel, e, f)]
         ELSE st

\* Mutant: a short send leaves the event ready.
StillReady(st, e) == st

NotReady(st, e) == [st EXCEPT !.ev.ready[e] = FALSE]

\* The last part is out: the connection is read from now on, by no handler yet.
FinishHandshake(st, c) ==
    [st EXCEPT !.req[c].handshake             = TRUE,
               !.ev.handler[ReadEvent(c)]     = "NULL",
               !.sel = AddEvent(st.sel, ReadEvent(c), st.pool.fd[c])]

\* Mutant: the packet moves on by what was asked, not by what was sent.
TakeRoom(st, c) ==
    LET f == st.pool.fd[c]
    IN  [st EXCEPT !.req[c].left = @ - st.net.room[f], !.net.room[f] = 0]

\* The kernel takes as much of the rest as it has room for.
Take(st, c) ==
    LET f == st.pool.fd[c]
        n == Min({st.net.room[f], st.req[c].left})
    IN  [st EXCEPT !.req[c].left = @ - n, !.net.room[f] = @ - n]

\* send() to a client that left: an error, or the signal nobody handles.
SendFails(st, c) ==
    IF st.net.client[st.pool.fd[c]] = "gone"
    THEN CloseRequest(st, c) \cup Dies(st, "sigpipe")
    ELSE {}

(* send() of what is left of the buffer. A part that was not taken clears    *)
(* ev->ready, and the next turn of the loop waits for the socket. The kernel *)
(* may take parts for a client that left before it knows, but never asks to  *)
(* wait for it. It takes less than it is given only on a descriptor that     *)
(* does not block: accept() may hand down the listening socket's mark (BSD)  *)
(* or not (Linux, where send() waits instead); nothing else sets it.         *)
SendPart(st, c) ==
    LET e == WriteEvent(c)
        f == st.pool.fd[c]
        s == Take(st, c)
    IN  CASE st.req[c].left = 0 ->
               CloseRequest([NotReady(st, e) EXCEPT !.net.premature = @ \cup {f}], c)
          [] st.req[c].left > 0 /\ s.req[c].left = 0 ->
               {FinishHandshake(s, c)}
          [] s.req[c].left # 0 /\ (st.net.room[f] > 0 \/ st.net.client[f] # "gone") ->
               {HandleWriteEvent(NotReady(s, e), e)}
          [] OTHER -> {}

\* The loop of spy_proxy_send_acl, around spy_unix_send.
SendRest(st, c) ==
    IF st.ev.ready[WriteEvent(c)]
    THEN SendFails(st, c) \cup SendPart(st, c)
    ELSE {HandleWriteEvent(st, WriteEvent(c))}

\* Mutant: the packet is built at every call.
SendAclAnew(st, c) ==
    IF ~ IsOpen(st.pool, c)
    THEN Dies(st, "bad_pointer")
    ELSE SendRest([st EXCEPT !.req[c].init_packet = TRUE, !.req[c].left = PacketParts], c)

(* spy_proxy_send_acl. A request fresh from malloc may hold any init_packet; *)
(* when it is NULL the packet is built, if memory allows.                    *)
SendAcl(st, c) ==
    IF ~ IsOpen(st.pool, c)
    THEN Dies(st, "bad_pointer")
    ELSE IF st.req[c].init_packet
         THEN SendRest(st, c)
         ELSE SendRest([st EXCEPT !.req[c].init_packet = TRUE], c)
              \cup CloseRequest(st, c) \cup Dies(st, "bad_pointer")

-----------------------------------------------------------------------------
\* spy_proxy_init_packet: without memory for the request the connection is
\* closed, and spy_proxy_send_acl runs on it all the same.
InitPacket(st, c) ==
    LET s == [st EXCEPT !.ev.handler[WriteEvent(c)] = "spy_proxy_send_acl"] IN
    SendAcl(CloseConn(s, c), c)
    \cup SendAcl([s EXCEPT !.pool = AttachRequest(s.pool, c), !.req[c] = NewRequest], c)

\* The events of a slot just taken are cleared, wherever they are linked.
TakeSlot(st, f) ==
    LET c == st.pool.free_connections IN
    [st EXCEPT !.pool   = GetConnection(st.pool, f),
               !.sel    = ClearEvents(st.sel, c),
               !.posted = ClearLinks(st.posted, c),
               !.ev.ready[ReadEvent(c)]    = FALSE,
               !.ev.ready[WriteEvent(c)]   = FALSE,
               !.ev.handler[ReadEvent(c)]  = "NULL",
               !.ev.handler[WriteEvent(c)] = "NULL"]

\* Mutant: no slot, and the socket is left open.
AcceptedLeaks(st, f) ==
    IF CanGet(st.pool)
    THEN InitPacket([TakeSlot(st, f) EXCEPT !.ev.ready[WriteEvent(st.pool.free_connections)] = TRUE],
                    st.pool.free_connections)
    ELSE {st}

\* accept() returned descriptor f.
Accepted(st, f) ==
    LET c == st.pool.free_connections
        s == TakeSlot(st, f)
    IN  IF ~ CanGet(st.pool)
        THEN {[st EXCEPT !.net = CloseSocket(st.net, f)]}
        ELSE {[s EXCEPT !.pool = CloseAccepted(s.pool, c), !.net = CloseSocket(s.net, f)]}
             \cup InitPacket([s EXCEPT !.ev.ready[WriteEvent(c)] = TRUE], c)

Dequeue(st, l) == [st EXCEPT !.net.backlog[l] = @ - 1]

\* spy_event_accept on listening socket l: nothing there or no descriptor to
\* be had, a client that gave up, or a connection.
EventAccept(st, l) ==
    LET f == Min(Fds \ st.net.open)
        s == Dequeue(st, l)
    IN  {st} \cup
        IF st.net.backlog[l] = 0 \/ Fds \subseteq st.net.open
        THEN {}
        ELSE {s} \cup UNION {Accepted([s EXCEPT !.net = OpenSocket(s.net, f, room)], f) :
                                room \in 0 .. PacketParts}

-----------------------------------------------------------------------------
\* spy_process_events_and_timers.

QueueOf(e) == IF ev.handler[e] = "spy_event_accept" THEN spy_posted_accept_events
                                                    ELSE spy_posted_events

\* The loop over the index, which posts what it finds in the order of the index.
PostFound(s, found) ==
    LET after[i \in 0 .. s.nevents] ==
            IF i = 0 THEN posted
            ELSE LET e == s.event_index[i - 1] IN
                 IF e \in found THEN PostEvent(after[i - 1], e, QueueOf(e))
                                ELSE after[i - 1]
    IN  after[s.nevents]

ReadyFds(s) == [k \in Kinds |-> {f \in Offered(s, k) :
                                    IF k = "read" THEN Readable(f) ELSE Writable(f)}]

\* select(2) blocks until a watched descriptor is ready.
SelectReturns ==
    LET s == RecomputeMaxFd(sel, pool) IN
    /\ ~ BadDescriptor(s, net.open)
    /\ \E k \in Kinds : ReadyFds(s)[k] # {}

ProcessReady ==
    LET s     == RecomputeMaxFd(sel, pool)
        fds   == ReadyFds(s)
        found == Found(s, pool, fds)
    IN  /\ pc = "process_events"
        /\ SelectReturns
        /\ sel' = AfterSelect(s, pool, fds, net.open)
        /\ posted' = PostFound(s, found)
        /\ ev' = [ev EXCEPT !.ready = [e \in Events |-> ev.ready[e] \/ e \in found]]
        /\ pc' = "accept_events"
        /\ UNCHANGED <<pool, req, net>>

\* A signal, or a bad descriptor: nothing is posted.
ProcessFailed ==
    LET s == RecomputeMaxFd(sel, pool) IN
    /\ pc = "process_events"
    /\ sel' = IF BadDescriptor(s, net.open) THEN RepairFdSets(s, net.open) ELSE s
    /\ UNCHANGED <<pool, posted, ev, req, net, pc>>

\* Off the queue first, then the handler.
Handle(e) ==
    LET st == [State EXCEPT !.posted = DeletePosted(posted, e)] IN
    Become(CASE ev.handler[e] = "NULL"               -> Dies(st, "no_handler")
             [] ev.handler[e] = "spy_event_accept"   -> EventAccept(st, pool.fd[ConnectionOf(e)])
             [] ev.handler[e] = "spy_proxy_send_acl" -> SendAcl(st, ConnectionOf(e)))

ProcessPostedAccept ==
    /\ pc = "accept_events"
    /\ posted.head[spy_posted_accept_events] # Null
    /\ Handle(posted.head[spy_posted_accept_events])

PostedAcceptDone ==
    /\ pc = "accept_events"
    /\ posted.head[spy_posted_accept_events] = Null
    /\ pc' = "posted_events"
    /\ UNCHANGED <<pool, sel, posted, ev, req, net>>

ProcessPosted ==
    /\ pc = "posted_events"
    /\ posted.head[spy_posted_events] # Null
    /\ Handle(posted.head[spy_posted_events])

\* Mutant: one posted event per turn of the loop.
PostedOnce ==
    /\ pc = "posted_events"
    /\ pc' = "process_events"
    /\ UNCHANGED <<pool, sel, posted, ev, req, net>>

PostedDone ==
    /\ pc = "posted_events"
    /\ posted.head[spy_posted_events] = Null
    /\ pc' = "process_events"
    /\ UNCHANGED <<pool, sel, posted, ev, req, net>>

-----------------------------------------------------------------------------
\* The clients: they connect, read, send their answer and leave.

Clients == net.open \ Listeners

ClientStep(n) ==
    /\ Alive
    /\ net' = n
    /\ UNCHANGED <<pool, sel, posted, ev, req, pc>>

Connect(l) ==
    /\ net.arrived < MaxClients
    /\ ClientStep([net EXCEPT !.arrived = @ + 1, !.backlog[l] = @ + 1])

ClientReads(f) ==
    /\ f \in Clients
    /\ net.room[f] < PacketParts
    /\ ClientStep([net EXCEPT !.room[f] = @ + 1])

\* The client's answer, once the whole buffer with the greeting is out.
ClientSends(f) ==
    /\ f \in Clients
    /\ net.client[f] = "listening"
    /\ \E c \in Connections : pool.fd[c] = f /\ req[c].left = 0
    /\ ClientStep([net EXCEPT !.client[f] = "sent"])

ClientLeaves(f) ==
    /\ f \in Clients
    /\ net.client[f] # "gone"
    /\ ClientStep([net EXCEPT !.client[f] = "gone"])

LoopStep == ProcessReady \/ ProcessPostedAccept \/ PostedAcceptDone
            \/ ProcessPosted \/ PostedDone

LoopNext ==
    \/ ProcessReady
    \/ ProcessFailed
    \/ ProcessPostedAccept
    \/ PostedAcceptDone
    \/ ProcessPosted
    \/ PostedDone
    \/ \E l \in Listeners : Connect(l)
    \/ \E f \in Fds : ClientReads(f) \/ ClientSends(f) \/ ClientLeaves(f)

LoopSpec == LoopInit /\ [][LoopNext]_vars

(* Fairness. The loop never stops of its own accord, so that a turn it can   *)
(* take for ever is taken (weak fairness). accept() does not fail for ever,  *)
(* which takes strong fairness, for the listening socket is at the head of   *)
(* its queue at every other turn only. A client that stays connected reads   *)
(* (weak fairness). The first two are written out, [] <> ~ enabled \/        *)
(* [] <> taken and <> [] ~ enabled \/ [] <> taken, with the guards for        *)
(* ENABLED, because TLC evaluates ENABLED of a whole handler too slowly.     *)
CanTurn == IF pc = "process_events" THEN SelectReturns ELSE Alive

Turn == <<pc, posted>>' # <<pc, posted>>

CanServe ==
    /\ pc = "accept_events"
    /\ \E l \in Listeners :
          /\ posted.head[spy_posted_accept_events] = ReadEvent(l)
          /\ net.backlog[l] > 0

Serve == \E l \in Listeners : net'.backlog[l] < net.backlog[l]

LoopFairSpec ==
    /\ LoopSpec
    /\ []<>(~ CanTurn) \/ []<><<Turn>>_vars
    /\ <>[](~ CanServe) \/ []<><<Serve>>_vars
    /\ \A f \in Fds : WF_vars(ClientReads(f))

-----------------------------------------------------------------------------
\* Safety.

(* Through accepting, failing and closing in any order, the free list stays  *)
(* exactly the closed slots and its counter their number.                    *)
LoopFreeListOK == FreeListOK(pool)

(* What select(2) is asked, what the index holds and what the events say of  *)
(* themselves agree between any two handlers, and no closed connection is    *)
(* watched: neither EBADF nor the repair of the sets ever happens.           *)
LoopTablesOK ==
    /\ TableOK(sel)
    /\ WatchedAreOpen(sel, pool)
    /\ MasterSetsOK(sel, pool)
    /\ MaxFdOK(sel, pool)

\* The posted queues stay well linked although slots are cleared under them.
LoopLinksOK == LinksOK(posted)

(* The descriptors the process has open are those of its connections, each   *)
(* of one: whichever call failed on the way, nothing leaks and no connection *)
(* holds a number that may be somebody else's by now.                        *)
DescriptorsOK == net.open = OpenFds(pool) /\ FdsDistinct(pool)

(* spy_close_connection leaves the events of the connection in the posted    *)
(* queues, the calls that would take them out being commented out, and       *)
(* spy_get_connection clears the links of the slot it hands out. That can    *)
(* only break a queue if a free slot still has a posted event while          *)
(* connections are accepted, which the order of the two queues rules out.    *)
NoPostedEventWhenRecycled ==
    pc \in {"process_events", "accept_events"} =>
        \A e \in Events : IsPosted(posted, e) => IsOpen(pool, ConnectionOf(e))

(* No client is forgotten: one whose greeting is not out yet is watched for  *)
(* writing, and one who has it all is watched for reading.                   *)
NoSilentConnection ==
    Alive => \A c \in Connections :
                IsOpen(pool, c) /\ pool.data[c] = Request =>
                    IF req[c].left > 0 THEN sel.active[WriteEvent(c)]
                                       ELSE req[c].handshake /\ sel.active[ReadEvent(c)]

\* A session is an open connection that has a request.
SessionOf(c) ==
    IF IsOpen(pool, c) /\ pool.data[c] = Request
    THEN {[client |-> pool.fd[c], left |-> req[c].left]}
    ELSE {}

AllSessions == [c \in Connections |-> SessionOf(c)]

AbstractSessions == INSTANCE Sessions WITH Places   <- Connections,
                                           Clients  <- Fds,
                                           Greeting <- PacketParts,
                                           session  <- AllSessions

(* However often the write event fires, the greeting goes out once; and the  *)
(* handlers, which follow pointers from an event to its connection, to its   *)
(* request and back, touch the client they were called for and no other.     *)
ImplementsSessions == AbstractSessions!Spec

-----------------------------------------------------------------------------
\* Liveness.

\* A client waiting in a backlog is taken off it, whatever the others do.
ClientsServed ==
    \A l \in Listeners : net.backlog[l] > 0 ~> (net.backlog[l] = 0 \/ ~ Alive)

(* A greeting cut short goes on when the client reads, until it is out or    *)
(* the connection is closed.                                                 *)
GreetingsFinish ==
    \A c \in Connections :
        (pool.data[c] = Request /\ req[c].left > 0)
            ~> (req[c].left = 0 \/ ~ IsOpen(pool, c) \/ ~ Alive)

-----------------------------------------------------------------------------
\* What the code says of itself.

(* "handle client authention packet" (spy_mysql_packet.c:114): there is a    *)
(* handler for what the client sends after the greeting.                     *)
AuthenticationHandled == pc # "no_handler"

(* "client closed prematurely connection" (spy_mysql_packet.c:103) is said   *)
(* only of clients that left.                                                *)
PrematureMeansGone == \A f \in net.premature : net.client[f] = "gone"
=============================================================================
