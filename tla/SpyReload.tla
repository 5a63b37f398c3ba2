------------------------------ MODULE SpyReload ------------------------------
(* The running process across its reloads: the sockets and globals of        *)
(* SpyGlobal together with the connection pool and the select(2) backend.    *)
(* The event core is set up once, after the start. A reload replaces         *)
(* spy_global, in which the head of the free list and its counter live, and  *)
(* closes the old listening sockets; nothing tells the backend, which finds  *)
(* out by EBADF in the next turn. The slots of the old listening sockets,    *)
(* their events and c->fd stay as they are, while the kernel may give the    *)
(* numbers out again.                                                        *)
(*                                                                           *)
(* What the handlers of clients do is abstracted to closing, watching and    *)
(* ignoring; SpyEventLoop has the handlers themselves.                       *)
EXTENDS SpySelect, SpyGlobal

VARIABLES
    listening,   \* c->listening by its address, Null unless c is a listening socket's
    turn,        \* where the loop is
    events       \* posted by this turn's select(2) and not handled yet

ASSUME ReloadAssumption == Null \notin Addrs

reloadVars == <<vars, pool, sel, listening, turn, events>>

ReloadTypeOK ==
    /\ GlobalTypeOK
    /\ pool \in PoolType
    /\ sel \in SelectType
    /\ listening \in [Connections -> Addrs \cup {Null}]
    /\ turn \in {"init", "select", "handle"}
    /\ events \subseteq Events

OpenSockets == {f \in Fds : sock[f] # "free"}
Accepting(c) == listening[c] # Null
IsClient(c)  == IsOpen(pool, c) /\ ~ Accepting(c)

ReloadInit ==
    /\ Init
    /\ pool = InitialPool
    /\ sel = InitialSelect
    /\ listening = [c \in Connections |-> Null]
    /\ turn = "init"
    /\ events = {}

StartProcess == Start /\ UNCHANGED <<pool, sel, listening, turn, events>>

-----------------------------------------------------------------------------
(* spy_event_init, once. It reads the listening sockets as an array of       *)
(* pointers to them; what it means is the array of sockets that they are     *)
(* kept in. A socket that found its address in use has descriptor -1: its    *)
(* slot looks closed without being free, and FD_SET(-1) faults or sets a bit *)
(* that belongs to no descriptor of ours.                                    *)
EventInitOK ==
    LET fds == [i \in DOMAIN spy_global |-> spy_global[i].fd]
        n   == Len(spy_global)
        all == ListenOnAll(n, fds)
    IN  /\ n =< connection_n
        /\ pool' = all.pool
        /\ sel' = [all.sel EXCEPT !.master["read"] = @ \ {NoFd}]
        /\ listening' = [c \in Connections |-> IF c < n THEN spy_global[c + 1].addr ELSE Null]
        /\ turn' = "select"
        /\ UNCHANGED <<vars, events>>

\* Too few slots or no memory end the process. No memory for the backend is
\* not looked for: its first event faults, as FD_SET(-1) may.
EventInitFails ==
    /\ pc' \in {"exit"} \cup (IF spy_global = <<>> THEN {} ELSE {"bad_pointer"})
    /\ UNCHANGED <<spy_global, sock, taken, pool, sel, listening, turn, events>>

EventInit ==
    /\ pc = "run" /\ turn = "init"
    /\ EventInitOK \/ EventInitFails

-----------------------------------------------------------------------------
\* One turn of the loop. The set of descriptors select(2) reports may be empty:
\* a signal arrived. With a descriptor closed under it nothing is reported.
SelectEvents ==
    LET s == RecomputeMaxFd(sel, pool) IN
    /\ pc = "run" /\ turn = "select"
    /\ \E rd \in SUBSET Offered(s, "read"), wr \in SUBSET Offered(s, "write") :
          LET ready == [k \in Kinds |-> IF k = "read" THEN rd ELSE wr] IN
          /\ sel' = AfterSelect(s, pool, ready, OpenSockets)
          /\ events' = IF BadDescriptor(s, OpenSockets) THEN {} ELSE Found(s, pool, ready)
    /\ turn' = "handle"
    /\ UNCHANGED <<vars, pool, listening>>

Handling(e) ==
    /\ pc = "run" /\ turn = "handle"
    /\ e \in events
    /\ events' = events \ {e}
    /\ UNCHANGED <<spy_global, taken, listening, turn>>

\* accept() gave descriptor f and a slot was free: closed again when memory is
\* short, else watched for writing or, once the greeting is out, for reading.
AcceptOn(f) ==
    LET c == pool.free_connections
        p == GetConnection(pool, f)
        s == ClearEvents(sel, c)
    IN  \/ /\ pool' = CloseAccepted(p, c)
           /\ sel' = s
           /\ UNCHANGED sock
        \/ /\ pool' = AttachRequest(p, c)
           /\ \E e \in EventsOf(c) : sel' = AddEvent(s, e, f)
           /\ sock' = [sock EXCEPT ![f] = "deaf"]

\* spy_event_accept: nobody there, no descriptor, no slot, or a new connection.
HandleAccept(e) ==
    /\ Accepting(ConnectionOf(e))
    /\ Handling(e)
    /\ \/ UNCHANGED <<pool, sel, sock>>
       \/ /\ CanGet(pool)
          /\ \E f \in Fds : sock[f] = "free"
          /\ AcceptOn(Min({f \in Fds : sock[f] = "free"}))
    /\ UNCHANGED pc

(* spy_proxy_send_acl on a client, after all accepting events: closed,       *)
(* finished (and read from then on), or waiting for more room. A client's    *)
(* read event has no handler (NULL).                                         *)
HandleClient(e) ==
    LET c == ConnectionOf(e)
        f == pool.fd[c]
    IN  /\ ~ Accepting(c)
        /\ \A a \in events : ~ Accepting(ConnectionOf(a))
        /\ Handling(e)
        /\ \/ /\ KindOf(e) = "read"
              /\ pc' = "bad_pointer"
              /\ UNCHANGED <<pool, sel, sock>>
           \/ /\ KindOf(e) = "write"
              /\ pool' = CloseConnection(pool, c)
              /\ sel' = StopWatching(sel, c, pool)
              /\ sock' = CloseSockets(sock, {f})
              /\ UNCHANGED pc
           \/ /\ KindOf(e) = "write"
              /\ sel' \in {sel, AddEvent(sel, ReadEvent(c), f)}
              /\ UNCHANGED <<pool, sock, pc>>

EndOfTurn ==
    /\ pc = "run" /\ turn = "handle"
    /\ events = {}

\* No signal came.
NextTurn ==
    /\ EndOfTurn
    /\ turn' = "select"
    /\ UNCHANGED <<vars, pool, sel, listening, events>>

\* Mutant: the new global keeps the counter of the old one, not its list.
CountKept(p) == [p EXCEPT !.free_connections = Null]

\* The free list of a global fresh from spy_pcalloc. The slots themselves, and
\* the list of the old global, stay where they are.
ClearedList(p) == [p EXCEPT !.free_connections = Null, !.free_connection_n = 0]

\* The signal flag is looked at between two turns, one reload for any number
\* of signals.
Reload ==
    /\ EndOfTurn
    /\ \E c \in Configurations :
          \/ GlobalInitOK(c) /\ pool' = ClearedList(pool)
          \/ GlobalInitFails(c) /\ UNCHANGED <<spy_global, pc, pool>>
          \/ GlobalInitFaults /\ UNCHANGED pool
    /\ turn' = "select"
    /\ UNCHANGED <<taken, sel, listening, events>>

\* The pool and the tables end with the process.
QuitProcess == EndOfTurn /\ Quit /\ UNCHANGED <<pool, sel, listening, turn, events>>

OtherProcessStep == OtherProcess /\ UNCHANGED <<pool, sel, listening, turn, events>>

ReloadNext ==
    \/ StartProcess
    \/ EventInit
    \/ SelectEvents
    \/ \E e \in Events : HandleAccept(e) \/ HandleClient(e)
    \/ NextTurn
    \/ Reload
    \/ QuitProcess
    \/ OtherProcessStep

ReloadSpec == ReloadInit /\ [][ReloadNext]_reloadVars

-----------------------------------------------------------------------------
(* A reload is all or nothing: one that fails leaves every socket of the     *)
(* running global as it was; one that succeeds closes those of the old       *)
(* global; and in neither case does the socket of a client, or one a failed  *)
(* reload left behind, go away or become something else.                     *)
ReloadAllOrNothing ==
    [][ turn = "handle" /\ turn' = "select" /\ pc' = "run" =>
            LET before == FdsOf(ToSet(spy_global))
                after  == FdsOf(ToSet(spy_global'))
            IN  /\ before = after => \A f \in before : sock'[f] = sock[f]
                /\ before # after => \A f \in before \ after : sock'[f] = "free"
                /\ \A f \in Fds \ before : sock[f] # "free" => sock'[f] = sock[f] ]_reloadVars

(* spy_close_connection frees a slot into whatever global runs by then, and  *)
(* spy_get_connection takes from it: however many reloads came between, the  *)
(* running global's list visits only slots that are closed and serve no      *)
(* listening socket, each once, and its counter is its length.               *)
RunningFreeListOK ==
    pc = "run" /\ turn # "init" =>
        LET n == pool.free_connection_n IN
        \E s \in [1 .. n -> {c \in Connections : ~ IsOpen(pool, c) /\ ~ Accepting(c)}] :
            /\ \A i, j \in 1 .. n : s[i] = s[j] => i = j
            /\ pool.free_connections = IF n = 0 THEN Null ELSE s[1]
            /\ \A i \in 1 .. n : pool.data[s[i]] = IF i = n THEN Null ELSE s[i + 1]

(* Nobody tells the backend that a reload closed the sockets it watches, and *)
(* their numbers may be given out again by the next one. Still every bit in  *)
(* a master set stands for the socket it was set for or, until the next      *)
(* select(2) drops it, for a closed one; and the clients stay watched.       *)
ReloadWatchOK ==
    pc = "run" =>
        /\ \A k \in Kinds, f \in Fds :
              f \in sel.master[k] /\ (sock[f] # "free" \/ turn = "handle") =>
                  \E c \in Connections :
                      /\ pool.fd[c] = f
                      /\ sel.active[<<c, k>>]
                      /\ sock[f] = IF Accepting(c) THEN listening[c] ELSE "deaf"
        /\ \A e \in Events :
              sel.active[e] /\ IsClient(ConnectionOf(e)) =>
                  pool.fd[ConnectionOf(e)] \in sel.master[KindOf(e)]
=============================================================================
