--------------------------- MODULE SpyConnection ---------------------------
(* The connection pool: an array of slots whose free ones are chained        *)
(* through their "data" field, which a slot in use points at its request.    *)
(*                                                                           *)
(* The operations are functions on the pool record, so that a handler that   *)
(* calls several of them is still one step of the modules that use them.     *)
(* The specification at the end runs the pool on its own, its users taking   *)
(* and returning slots in any order.                                         *)
EXTENDS SpyTypes, SpySockets

CONSTANT Request      \* c->data when it points at a request

ASSUME RequestAssumption == Request \notin Connections /\ Request # Null

VARIABLE pool

PoolType ==
    [ free_connections  : Connections \cup {Null},
      free_connection_n : 0 .. connection_n,
      data              : [Connections -> Connections \cup {Null, Request}],
      fd                : [Connections -> Fds \cup {NoFd}] ]

\* The loop of spy_event_init chains the slots in the order of the array.
InitialPool ==
    [ free_connections  |-> 0,
      free_connection_n |-> connection_n,
      data              |-> [c \in Connections |->
                               IF c + 1 < connection_n THEN c + 1 ELSE Null],
      fd                |-> [c \in Connections |-> NoFd] ]

IsOpen(p, c) == p.fd[c] # NoFd
OpenFds(p)   == {p.fd[c] : c \in {x \in Connections : IsOpen(p, x)}}

FreeConnection(p, c) ==
    [ free_connections  |-> c,
      free_connection_n |-> p.free_connection_n + 1,
      data              |-> [p.data EXCEPT ![c] = p.free_connections],
      fd                |-> p.fd ]

\* The slot spy_get_connection takes, when there is one.
CanGet(p) == p.free_connections # Null

\* Mutant: the slot stays first in the list.
GetWithoutUnlink(p, s) ==
    LET c == p.free_connections
    IN  [p EXCEPT !.free_connection_n = @ - 1, !.data[c] = Null, !.fd[c] = s]

GetConnection(p, s) ==
    LET c == p.free_connections
    IN  [ free_connections  |-> p.data[c],
          free_connection_n |-> p.free_connection_n - 1,
          data              |-> [p.data EXCEPT ![c] = Null],
          fd                |-> [p.fd EXCEPT ![c] = s] ]

AttachRequest(p, c) == [p EXCEPT !.data[c] = Request]

\* Mutant: the socket is closed and the slot is not freed.
CloseOnlySocket(p, c) == [p EXCEPT !.fd[c] = NoFd]

\* spy_close_accepted_connection: no look at c->fd first.
CloseAccepted(p, c) == [FreeConnection(p, c) EXCEPT !.fd[c] = NoFd]

\* Mutant: the guard "connection already closed" is missing.
CloseUnguarded(p, c) == CloseAccepted(p, c)

\* spy_close_connection leaves a connection that is already closed alone.
CloseConnection(p, c) ==
    IF IsOpen(p, c) THEN CloseAccepted(p, c) ELSE p

-----------------------------------------------------------------------------
\* The pool on its own.

PoolInit == pool = InitialPool

\* The kernel never gives out the number of a descriptor that is open.
Get(s) ==
    /\ s \notin OpenFds(pool)
    /\ CanGet(pool)
    /\ pool' = GetConnection(pool, s)

\* spy_proxy_init_request, for a connection just accepted.
Attach(c) ==
    /\ IsOpen(pool, c)
    /\ pool.data[c] = Null
    /\ pool' = AttachRequest(pool, c)

\* An error between accept() and the handler, before there is a request.
Abandon(c) ==
    /\ IsOpen(pool, c)
    /\ pool.data[c] = Null
    /\ pool' = CloseAccepted(pool, c)

\* Whoever holds a pointer may close, even a second time.
Close(c) == pool' = CloseConnection(pool, c)

PoolNext ==
    \/ \E s \in Fds : Get(s)
    \/ \E c \in Connections : Attach(c) \/ Abandon(c) \/ Close(c)

PoolSpec == PoolInit /\ [][PoolNext]_pool

-----------------------------------------------------------------------------
(* The free list is s when s visits the free slots, each once, in the order  *)
(* of the links.                                                             *)
IsFreeList(p, s) ==
    LET n == p.free_connection_n IN
    /\ \A i, j \in 1 .. n : s[i] = s[j] => i = j
    /\ \A c \in Connections : (\E i \in 1 .. n : s[i] = c) <=> ~ IsOpen(p, c)
    /\ p.free_connections = IF n = 0 THEN Null ELSE s[1]
    /\ \A i \in 1 .. n : p.data[s[i]] = IF i = n THEN Null ELSE s[i + 1]

(* The linked free list holds exactly the closed connections, each once, and *)
(* its counter is its length: no slot is lost, none is handed out twice, and *)
(* spy_get_connection refuses only when every slot is in use.                *)
FreeListOK(p) ==
    \E s \in [1 .. p.free_connection_n -> Connections] : IsFreeList(p, s)

\* Two connections in use never have the same descriptor.
FdsDistinct(p) ==
    \A c, d \in Connections :
        IsOpen(p, c) /\ p.fd[c] = p.fd[d] => c = d

\* The type of the pool.
PoolTypeOK == pool \in PoolType

\* The free list of the pool run on its own.
PoolFreeListOK == FreeListOK(pool)

(* The abstract pool of module ConnectionPool: its only state is which       *)
(* descriptor each slot serves.                                              *)
AbstractPool == INSTANCE ConnectionPool WITH Slots <- Connections,
                                             Holders <- Fds,
                                             Nobody <- NoFd,
                                             holder <- pool.fd,
                                             refused <- pool.free_connections = Null

\* The pool hands out only slots nobody holds, and refuses only when all are held.
ImplementsConnectionPool == AbstractPool!Spec
=============================================================================
