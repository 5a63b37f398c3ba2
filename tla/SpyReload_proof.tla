--------------------------- MODULE SpyReload_proof ---------------------------
(* Proofs about the process across its reloads, for any configurations, any  *)
(* number of slots and any descriptors: which sockets the running global     *)
(* holds, which slots its free list visits, and what the select(2) backend   *)
(* still watches.                                                            *)
EXTENDS SpyReload, SpySelect_proof, SequenceTheorems

SockType == [Fds -> {"free", "deaf"} \cup Addrs]

\* RunningSocketsOK, of a global g and what the kernel knows.
SocketsOK(g, k) ==
    \A i, j \in DOMAIN g :
        g[i].fd # NoFd => k[g[i].fd] = g[i].addr /\ (g[i].fd = g[j].fd => i = j)

NotListening(L) == {c \in Connections : L[c] = Null}

(* RunningFreeListOK, of a pool and the slots that serve no listening        *)
(* socket: the list of the running global need not visit all that are        *)
(* closed, those freed into an earlier global are lost to it.                *)
RunningList(p, A) ==
    LET n == p.free_connection_n IN
    \E s \in [1 .. n -> {c \in A : ~ IsOpen(p, c)}] :
        /\ \A i, j \in 1 .. n : s[i] = s[j] => i = j
        /\ p.free_connections = IF n = 0 THEN Null ELSE s[1]
        /\ \A i \in 1 .. n : p.data[s[i]] = IF i = n THEN Null ELSE s[i + 1]

\* A client's descriptor is one of a connected socket, and its own.
ClientsOK(p, k, L) ==
    \A c \in NotListening(L) : IsOpen(p, c) =>
        /\ k[p.fd[c]] = "deaf"
        /\ \A d \in NotListening(L) : p.fd[c] = p.fd[d] => c = d

(* A bit in a master set stands for the client it was set for or for a       *)
(* listening socket, which may be closed by now.                             *)
BitsOK(s, p, k, L) ==
    \A kind \in Kinds, f \in Fds : f \in s.master[kind] =>
        \E c \in Connections :
            /\ p.fd[c] = f
            /\ s.active[<<c, kind>>]
            /\ IF L[c] = Null THEN k[f] = "deaf" ELSE k[f] \in {"free", L[c]}

\* The bits select(2) has just looked at stand for open sockets.
BitsLive(s, k) == \A kind \in Kinds, f \in Fds : f \in s.master[kind] => k[f] # "free"

(* What the tables, the pool and the kernel know of each other. The index    *)
(* may hold events of slots whose socket is closed, if a listening socket    *)
(* was theirs; no bit is above a valid max_fd, so that select(2) finds all   *)
(* that are closed.                                                          *)
WatchOK(s, p, k, L) ==
    /\ s \in SelectType /\ TableOK(s)
    /\ \A e \in Events : s.active[e] => IsOpen(p, ConnectionOf(e)) \/ L[ConnectionOf(e)] # Null
    /\ ClientsOK(p, k, L)
    /\ BitsOK(s, p, k, L)
    /\ \A e \in Events :
          s.active[e] /\ L[ConnectionOf(e)] = Null => p.fd[ConnectionOf(e)] \in s.master[KindOf(e)]
    /\ s.max_fd # NoFd => \A kind \in Kinds, f \in Fds : f \in s.master[kind] => f =< s.max_fd

(* The inductive invariant. Until the process ends its sockets, its list and *)
(* its tables agree; select(2) has dropped the closed descriptors when       *)
(* events are handled; and a client whose write event is still to come is    *)
(* open.                                                                     *)
LiveIInv ==
    /\ SocketsOK(spy_global, sock)
    /\ RunningList(pool, NotListening(listening))
    /\ WatchOK(sel, pool, sock, listening)
    /\ turn = "handle" => BitsLive(sel, sock)
    /\ turn # "handle" => events = {}
    /\ \A e \in events : KindOf(e) = "write" /\ ~ Accepting(ConnectionOf(e))
                         => IsOpen(pool, ConnectionOf(e))

ReloadIInv ==
    /\ ReloadTypeOK
    /\ turn = "init" => /\ pool = InitialPool /\ sel = InitialSelect
                        /\ listening = [c \in Connections |-> Null]
    /\ pc = "start" => turn = "init"
    /\ pc \in {"start", "run"} => LiveIInv

-----------------------------------------------------------------------------
(* The sockets of a new global. What spy_open_listening_sockets has done to  *)
(* it so far, old being the sockets of the running global, k what the kernel *)
(* knew at first and n the number of addresses: only descriptors that were   *)
(* free have changed.                                                        *)
OpenedOnlyFree(st, k, n) ==
    /\ Len(st.new) = n
    /\ \A i \in 1 .. n : ~ st.new[i].open /\ (st.new[i].fd # NoFd => k[st.new[i].fd] = "free")
    /\ SocketsOK(st.new, st.sock)
    /\ \A f \in Fds : k[f] # "free" => st.sock[f] = k[f]

Opened(old, k, n) ==
    {st \in [new : GlobalType, old : {old}, sock : SockType, ok : BOOLEAN] :
        OpenedOnlyFree(st, k, n)}

\* An entry of a global.
ListeningType == [addr : Addrs, fd : Fds \cup {NoFd}, open : BOOLEAN, remain : BOOLEAN]

\* The parts of a global, and what setting a descriptor in it does.
LEMMA GlobalParts ==
    ASSUME NEW g \in GlobalType
    PROVE  /\ DOMAIN g = 1 .. Len(g) /\ Len(g) \in Nat
           /\ \A i \in 1 .. Len(g) : /\ g[i] \in ListeningType /\ g[i].addr \in Addrs
                                     /\ g[i].fd \in Fds \cup {NoFd}
<1>1. g \in Seq(ListeningType)
  BY DEF GlobalType, ListeningType
<1>2. /\ DOMAIN g = 1 .. Len(g) /\ Len(g) \in Nat
      /\ \A i \in 1 .. Len(g) : g[i] \in ListeningType
  BY <1>1
<1>3. \A l \in ListeningType : l.addr \in Addrs /\ l.fd \in Fds \cup {NoFd}
  BY DEF ListeningType
<1> QED BY <1>2, <1>3

LEMMA SetFd ==
    ASSUME NEW g \in GlobalType, NEW i \in 1 .. Len(g), NEW f \in Fds,
           NEW h, h = [g EXCEPT ![i].fd = f]
    PROVE  /\ h \in GlobalType /\ Len(h) = Len(g)
           /\ \A j \in 1 .. Len(g) : /\ h[j].fd = IF j = i THEN f ELSE g[j].fd
                                     /\ h[j].open = g[j].open /\ h[j].addr = g[j].addr
<1> DEFINE e == [g[i] EXCEPT !.fd = f]
<1>1. g \in Seq(ListeningType)
  BY DEF GlobalType, ListeningType
<1>2. g[i] \in ListeningType
  BY <1>1
<1>3. e \in ListeningType /\ e.fd = f /\ e.open = g[i].open /\ e.addr = g[i].addr
  BY <1>2 DEF ListeningType
<1>4. h = [g EXCEPT ![i] = e]
  BY <1>2 DEF ListeningType
<1> HIDE DEF e
<1>5. /\ h \in Seq(ListeningType) /\ Len(h) = Len(g)
      /\ \A j \in 1 .. Len(g) : h[j] = IF j = i THEN e ELSE g[j]
  BY <1>1, <1>3, <1>4, ExceptSeq
<1>6. h \in GlobalType
  BY <1>5 DEF GlobalType, ListeningType
<1> QED BY <1>3, <1>5, <1>6

\* The descriptor the kernel gives out is the least that is free.
LEMMA LeastFree ==
    ASSUME NEW k \in SockType, {f \in Fds : k[f] = "free"} # {}
    PROVE  /\ Min({f \in Fds : k[f] = "free"}) \in Fds
           /\ k[Min({f \in Fds : k[f] = "free"})] = "free"
<1>1. {f \in Fds : k[f] = "free"} \in SUBSET Nat
  BY FdsAssumption
<1>2. Min({f \in Fds : k[f] = "free"}) \in {f \in Fds : k[f] = "free"}
  BY <1>1, NatMin
<1> QED BY <1>2

\* The assignments spy_open_listening_sockets makes.
LEMMA Assignments ==
    ASSUME NEW N, NEW O, NEW K, NEW st \in [new : N, old : O, sock : K, ok : BOOLEAN],
           NEW i, NEW f, NEW a, NEW t
    PROVE  /\ t = [st EXCEPT !.ok = FALSE] =>
              t = [new |-> st.new, old |-> st.old, sock |-> st.sock, ok |-> FALSE]
           /\ t = [st EXCEPT !.sock[f] = a] =>
              t = [new |-> st.new, old |-> st.old, sock |-> [st.sock EXCEPT ![f] = a], ok |-> st.ok]
           /\ t = [st EXCEPT !.sock[f] = a, !.new[i].fd = f] =>
              t = [new |-> [st.new EXCEPT ![i].fd = f], old |-> st.old,
                   sock |-> [st.sock EXCEPT ![f] = a], ok |-> st.ok]
<1>1. ASSUME t = [st EXCEPT !.ok = FALSE]
      PROVE  t = [new |-> st.new, old |-> st.old, sock |-> st.sock, ok |-> FALSE]
  BY <1>1
<1>2. ASSUME t = [st EXCEPT !.sock[f] = a]
      PROVE  t = [new |-> st.new, old |-> st.old, sock |-> [st.sock EXCEPT ![f] = a], ok |-> st.ok]
  BY <1>2
<1>3. ASSUME t = [st EXCEPT !.sock[f] = a, !.new[i].fd = f]
      PROVE  t = [new |-> [st.new EXCEPT ![i].fd = f], old |-> st.old,
                  sock |-> [st.sock EXCEPT ![f] = a], ok |-> st.ok]
  BY <1>3
<1> QED BY <1>1, <1>2, <1>3

\* One attempt to open a socket.
LEMMA OpenOneOK ==
    ASSUME NEW old, NEW k, NEW n \in Nat, NEW st \in Opened(old, k, n), NEW i \in 1 .. n
    PROVE  OpenOne(st, i) \subseteq Opened(old, k, n)
<1> DEFINE free == {f \in Fds : st.sock[f] = "free"}
           f == Min(free)
           a == st.new[i].addr
<1>0. st \in [new : GlobalType, old : {old}, sock : SockType, ok : BOOLEAN]
  BY DEF Opened
<1>1. /\ Len(st.new) = n
      /\ \A j \in 1 .. n : ~ st.new[j].open /\ (st.new[j].fd # NoFd => k[st.new[j].fd] = "free")
      /\ SocketsOK(st.new, st.sock)
      /\ \A x \in Fds : k[x] # "free" => st.sock[x] = k[x]
  BY DEF Opened, OpenedOnlyFree
<1>2. /\ st.new \in GlobalType /\ st.sock \in SockType /\ DOMAIN st.new = 1 .. n
      /\ st.old = old /\ st.ok \in BOOLEAN
      /\ \A j \in 1 .. n : st.new[j].addr \in Addrs /\ st.new[j].fd \in Fds \cup {NoFd}
  BY <1>0, <1>1, GlobalParts
<1>3. \A j \in 1 .. n : st.new[j].fd # NoFd => st.new[j].fd \in Fds /\ st.sock[st.new[j].fd] # "free"
  BY <1>1, <1>2, GlobalAssumption DEF SocketsOK
<1>4. ASSUME NEW t, t = [st EXCEPT !.ok = FALSE] PROVE t \in Opened(old, k, n)
  <2>1. t = [new |-> st.new, old |-> old, sock |-> st.sock, ok |-> FALSE]
    BY <1>0, <1>2, <1>4, Assignments
  <2>2. OpenedOnlyFree(t, k, n)
    BY <1>1, <2>1 DEF OpenedOnlyFree
  <2> QED BY <1>2, <2>1, <2>2 DEF Opened
<1>5. ASSUME free # {}, NEW t, t = [st EXCEPT !.sock[f] = "deaf"] PROVE t \in Opened(old, k, n)
  <2>1. f \in Fds /\ st.sock[f] = "free"
    BY <1>2, <1>5, LeastFree
  <2> HIDE DEF f
  <2>2. t = [new |-> st.new, old |-> old, sock |-> [st.sock EXCEPT ![f] = "deaf"], ok |-> st.ok]
    BY <1>0, <1>2, <1>5, Assignments
  <2>3. t.sock \in SockType /\ \A x \in Fds : x # f => t.sock[x] = st.sock[x]
    BY <1>2, <2>1, <2>2 DEF SockType
  <2>4. SocketsOK(t.new, t.sock)
    BY <1>1, <1>2, <1>3, <2>1, <2>2, <2>3 DEF SocketsOK
  <2>5. OpenedOnlyFree(t, k, n)
    BY <1>1, <2>1, <2>2, <2>3, <2>4 DEF OpenedOnlyFree
  <2> QED BY <1>2, <2>2, <2>3, <2>5 DEF Opened
<1>6. ASSUME free # {}, st.new[i].fd = NoFd, NEW t, t = [st EXCEPT !.sock[f] = a, !.new[i].fd = f]
      PROVE  t \in Opened(old, k, n)
  <2> DEFINE g == [st.new EXCEPT ![i].fd = f]
  <2>1. f \in Fds /\ st.sock[f] = "free" /\ k[f] = "free" /\ a \in Addrs
    BY <1>1, <1>2, <1>6, LeastFree
  <2>2. st.new[i].addr = a
    OBVIOUS
  <2> HIDE DEF f, a
  <2>3. t = [new |-> g, old |-> old, sock |-> [st.sock EXCEPT ![f] = a], ok |-> st.ok]
    BY <1>0, <1>2, <1>6, Assignments
  <2>4. /\ g \in GlobalType /\ Len(g) = n
        /\ \A j \in 1 .. n : /\ g[j].fd = IF j = i THEN f ELSE st.new[j].fd
                             /\ g[j].open = st.new[j].open /\ g[j].addr = st.new[j].addr
    BY <1>1, <1>2, <2>1, SetFd
  <2> HIDE DEF g
  <2>5. t.sock \in SockType /\ \A x \in Fds : t.sock[x] = IF x = f THEN a ELSE st.sock[x]
    BY <1>2, <2>1, <2>3 DEF SockType
  <2>6. SocketsOK(t.new, t.sock)
    <3>1. DOMAIN g = 1 .. n
      BY <2>4, GlobalParts
    <3>2. \A j \in 1 .. n : g[j].fd # NoFd => t.sock[g[j].fd] = g[j].addr
      BY <1>1, <1>2, <1>3, <2>1, <2>2, <2>4, <2>5 DEF SocketsOK
    <3>3. \A j, m \in 1 .. n : g[j].fd # NoFd /\ g[j].fd = g[m].fd => j = m
      BY <1>1, <1>2, <1>3, <2>1, <2>4 DEF SocketsOK
    <3> QED BY <2>3, <3>1, <3>2, <3>3 DEF SocketsOK
  <2>7. \A j \in 1 .. n : ~ g[j].open /\ (g[j].fd # NoFd => k[g[j].fd] = "free")
    BY <1>1, <2>1, <2>4
  <2>8. \A x \in Fds : k[x] # "free" => t.sock[x] = k[x]
    BY <1>1, <2>1, <2>5
  <2>9. OpenedOnlyFree(t, k, n)
    BY <2>3, <2>4, <2>6, <2>7, <2>8 DEF OpenedOnlyFree
  <2> QED BY <1>2, <2>3, <2>4, <2>5, <2>9 DEF Opened
<1> HIDE DEF f, a, free
<1>7. OpenOne(st, i) \subseteq {st, [st EXCEPT !.ok = FALSE]} \/
      /\ free # {} /\ st.new[i].fd = NoFd
      /\ OpenOne(st, i) \subseteq {st, [st EXCEPT !.ok = FALSE], [st EXCEPT !.sock[f] = "deaf"],
                                   [st EXCEPT !.sock[f] = a, !.new[i].fd = f]}
  BY Zenon DEF OpenOne, f, a, free
<1> QED BY <1>4, <1>5, <1>6, <1>7


\* All attempts, one after the other.
LEMMA OpeningOK ==
    ASSUME NEW old, NEW k, NEW n \in Nat, NEW st \in Opened(old, k, n)
    PROVE  OpenListeningSockets(st) \subseteq Opened(old, k, n)
<1> DEFINE All == SUBSET Opened(old, k, n)
           Round(i, S) == UNION {OpenOne(s, i) : s \in S}
           G == [x \in (1 .. n) \X All |-> Round(x[1], x[2])]
           Body(f) == [i \in 0 .. Len(st.new) |-> IF i = 0 THEN {st} ELSE Round(i, f[i - 1])]
           after == CHOOSE f : f = Body(f)
<1>1. Len(st.new) = n
  BY DEF Opened, OpenedOnlyFree
<1>2. \A i \in 1 .. n, S \in All : Round(i, S) \in All
  BY OpenOneOK
<1>3. StepsIn(G, n, All) /\ {st} \in All
  BY <1>2 DEF StepsIn
<1>4. \A i \in 1 .. n, S \in All : G[<<i, S>>] = Round(i, S)
  OBVIOUS
<1> HIDE DEF All, G, Round
<1>5. PICK f : IsIteration(f, G, {st}, n, All)
  BY <1>3, IterationExists
<1>6. f = Body(f)
  <2>1. f \in [0 .. n -> All] /\ f[0] = {st}
    BY <1>5 DEF IsIteration
  <2>2. \A i \in 1 .. n : f[i] = Round(i, f[i - 1])
    <3> TAKE i \in 1 .. n
    <3>1. i - 1 \in 0 .. n
      OBVIOUS
    <3> QED BY <1>4, <1>5, <2>1, <3>1 DEF IsIteration
  <2> QED BY <1>1, <2>1, <2>2
<1> HIDE DEF Body
<1>7. after = Body(after)
  BY <1>6
<1>8. OpenListeningSockets(st) = after[n]
  BY <1>1 DEF OpenListeningSockets, Body, Round
<1> HIDE DEF after
<1>9. \A i \in 0 .. n : after[i] \in All
  <2> DEFINE S == {i \in 0 .. n : after[i] \in All}
  <2>1. 0 \in S
    <3>1. 0 \in 0 .. n
      OBVIOUS
    <3>2. after[0] = {st}
      BY <1>1, <1>7, <3>1 DEF Body
    <3> QED BY <1>3, <3>1, <3>2
  <2>2. ASSUME NEW i \in S, i < n PROVE i + 1 \in S
    <3>1. i + 1 \in 1 .. n /\ i + 1 \in 0 .. n /\ (i + 1) - 1 = i /\ i + 1 # 0
      BY <2>2
    <3>2. after[i + 1] = Round(i + 1, after[(i + 1) - 1])
      BY <1>1, <1>7, <3>1 DEF Body
    <3> QED BY <1>2, <3>1, <3>2
  <2>3. S \in SUBSET (0 .. n)
    OBVIOUS
  <2> HIDE DEF S
  <2>4. S = 0 .. n
    BY <2>1, <2>2, <2>3, BoundedInduction
  <2> QED BY <2>4 DEF S
<1> QED BY <1>8, <1>9 DEF All

-----------------------------------------------------------------------------
(* What a start or a reload does to the sockets. Nothing is inherited, so    *)
(* that all sockets of the running global are to be closed and those of the  *)
(* new one to be opened.                                                     *)
LEMMA PreparedOK ==
    ASSUME NEW c \in Configurations, spy_global \in GlobalType, sock \in SockType
    PROVE  LET st == Prepared(c) IN
           /\ st \in Opened(st.old, sock, Len(c)) /\ Len(c) \in Nat
           /\ FdsOf({l \in ToSet(st.old) : ~ l.remain}) = FdsOf(ToSet(spy_global))
<1> DEFINE st == Prepared(c)
           inherited == Inherit(<<>>, spy_global)
           new == [i \in DOMAIN c |-> CreateListening(c[i])]
<1>1. c \in Seq(Addrs) /\ Len(c) \in Nat /\ DOMAIN c = 1 .. Len(c)
      /\ \A i \in 1 .. Len(c) : c[i] \in Addrs
  BY GlobalAssumption
<1>2. /\ new \in Seq(ListeningType) /\ Len(new) = Len(c)
      /\ \A i \in 1 .. Len(c) : new[i].fd = NoFd /\ ~ new[i].open
  <2>1. \A a \in Addrs : /\ CreateListening(a) \in ListeningType
                         /\ CreateListening(a).fd = NoFd /\ ~ CreateListening(a).open
    BY DEF CreateListening, ListeningType
  <2>2. new \in [1 .. Len(c) -> ListeningType]
    BY <1>1, <2>1
  <2>3. new \in Seq(ListeningType)
    BY <1>1, <2>2, SeqDef
  <2>4. DOMAIN new = 1 .. Len(c) /\ DOMAIN new = 1 .. Len(new) /\ Len(new) \in Nat
    BY <1>1, <2>3
  <2>5. Len(new) = Len(c)
    <3> HIDE DEF new
    <3> QED BY <1>1, <2>4
  <2> QED BY <1>1, <2>1, <2>3, <2>5
<1>3. inherited.new = <<>>
  BY DEF Inherit
<1>4. /\ DOMAIN inherited.old = DOMAIN spy_global
      /\ \A i \in DOMAIN spy_global : /\ inherited.old[i].fd = spy_global[i].fd
                                      /\ ~ inherited.old[i].remain
  <2>1. inherited.old = [i \in DOMAIN spy_global |-> [spy_global[i] EXCEPT !.remain = FALSE]]
    BY DEF Inherit
  <2>2. \A l \in ListeningType : LET m == [l EXCEPT !.remain = FALSE] IN m.fd = l.fd /\ ~ m.remain
    BY DEF ListeningType
  <2>3. \A i \in DOMAIN spy_global : spy_global[i] \in ListeningType
    BY GlobalParts
  <2> HIDE DEF inherited
  <2> QED BY <2>1, <2>2, <2>3
<1>5. st = [new |-> new, old |-> inherited.old, sock |-> sock, ok |-> TRUE]
  <2>1. <<>> \o new = new
    BY <1>2, ConcatEmptySeq
  <2> HIDE DEF new
  <2> QED BY <1>3, <2>1 DEF Prepared, new
<1> HIDE DEF st, new, inherited
<1>6. st \in Opened(st.old, sock, Len(c))
  <2>1. new \in GlobalType
    BY <1>2 DEF GlobalType, ListeningType
  <2>2. SocketsOK(new, sock)
    BY <1>2, <2>1, GlobalParts DEF SocketsOK
  <2>3. OpenedOnlyFree(st, sock, Len(c))
    BY <1>2, <1>5, <2>2 DEF OpenedOnlyFree
  <2> QED BY <1>5, <2>1, <2>3 DEF Opened
<1>7. FdsOf({l \in ToSet(st.old) : ~ l.remain}) = FdsOf(ToSet(spy_global))
  BY <1>4, <1>5 DEF FdsOf, ToSet
<1> QED BY <1>1, <1>6, <1>7 DEF st


(* A global that took the place of another: the sockets of the old one are   *)
(* closed, its own were free, and the others are as they were.               *)
Replaced(g, h, k, m) ==
    /\ h \in GlobalType /\ m \in SockType
    /\ SocketsOK(h, m)
    /\ \A f \in FdsOf(ToSet(h)) : k[f] = "free"
    /\ \A f \in FdsOf(ToSet(g)) : m[f] = "free"
    /\ \A f \in Fds \ FdsOf(ToSet(g)) : k[f] # "free" => m[f] = k[f]

\* Only descriptors that were free have changed.
OnlyFreeChanged(k, m) == m \in SockType /\ \A f \in Fds : k[f] # "free" => m[f] = k[f]

\* The descriptors of a global.
LEMMA DescriptorsOf ==
    ASSUME NEW g \in GlobalType
    PROVE  /\ FdsOf(ToSet(g)) \subseteq Fds
           /\ \A f : f \in FdsOf(ToSet(g)) <=> f # NoFd /\ \E i \in 1 .. Len(g) : g[i].fd = f
           /\ \A k : SocketsOK(g, k) => \A f \in FdsOf(ToSet(g)) : k[f] \in Addrs
<1>1. /\ DOMAIN g = 1 .. Len(g)
      /\ \A i \in 1 .. Len(g) : g[i].addr \in Addrs /\ g[i].fd \in Fds \cup {NoFd}
  BY GlobalParts
<1>2. \A f : f \in FdsOf(ToSet(g)) <=> f # NoFd /\ \E i \in 1 .. Len(g) : g[i].fd = f
  BY <1>1 DEF FdsOf, ToSet
<1> QED BY <1>1, <1>2 DEF SocketsOK

\* Closing sockets keeps the types.
LEMMA CloseSocketsOK ==
    ASSUME NEW k \in SockType, NEW F
    PROVE  /\ CloseSockets(k, F) \in SockType
           /\ \A f \in Fds : CloseSockets(k, F)[f] = IF f \in F THEN "free" ELSE k[f]
BY DEF CloseSockets, SockType

\* spy_global_init that succeeds.
LEMMA GlobalInitReplaces ==
    ASSUME NEW c \in Configurations, spy_global \in GlobalType, sock \in SockType,
           SocketsOK(spy_global, sock), GlobalInitOK(c)
    PROVE  /\ spy_global' \in GlobalType /\ sock' \in SockType
           /\ \/ pc' = "exit"
              \/ pc' = "run" /\ Replaced(spy_global, spy_global', sock, sock')
<1> DEFINE old == Prepared(c).old
           fds == FdsOf(ToSet(spy_global))
<1>1. PICK st \in OpenListeningSockets(Prepared(c)) :
         /\ sock' = Commit(st)
         /\ \/ spy_global' = st.new /\ pc' = "run"
            \/ spy_global' = <<>> /\ pc' = "exit"
  BY DEF GlobalInitOK
<1>2. Prepared(c) \in Opened(old, sock, Len(c)) /\ Len(c) \in Nat
      /\ FdsOf({l \in ToSet(old) : ~ l.remain}) = fds
  BY PreparedOK
<1>3. st \in Opened(old, sock, Len(c))
  <2> HIDE DEF old
  <2>1. OpenListeningSockets(Prepared(c)) \subseteq Opened(old, sock, Len(c))
    BY <1>2, OpeningOK
  <2> QED BY <1>1, <2>1
<1>4. st.new \in GlobalType /\ st.old = old /\ st.sock \in SockType /\ OpenedOnlyFree(st, sock, Len(c))
  BY <1>3 DEF Opened
<1>5. sock' = CloseSockets(st.sock, fds)
  BY <1>1, <1>2, <1>4 DEF Commit
<1> HIDE DEF old, fds
<1>6. sock' \in SockType /\ \A f \in Fds : sock'[f] = IF f \in fds THEN "free" ELSE st.sock[f]
  BY <1>4, <1>5, CloseSocketsOK
<1>7. fds \subseteq Fds /\ \A f \in fds : sock[f] # "free"
  BY DescriptorsOf, GlobalAssumption DEF fds
<1>8. \A f \in FdsOf(ToSet(st.new)) : sock[f] = "free"
  <2>1. \A i \in 1 .. Len(st.new) : st.new[i].fd # NoFd => sock[st.new[i].fd] = "free"
    BY <1>4 DEF OpenedOnlyFree
  <2> QED BY <1>4, <2>1, DescriptorsOf
<1>9. SocketsOK(st.new, sock')
  <2>1. DOMAIN st.new = 1 .. Len(st.new) /\ SocketsOK(st.new, st.sock)
    BY <1>4, GlobalParts DEF OpenedOnlyFree
  <2>2. \A i \in 1 .. Len(st.new) : st.new[i].fd # NoFd =>
           /\ st.new[i].fd \in Fds /\ st.new[i].fd \notin fds
           /\ sock'[st.new[i].fd] = st.sock[st.new[i].fd]
    BY <1>4, <1>6, <1>7, <1>8, DescriptorsOf
  <2> QED BY <2>1, <2>2 DEF SocketsOK
<1>10. \A f \in Fds \ fds : sock[f] # "free" => sock'[f] = sock[f]
  BY <1>4, <1>6 DEF OpenedOnlyFree
<1>11. <<>> \in GlobalType
  BY EmptySeq DEF GlobalType
<1>12. \A f \in fds : sock'[f] = "free"
  BY <1>6, <1>7
<1>13. Replaced(spy_global, st.new, sock, sock')
  BY <1>4, <1>6, <1>8, <1>9, <1>10, <1>12 DEF Replaced, fds
<1> HIDE DEF fds
<1> QED BY <1>1, <1>4, <1>6, <1>11, <1>13

\* One that fails: what it opened stays open, nothing else has changed.
LEMMA GlobalInitLeaves ==
    ASSUME NEW c \in Configurations, spy_global \in GlobalType, sock \in SockType,
           GlobalInitFails(c)
    PROVE  OnlyFreeChanged(sock, sock')
<1> DEFINE old == Prepared(c).old
<1>1. CASE sock' = sock
  BY <1>1 DEF OnlyFreeChanged
<1>2. ASSUME NEW st \in OpenListeningSockets(Prepared(c)), sock' = RollBack(st)
      PROVE  OnlyFreeChanged(sock, sock')
  <2>1. Prepared(c) \in Opened(old, sock, Len(c)) /\ Len(c) \in Nat
    BY PreparedOK
  <2> HIDE DEF old
  <2>2. OpenListeningSockets(Prepared(c)) \subseteq Opened(old, sock, Len(c))
    BY <2>1, OpeningOK
  <2>3. st.new \in GlobalType /\ st.sock \in SockType /\ OpenedOnlyFree(st, sock, Len(c))
    BY <1>2, <2>2 DEF Opened
  <2>4. \A l \in ToSet(st.new) : ~ l.open
    BY <2>3, GlobalParts DEF OpenedOnlyFree, ToSet
  <2>5. FdsOf({l \in ToSet(st.new) : l.open}) = {}
    BY <2>4 DEF FdsOf
  <2>6. sock' \in SockType /\ \A f \in Fds : sock'[f] = st.sock[f]
    BY <1>2, <2>3, <2>5, CloseSocketsOK DEF RollBack
  <2> QED BY <2>3, <2>6 DEF OnlyFreeChanged, OpenedOnlyFree
<1> QED BY <1>1, <1>2 DEF GlobalInitFails


-----------------------------------------------------------------------------
(* The free list of the running global. It need not visit every closed slot, *)
(* so that the lemmas about the pool on its own do not apply.                *)
VisitsOnce(p, A, s) ==
    LET n == p.free_connection_n IN
    /\ s \in [1 .. n -> {c \in A : ~ IsOpen(p, c)}]
    /\ \A i, j \in 1 .. n : s[i] = s[j] => i = j
    /\ p.free_connections = IF n = 0 THEN Null ELSE s[1]
    /\ \A i \in 1 .. n : p.data[s[i]] = IF i = n THEN Null ELSE s[i + 1]

LEMMA RunningListVisits ==
    ASSUME NEW p, NEW A
    PROVE  RunningList(p, A) <=> \E s : VisitsOnce(p, A, s)
BY DEF RunningList, VisitsOnce

\* Its head is a closed slot that serves no listening socket.
LEMMA RunningHead ==
    ASSUME NEW p \in PoolType, NEW A \in SUBSET Connections, RunningList(p, A), CanGet(p)
    PROVE  p.free_connections \in A /\ ~ IsOpen(p, p.free_connections)
<1>1. PICK s : VisitsOnce(p, A, s)
  BY RunningListVisits
<1>2. p.free_connection_n \in Nat
  BY ConnectionNAssumption DEF PoolType
<1>3. p.free_connections = s[1] /\ 1 \in 1 .. p.free_connection_n
  BY <1>1, <1>2 DEF CanGet, VisitsOnce
<1> QED BY <1>1, <1>3 DEF VisitsOnce

\* Taking a slot leaves the rest of the list.
LEMMA RunningGet ==
    ASSUME NEW p \in PoolType, NEW A \in SUBSET Connections, RunningList(p, A), CanGet(p),
           NEW f \in Fds
    PROVE  GetConnection(p, f) \in PoolType /\ RunningList(GetConnection(p, f), A)
<1> USE ConnectionNAssumption
<1> DEFINE n == p.free_connection_n
           c == p.free_connections
           q == GetConnection(p, f)
<1>1. PICK s : VisitsOnce(p, A, s)
  BY RunningListVisits
<1>2. n \in Nat /\ n \in 0 .. connection_n
  BY DEF PoolType
<1>3. n > 0 /\ c = s[1] /\ c \in Connections /\ 1 \in 1 .. n
  BY <1>1, <1>2 DEF VisitsOnce, CanGet
<1>4. /\ s \in [1 .. n -> {d \in A : ~ IsOpen(p, d)}]
      /\ \A i, j \in 1 .. n : s[i] = s[j] => i = j
      /\ \A i \in 1 .. n : p.data[s[i]] = IF i = n THEN Null ELSE s[i + 1]
  BY <1>1 DEF VisitsOnce
<1>5. q = [ free_connections  |-> p.data[c],
            free_connection_n |-> n - 1,
            data              |-> [p.data EXCEPT ![c] = Null],
            fd                |-> [p.fd EXCEPT ![c] = f] ]
  BY DEF GetConnection
<1> HIDE DEF q
<1>6. p.data[c] = IF n = 1 THEN Null ELSE s[2]
  BY <1>2, <1>3, <1>4
<1>7. q \in PoolType
  <2>1. p.data[c] \in Connections \cup {Null}
    BY <1>2, <1>3, <1>4, <1>6
  <2> QED BY <1>2, <1>3, <1>5, <2>1 DEF PoolType
<1> DEFINE t == [i \in 1 .. n - 1 |-> s[i + 1]]
<1>8. \A i \in 1 .. n - 1 : /\ i + 1 \in 1 .. n /\ s[i + 1] # c /\ t[i] = s[i + 1]
                            /\ s[i + 1] \in A /\ ~ IsOpen(p, s[i + 1])
  BY <1>2, <1>3, <1>4
<1>9. \A d \in Connections : d # c => q.fd[d] = p.fd[d] /\ q.data[d] = p.data[d]
  BY <1>5 DEF PoolType
<1>10. VisitsOnce(q, A, t)
  <2>1. q.free_connection_n = n - 1
    BY <1>5
  <2>2. \A i \in 1 .. n - 1 : t[i] \in A /\ ~ IsOpen(q, t[i])
    BY <1>8, <1>9 DEF IsOpen
  <2>3. t \in [1 .. n - 1 -> {d \in A : ~ IsOpen(q, d)}]
    BY <2>2
  <2>4. \A i, j \in 1 .. n - 1 : t[i] = t[j] => i = j
    BY <1>2, <1>4, <1>8
  <2>5. q.free_connections = IF n - 1 = 0 THEN Null ELSE t[1]
    BY <1>2, <1>3, <1>5, <1>6
  <2>6. \A i \in 1 .. n - 1 : q.data[t[i]] = IF i = n - 1 THEN Null ELSE t[i + 1]
    <3> TAKE i \in 1 .. n - 1
    <3>1. q.data[t[i]] = p.data[s[i + 1]]
      BY <1>8, <1>9
    <3>2. p.data[s[i + 1]] = IF i + 1 = n THEN Null ELSE s[(i + 1) + 1]
      BY <1>4, <1>8
    <3>3. i # n - 1 => t[i + 1] = s[(i + 1) + 1]
      BY <1>2
    <3> QED BY <1>2, <3>1, <3>2, <3>3
  <2> HIDE DEF t, n
  <2> QED BY <2>1, <2>3, <2>4, <2>5, <2>6 DEF VisitsOnce
<1> QED BY <1>7, <1>10, RunningListVisits DEF q

\* Freeing an open slot puts it in front, and there is room in the counter.
LEMMA RunningClose ==
    ASSUME NEW p \in PoolType, NEW A \in SUBSET Connections, RunningList(p, A),
           NEW c \in A, IsOpen(p, c)
    PROVE  CloseAccepted(p, c) \in PoolType /\ RunningList(CloseAccepted(p, c), A)
<1> USE ConnectionNAssumption
<1> DEFINE n == p.free_connection_n
           q == CloseAccepted(p, c)
<1>1. PICK s : VisitsOnce(p, A, s)
  BY RunningListVisits
<1>2. n \in Nat /\ n \in 0 .. connection_n /\ c \in Connections
  BY DEF PoolType
<1>3. /\ s \in [1 .. n -> {d \in A : ~ IsOpen(p, d)}]
      /\ \A i, j \in 1 .. n : s[i] = s[j] => i = j
      /\ p.free_connections = IF n = 0 THEN Null ELSE s[1]
      /\ \A i \in 1 .. n : p.data[s[i]] = IF i = n THEN Null ELSE s[i + 1]
  BY <1>1 DEF VisitsOnce
<1>4. \A i \in 1 .. n : s[i] # c /\ s[i] \in A /\ s[i] \in Connections /\ ~ IsOpen(p, s[i])
  BY <1>3
<1>5. n < connection_n
  <2>1. s \in [1 .. n -> Connections]
    BY <1>3
  <2>2. \A i \in 1 .. n : s[i] # c
    BY <1>4
  <2>3. \A i, j \in 1 .. n : s[i] = s[j] => i = j
    BY <1>3
  <2> HIDE DEF n
  <2> QED BY <1>2, <2>1, <2>2, <2>3, ShorterThanArray
<1>6. /\ q.free_connections = c
      /\ q.free_connection_n = n + 1
      /\ q.data = [p.data EXCEPT ![c] = p.free_connections]
      /\ q.fd = [p.fd EXCEPT ![c] = NoFd]
  BY DEF CloseAccepted, FreeConnection
<1>7. q \in PoolType
  <2>1. FreeConnection(p, c) \in PoolType
    BY <1>2, <1>5 DEF FreeConnection, PoolType
  <2> QED BY <1>2, <2>1 DEF CloseAccepted, PoolType, NoFd
<1> HIDE DEF q
<1> DEFINE t == [i \in 1 .. n + 1 |-> IF i = 1 THEN c ELSE s[i - 1]]
<1>8. /\ t[1] = c /\ 1 \in 1 .. n + 1
      /\ \A i \in 1 .. n + 1 : i # 1 => i - 1 \in 1 .. n /\ t[i] = s[i - 1]
  BY <1>2
<1>9. \A d \in Connections : d # c => q.fd[d] = p.fd[d] /\ q.data[d] = p.data[d]
  BY <1>6 DEF PoolType
<1>10. q.fd[c] = NoFd /\ q.data[c] = p.free_connections
  BY <1>2, <1>6 DEF PoolType
<1>11. VisitsOnce(q, A, t)
  <2>1. t \in [1 .. n + 1 -> {d \in A : ~ IsOpen(q, d)}]
    <3>1. \A i \in 1 .. n + 1 : t[i] \in A /\ ~ IsOpen(q, t[i])
      <4> HIDE DEF t
      <4> QED BY <1>4, <1>8, <1>9, <1>10 DEF IsOpen
    <3> QED BY <3>1
  <2>2. t[1] = c /\ n + 1 # 0
    BY <1>2, <1>8
  <2>3. \A i \in 1 .. n + 1 : i # n + 1 => i + 1 \in 1 .. n + 1 /\ t[i + 1] = s[i] /\ i \in 1 .. n
    BY <1>2
  <2> HIDE DEF t
  <2>4. \A i, j \in 1 .. n + 1 : t[i] = t[j] => i = j
    <3> TAKE i, j \in 1 .. n + 1
    <3>1. CASE i = 1 /\ j # 1
      BY <1>4, <1>8, <3>1
    <3>2. CASE i # 1 /\ j = 1
      BY <1>4, <1>8, <3>2
    <3>3. CASE i # 1 /\ j # 1
      <4>1. i - 1 \in 1 .. n /\ j - 1 \in 1 .. n /\ t[i] = s[i - 1] /\ t[j] = s[j - 1]
        BY <1>8, <3>3
      <4>2. s[i - 1] = s[j - 1] => i - 1 = j - 1
        BY <1>3, <4>1
      <4> QED BY <1>2, <4>1, <4>2
    <3> QED BY <3>1, <3>2, <3>3
  <2>5. \A i \in 1 .. n + 1 : q.data[t[i]] = IF i = n + 1 THEN Null ELSE t[i + 1]
    <3> TAKE i \in 1 .. n + 1
    <3>1. CASE i = 1
      <4>1. q.data[t[i]] = IF n = 0 THEN Null ELSE s[1]
        BY <1>3, <1>8, <1>10, <3>1
      <4>2. n # 0 => i # n + 1
        BY <1>2, <3>1
      <4>3. n = 0 => i = n + 1
        BY <3>1
      <4> QED BY <2>3, <3>1, <4>1, <4>2, <4>3
    <3>2. CASE i # 1
      <4>1. i - 1 \in 1 .. n /\ t[i] = s[i - 1]
        BY <1>8, <3>2
      <4>2. q.data[t[i]] = p.data[s[i - 1]]
        BY <1>4, <1>9, <4>1
      <4>3. (i - 1) + 1 = i /\ (i - 1 = n <=> i = n + 1)
        BY <1>2
      <4>4. p.data[s[i - 1]] = IF i = n + 1 THEN Null ELSE s[i]
        BY <1>3, <4>1, <4>3
      <4> QED BY <2>3, <4>2, <4>4
    <3> QED BY <3>1, <3>2
  <2> HIDE DEF n
  <2> QED BY <1>6, <2>1, <2>2, <2>4, <2>5 DEF VisitsOnce
<1> QED BY <1>7, <1>11, RunningListVisits DEF q

\* A slot in use is not in the list.
LEMMA RunningAttach ==
    ASSUME NEW p \in PoolType, NEW A \in SUBSET Connections, RunningList(p, A),
           NEW c \in Connections, IsOpen(p, c)
    PROVE  /\ AttachRequest(p, c) \in PoolType /\ AttachRequest(p, c).fd = p.fd
           /\ RunningList(AttachRequest(p, c), A)
<1> DEFINE q == AttachRequest(p, c)
<1>1. PICK s : VisitsOnce(p, A, s)
  BY RunningListVisits
<1>2. /\ q.free_connections = p.free_connections
      /\ q.free_connection_n = p.free_connection_n
      /\ q.data = [p.data EXCEPT ![c] = Request]
      /\ q.fd = p.fd
      /\ q \in PoolType
  BY DEF AttachRequest, PoolType
<1> HIDE DEF q
<1>3. \A d \in Connections : ~ IsOpen(p, d) => ~ IsOpen(q, d) /\ q.data[d] = p.data[d]
  BY <1>2 DEF IsOpen, PoolType
<1>4. \A d : d \in {x \in A : ~ IsOpen(p, x)} <=> d \in {x \in A : ~ IsOpen(q, x)}
  BY <1>2 DEF IsOpen
<1>5. \A i \in 1 .. p.free_connection_n : q.data[s[i]] = p.data[s[i]]
  BY <1>1, <1>3 DEF VisitsOnce
<1>6. VisitsOnce(q, A, s)
  BY <1>1, <1>2, <1>4, <1>5 DEF VisitsOnce
<1> QED BY <1>2, <1>6, RunningListVisits DEF q

\* The list a reload starts with is empty.
LEMMA RunningCleared ==
    ASSUME NEW p \in PoolType, NEW A
    PROVE  /\ ClearedList(p) \in PoolType /\ ClearedList(p).fd = p.fd
           /\ RunningList(ClearedList(p), A)
<1> DEFINE q == ClearedList(p)
           s == [i \in 1 .. 0 |-> Null]
<1>1. /\ q \in [free_connections : {Null}, free_connection_n : {0},
                 data : [Connections -> Connections \cup {Null, Request}],
                 fd : [Connections -> Fds \cup {NoFd}]]
      /\ q.fd = p.fd
  BY DEF ClearedList, PoolType
<1>2. q \in PoolType /\ q.fd = p.fd /\ q.free_connections = Null /\ q.free_connection_n = 0
  BY <1>1, ConnectionNAssumption DEF PoolType
<1> HIDE DEF q
<1>3. VisitsOnce(q, A, s)
  BY <1>2 DEF VisitsOnce
<1> QED BY <1>2, <1>3, RunningListVisits DEF q


-----------------------------------------------------------------------------
(* spy_event_init. After i listening sockets the pool and the tables are     *)
(* these: the slots are taken in the order of the array.                     *)
ListenedPool(i, fds) ==
    [ free_connections  |-> IF i < connection_n THEN i ELSE Null,
      free_connection_n |-> connection_n - i,
      data              |-> [c \in Connections |->
                               IF c >= i /\ c + 1 < connection_n THEN c + 1 ELSE Null],
      fd                |-> [c \in Connections |-> IF c < i THEN fds[c + 1] ELSE NoFd] ]

Listened(e, i) == KindOf(e) = "read" /\ ConnectionOf(e) < i

ListenedSel(i, fds) ==
    [ max_fd      |-> NoFd,
      nevents     |-> i,
      event_index |-> [j \in Slots |-> IF j < i THEN ReadEvent(j) ELSE Null],
      active      |-> [e \in Events |-> Listened(e, i)],
      index       |-> [e \in Events |-> IF Listened(e, i) THEN ConnectionOf(e) ELSE InvalidIndex],
      master      |-> [k \in Kinds |-> IF k = "read" THEN {fds[j] : j \in 1 .. i} ELSE {}] ]

LEMMA ListenOneMore ==
    ASSUME NEW n \in 0 .. connection_n, NEW fds \in [1 .. n -> Fds \cup {NoFd}], NEW i \in 1 .. n
    PROVE  ListenOn(fds[i], ListenedPool(i - 1, fds), ListenedSel(i - 1, fds)) =
              [pool |-> ListenedPool(i, fds), sel |-> ListenedSel(i, fds)]
<1> DEFINE p == ListenedPool(i - 1, fds)
           s == ListenedSel(i - 1, fds)
           c == i - 1
           e == ReadEvent(c)
<1>1. /\ connection_n \in Nat /\ n \in Nat /\ i \in Nat
      /\ c \in Connections /\ c \in Slots /\ c \in Nat
  BY ConnectionNAssumption DEF Connections, Slots
<1>2. p.free_connections = c
  <2>1. c < connection_n
    BY <1>1 DEF Connections
  <2>2. p.free_connections = IF c < connection_n THEN c ELSE Null
    BY DEF ListenedPool
  <2> QED BY <2>1, <2>2
<1>3. GetConnection(p, fds[i]) = ListenedPool(i, fds)
  <2>1. p.data[c] = IF i < connection_n THEN i ELSE Null
    BY <1>1 DEF ListenedPool
  <2>2. p.free_connection_n - 1 = connection_n - i
    BY <1>1 DEF ListenedPool
  <2>3. [p.data EXCEPT ![c] = Null] =
           [x \in Connections |-> IF x >= i /\ x + 1 < connection_n THEN x + 1 ELSE Null]
    <3>1. \A x \in Connections : x # c => (x >= i - 1 <=> x >= i)
      BY <1>1 DEF Connections
    <3>2. ~ c >= i
      BY <1>1
    <3> QED BY <1>1, <3>1, <3>2 DEF ListenedPool
  <2>4. [p.fd EXCEPT ![c] = fds[i]] =
           [x \in Connections |-> IF x < i THEN fds[x + 1] ELSE NoFd]
    <3>1. \A x \in Connections : x # c => (x < i - 1 <=> x < i)
      BY <1>1 DEF Connections
    <3>2. c < i /\ c + 1 = i
      BY <1>1
    <3> QED BY <1>1, <3>1, <3>2 DEF ListenedPool
  <2> HIDE DEF p, c
  <2> QED BY <1>2, <2>1, <2>2, <2>3, <2>4 DEF GetConnection, ListenedPool
<1>4. /\ e \in Events /\ WriteEvent(c) \in Events
      /\ ~ Listened(e, c) /\ ~ Listened(WriteEvent(c), c)
  <2>1. KindOf(WriteEvent(c)) = "write" /\ ConnectionOf(e) = c
    BY DEF KindOf, ConnectionOf, ReadEvent, WriteEvent
  <2> QED BY <1>1, <2>1, EventsOfSlot DEF Listened
<1>5. ClearEvents(s, c) = s
  <2>1. \A d \in {e, WriteEvent(c)} : d \in Events /\ ~ s.active[d] /\ s.active[d] = FALSE
                                      /\ s.index[d] = InvalidIndex
    BY <1>4 DEF ListenedSel
  <2>2. [s.active EXCEPT ![ReadEvent(c)] = FALSE, ![WriteEvent(c)] = FALSE] = s.active
    BY <2>1 DEF ListenedSel
  <2>3. [s.index EXCEPT ![ReadEvent(c)] = InvalidIndex, ![WriteEvent(c)] = InvalidIndex] = s.index
    BY <2>1 DEF ListenedSel
  <2> QED BY <2>2, <2>3 DEF ClearEvents, ListenedSel
<1>6. AddEvent(s, e, fds[i]) = ListenedSel(i, fds)
  <2>1. s.index[e] = InvalidIndex /\ s.max_fd = NoFd /\ s.nevents = c
    BY <1>4 DEF ListenedSel
  <2>2. \A d \in Events : Listened(d, i) <=> Listened(d, c) \/ d = e
    <3>1. \A d \in Events : ConnectionOf(d) \in Connections /\ d = <<ConnectionOf(d), KindOf(d)>>
      BY EventParts
    <3>2. KindOf(e) = "read" /\ ConnectionOf(e) = c
      BY DEF KindOf, ConnectionOf, ReadEvent
    <3>3. \A x \in Connections : x < i <=> x < c \/ x = c
      BY <1>1 DEF Connections
    <3> QED BY <3>1, <3>2, <3>3 DEF Listened, ReadEvent
  <2>3. [s.event_index EXCEPT ![c] = e] = [j \in Slots |-> IF j < i THEN ReadEvent(j) ELSE Null]
    <3>1. \A j \in Slots : j < i <=> j < c \/ j = c
      BY <1>1, ConnectionNAssumption DEF Slots
    <3> QED BY <1>1, <3>1 DEF ListenedSel
  <2>4. [s.active EXCEPT ![e] = TRUE] = [d \in Events |-> Listened(d, i)]
    <3>1. \A d \in Events : Listened(d, c) \in BOOLEAN /\ Listened(d, i) \in BOOLEAN
      BY DEF Listened
    <3> HIDE DEF e
    <3> QED BY <1>4, <2>2, <3>1 DEF ListenedSel
  <2>5. [s.index EXCEPT ![e] = c] =
           [d \in Events |-> IF Listened(d, i) THEN ConnectionOf(d) ELSE InvalidIndex]
    <3>1. ConnectionOf(e) = c
      BY DEF ConnectionOf, ReadEvent
    <3> HIDE DEF e
    <3> QED BY <1>4, <2>2, <3>1 DEF ListenedSel
  <2>6. [s.master EXCEPT ![KindOf(e)] = @ \cup {fds[i]}] =
           [k \in Kinds |-> IF k = "read" THEN {fds[j] : j \in 1 .. i} ELSE {}]
    <3>1. KindOf(e) = "read" /\ "read" \in Kinds
      BY DEF KindOf, ReadEvent, Kinds
    <3>2. {fds[j] : j \in 1 .. i} = {fds[j] : j \in 1 .. i - 1} \cup {fds[i]}
      <4>1. \A j : j \in 1 .. i <=> j \in 1 .. i - 1 \/ j = i
        BY <1>1
      <4> QED BY <4>1
    <3> HIDE DEF e
    <3> QED BY <3>1, <3>2 DEF ListenedSel
  <2>7. c + 1 = i
    BY <1>1
  <2> HIDE DEF s, e, c
  <2> QED BY <2>1, <2>3, <2>4, <2>5, <2>6, <2>7 DEF AddEvent, ListenedSel
<1> HIDE DEF p, s, c
<1> QED BY <1>2, <1>3, <1>5, <1>6 DEF ListenOn, p, s


LEMMA ListenOnAllIs ==
    ASSUME NEW n \in 0 .. connection_n, NEW fds \in [1 .. n -> Fds \cup {NoFd}]
    PROVE  ListenOnAll(n, fds) = [pool |-> ListenedPool(n, fds), sel |-> ListenedSel(n, fds)]
<1> DEFINE R(i) == [pool |-> ListenedPool(i, fds), sel |-> ListenedSel(i, fds)]
           Body(f) == [i \in 0 .. n |->
                         IF i = 0 THEN [pool |-> InitialPool, sel |-> InitialSelect]
                                  ELSE ListenOn(fds[i], f[i - 1].pool, f[i - 1].sel)]
           closed == [i \in 0 .. n |-> R(i)]
           after == CHOOSE f : f = Body(f)
<1>1. n \in Nat
  BY ConnectionNAssumption
<1>2. R(0) = [pool |-> InitialPool, sel |-> InitialSelect]
  <2>1. \A x \in Connections : x >= 0 /\ ~ x < 0
    BY DEF Connections
  <2>2. ListenedPool(0, fds) = InitialPool
    <3>1. 0 < connection_n /\ connection_n - 0 = connection_n
      BY ConnectionNAssumption
    <3>2. [c \in Connections |-> IF c >= 0 /\ c + 1 < connection_n THEN c + 1 ELSE Null] =
             [c \in Connections |-> IF c + 1 < connection_n THEN c + 1 ELSE Null]
      BY <2>1
    <3>3. [c \in Connections |-> IF c < 0 THEN fds[c + 1] ELSE NoFd] = [c \in Connections |-> NoFd]
      BY <2>1
    <3> QED BY <3>1, <3>2, <3>3 DEF ListenedPool, InitialPool
  <2>3. \A e \in Events : Listened(e, 0) = FALSE
    BY <2>1, EventParts DEF Listened
  <2>4. \A j \in Slots : ~ j < 0
    BY DEF Slots
  <2>5. ListenedSel(0, fds) = InitialSelect
    <3>1. [j \in Slots |-> IF j < 0 THEN ReadEvent(j) ELSE Null] = [j \in Slots |-> Null]
      BY <2>4
    <3>2. [e \in Events |-> Listened(e, 0)] = [e \in Events |-> FALSE]
      BY <2>3
    <3>3. [e \in Events |-> IF Listened(e, 0) THEN ConnectionOf(e) ELSE InvalidIndex] =
             [e \in Events |-> InvalidIndex]
      BY <2>3
    <3>4. [k \in Kinds |-> IF k = "read" THEN {fds[j] : j \in 1 .. 0} ELSE {}] = [k \in Kinds |-> {}]
      OBVIOUS
    <3> QED BY <3>1, <3>2, <3>3, <3>4 DEF ListenedSel, InitialSelect
  <2> QED BY <2>2, <2>5
<1>3. \A i \in 1 .. n : R(i) = ListenOn(fds[i], R(i - 1).pool, R(i - 1).sel)
  <2> TAKE i \in 1 .. n
  <2>1. ListenOn(fds[i], ListenedPool(i - 1, fds), ListenedSel(i - 1, fds)) = R(i)
    BY ListenOneMore
  <2> QED BY <2>1
<1> HIDE DEF R
<1>4. closed = Body(closed)
  <2>1. \A i \in 1 .. n : i - 1 \in 0 .. n /\ closed[i - 1] = R(i - 1)
    BY <1>1
  <2>2. \A i \in 0 .. n : R(i) = IF i = 0 THEN [pool |-> InitialPool, sel |-> InitialSelect]
                                 ELSE ListenOn(fds[i], closed[i - 1].pool, closed[i - 1].sel)
    <3> HIDE DEF closed
    <3> QED BY <1>1, <1>2, <1>3, <2>1
  <2> QED BY <2>2
<1>5. after = Body(after)
  <2> HIDE DEF closed, Body
  <2> QED BY <1>4
<1>6. ListenOnAll(n, fds) = after[n]
  BY DEF ListenOnAll
<1> HIDE DEF after
<1>7. \A i \in 0 .. n : after[i] = IF i = 0 THEN [pool |-> InitialPool, sel |-> InitialSelect]
                                   ELSE ListenOn(fds[i], after[i - 1].pool, after[i - 1].sel)
  BY <1>5
<1>8. \A i \in 0 .. n : after[i] = R(i)
  <2> DEFINE S == {i \in 0 .. n : after[i] = R(i)}
  <2>1. 0 \in S
    BY <1>1, <1>2, <1>7
  <2>2. ASSUME NEW i \in S, i < n PROVE i + 1 \in S
    <3>1. i \in Nat /\ i + 1 \in 0 .. n /\ i + 1 \in 1 .. n /\ i + 1 # 0 /\ (i + 1) - 1 = i
      BY <1>1, <2>2
    <3>2. after[i] = R(i)
      OBVIOUS
    <3>3. after[i + 1] = ListenOn(fds[i + 1], R(i).pool, R(i).sel)
      BY <1>7, <3>1, <3>2
    <3>4. R(i + 1) = ListenOn(fds[i + 1], R(i).pool, R(i).sel)
      BY <1>3, <3>1
    <3> QED BY <3>1, <3>3, <3>4
  <2>3. S \in SUBSET (0 .. n)
    OBVIOUS
  <2> HIDE DEF S
  <2>4. S = 0 .. n
    BY <1>1, <2>1, <2>2, <2>3, BoundedInduction
  <2> QED BY <2>4 DEF S
<1>9. after[n] = R(n)
  BY <1>1, <1>8
<1> QED BY <1>6, <1>9 DEF R


\* The slots of the listening sockets of g are the first ones.
SlotsOf(g) == [c \in Connections |-> IF c < Len(g) THEN g[c + 1].addr ELSE Null]

LEMMA ListenedPoolOK ==
    ASSUME NEW g \in GlobalType, Len(g) =< connection_n,
           NEW fds \in [1 .. Len(g) -> Fds \cup {NoFd}]
    PROVE  /\ ListenedPool(Len(g), fds) \in PoolType
           /\ SlotsOf(g) \in [Connections -> Addrs \cup {Null}]
           /\ \A c \in Connections : c \in NotListening(SlotsOf(g)) <=> c >= Len(g)
           /\ RunningList(ListenedPool(Len(g), fds), NotListening(SlotsOf(g)))
<1> DEFINE n == Len(g)
           m == connection_n - n
           p == ListenedPool(n, fds)
           A == NotListening(SlotsOf(g))
           s == [i \in 1 .. m |-> n + i - 1]
<1>1. /\ connection_n \in Nat /\ n \in Nat /\ n <= connection_n /\ m \in Nat
      /\ \A i \in 1 .. n : g[i].addr \in Addrs
  BY ConnectionNAssumption, GlobalParts
<1> HIDE DEF n
<1>2. \A c \in Connections : /\ c < n <=> ~ c >= n
                             /\ c < n => c + 1 \in 1 .. n
  BY <1>1 DEF Connections
<1>3. \A c \in Connections : SlotsOf(g)[c] = IF c < n THEN g[c + 1].addr ELSE Null
  BY DEF SlotsOf, n
<1>4. SlotsOf(g) \in [Connections -> Addrs \cup {Null}]
  <2>1. SlotsOf(g) = [c \in Connections |-> IF c < n THEN g[c + 1].addr ELSE Null]
    BY DEF SlotsOf, n
  <2> QED BY <1>1, <1>2, <2>1
<1>5. \A c \in Connections : c \in A <=> c >= n
  BY <1>1, <1>2, <1>3, ReloadAssumption DEF NotListening
<1>6. p \in PoolType
  <2>1. p.free_connections \in Connections \cup {Null}
    <3>1. p.free_connections = IF n < connection_n THEN n ELSE Null
      BY DEF ListenedPool
    <3> QED BY <1>1, <3>1 DEF Connections
  <2>2. p.free_connection_n \in 0 .. connection_n
    <3>1. p.free_connection_n = m
      BY DEF ListenedPool
    <3> QED BY <1>1, <3>1
  <2>3. p.data \in [Connections -> Connections \cup {Null, Request}]
    <3>1. p.data = [c \in Connections |-> IF c >= n /\ c + 1 < connection_n THEN c + 1 ELSE Null]
      BY DEF ListenedPool
    <3>2. \A c \in Connections : c + 1 < connection_n => c + 1 \in Connections
      BY <1>1 DEF Connections
    <3> QED BY <3>1, <3>2
  <2>4. p.fd \in [Connections -> Fds \cup {NoFd}]
    <3>1. p.fd = [c \in Connections |-> IF c < n THEN fds[c + 1] ELSE NoFd]
      BY DEF ListenedPool
    <3>2. \A c \in Connections : c < n => fds[c + 1] \in Fds \cup {NoFd}
      BY <1>2 DEF n
    <3> QED BY <3>1, <3>2
  <2>5. p = [ free_connections |-> p.free_connections, free_connection_n |-> p.free_connection_n,
              data |-> p.data, fd |-> p.fd ]
    BY DEF ListenedPool
  <2> HIDE DEF p
  <2> QED BY <2>1, <2>2, <2>3, <2>4, <2>5 DEF PoolType
<1>7. VisitsOnce(p, A, s)
  <2>1. p.free_connection_n = m
    BY DEF ListenedPool
  <2>2. p.free_connections = IF n < connection_n THEN n ELSE Null
    BY DEF ListenedPool
  <2>3. \A i \in 1 .. m : s[i] \in Connections /\ s[i] >= n /\ s[i] = n + i - 1
    BY <1>1 DEF Connections
  <2>4. \A c \in Connections : c >= n =>
           /\ ~ IsOpen(p, c)
           /\ p.data[c] = IF c + 1 < connection_n THEN c + 1 ELSE Null
    BY <1>2 DEF ListenedPool, IsOpen
  <2>5. s \in [1 .. m -> {c \in A : ~ IsOpen(p, c)}]
    <3>1. \A i \in 1 .. m : s[i] \in A /\ ~ IsOpen(p, s[i])
      <4> HIDE DEF s, p, A, m
      <4> QED BY <1>5, <2>3, <2>4
    <3> HIDE DEF p, A
    <3> QED BY <3>1
  <2>6. m # 0 => s[1] = n
    BY <1>1
  <2>7. \A i \in 1 .. m : i # m => s[i + 1] = n + i
    BY <1>1
  <2> HIDE DEF s, p, A
  <2>8. p.free_connections = IF m = 0 THEN Null ELSE s[1]
    BY <1>1, <2>2, <2>6
  <2>9. \A i \in 1 .. m : p.data[s[i]] = IF i = m THEN Null ELSE s[i + 1]
    BY <1>1, <2>3, <2>4, <2>7
  <2>10. \A i, j \in 1 .. m : s[i] = s[j] => i = j
    BY <1>1, <2>3
  <2> HIDE DEF m
  <2> QED BY <2>1, <2>5, <2>8, <2>9, <2>10 DEF VisitsOnce
<1> QED BY <1>4, <1>5, <1>6, <1>7, RunningListVisits DEF n


\* The tables once the bit of "no descriptor" is left out.
ListenedTable(s, n, fds) ==
    /\ s.max_fd = NoFd /\ s.nevents = n
    /\ s.event_index = [j \in Slots |-> IF j < n THEN ReadEvent(j) ELSE Null]
    /\ s.active = [e \in Events |-> Listened(e, n)]
    /\ s.index = [e \in Events |-> IF Listened(e, n) THEN ConnectionOf(e) ELSE InvalidIndex]
    /\ s.master = [kind \in Kinds |->
                      IF kind = "read" THEN {fds[j] : j \in 1 .. n} \ {NoFd} ELSE {}]
    /\ s = [ max_fd |-> s.max_fd, nevents |-> s.nevents, event_index |-> s.event_index,
             active |-> s.active, index |-> s.index, master |-> s.master ]

LEMMA ListenedTableIs ==
    ASSUME NEW n, NEW fds, NEW s, s = [ListenedSel(n, fds) EXCEPT !.master["read"] = @ \ {NoFd}]
    PROVE  ListenedTable(s, n, fds)
BY DEF ListenedSel, ListenedTable

DescriptorsAre(fds, g) == fds = [i \in DOMAIN g |-> g[i].fd]

\* Every bit that is set stands for the listening socket of a slot.
LEMMA ListenersWatched ==
    ASSUME NEW g \in GlobalType, NEW k \in SockType, SocketsOK(g, k), Len(g) =< connection_n,
           NEW fds, DescriptorsAre(fds, g),
           NEW p, \A c \in Connections : p.fd[c] = IF c < Len(g) THEN fds[c + 1] ELSE NoFd,
           NEW s, ListenedTable(s, Len(g), fds)
    PROVE  s \in SelectType /\ WatchOK(s, p, k, SlotsOf(g))
<1> DEFINE n == Len(g)
           L == SlotsOf(g)
<1>1. /\ connection_n \in Nat /\ n \in Nat /\ n <= connection_n /\ DOMAIN g = 1 .. n
      /\ \A i \in 1 .. n : /\ g[i].addr \in Addrs /\ g[i].fd \in Fds \cup {NoFd}
                           /\ fds[i] = g[i].fd
                           /\ fds[i] # NoFd => k[fds[i]] = g[i].addr
  BY ConnectionNAssumption, GlobalParts DEF SocketsOK, DescriptorsAre
<1>2. fds \in [1 .. n -> Fds \cup {NoFd}]
  BY <1>1 DEF DescriptorsAre
<1>3. /\ \A c \in Connections : L[c] = Null <=> c >= n
      /\ \A c \in Connections : c < n => c + 1 \in 1 .. n /\ L[c] = g[c + 1].addr
      /\ \A c \in Connections : c < n <=> ~ c >= n
  <2>1. \A c \in Connections : L[c] = Null <=> c >= n
    BY <1>1, <1>2, ListenedPoolOK DEF NotListening
  <2>2. \A c \in Connections : L[c] = IF c < n THEN g[c + 1].addr ELSE Null
    BY DEF SlotsOf
  <2> HIDE DEF n
  <2> QED BY <1>1, <2>1, <2>2 DEF Connections
<1> HIDE DEF n, L
<1>4. \A c \in Connections : p.fd[c] = IF c < n THEN fds[c + 1] ELSE NoFd
  BY DEF n
<1>5. /\ s.max_fd = NoFd /\ s.nevents = n
      /\ \A j \in Slots : s.event_index[j] = IF j < n THEN ReadEvent(j) ELSE Null
      /\ \A e \in Events : s.active[e] <=> Listened(e, n)
      /\ \A e \in Events : s.index[e] = IF Listened(e, n) THEN ConnectionOf(e) ELSE InvalidIndex
      /\ \A kind \in Kinds : \A f \in s.master[kind] : kind = "read" /\ \E j \in 1 .. n : f = fds[j]
  BY DEF ListenedTable, n
<1>6. \A j \in 0 .. n - 1 : j \in Connections /\ j \in Slots /\ j < n /\ ReadEvent(j) \in Events
  <2>1. \A j \in 0 .. n - 1 : j \in Connections /\ j \in Slots /\ j < n
    BY <1>1 DEF Connections, Slots
  <2> QED BY <2>1, EventsOfSlot
<1>7. \A e \in Events : ConnectionOf(e) \in Slots /\ ConnectionOf(e) \in Connections
  <2>1. Connections \subseteq Slots
    BY <1>1 DEF Connections, Slots
  <2> QED BY <2>1, EventParts
<1>8. s \in SelectType
  <2>1. s.nevents \in 0 .. 2 * connection_n
    BY <1>1, <1>5
  <2>2. s.event_index \in [Slots -> Events \cup {Null}]
    <3>1. \A j \in Slots : j < n => j \in 0 .. n - 1
      BY <1>1 DEF Slots
    <3>2. s.event_index = [j \in Slots |-> IF j < n THEN ReadEvent(j) ELSE Null]
      BY DEF ListenedTable, n
    <3> QED BY <1>6, <3>1, <3>2
  <2>3. s.active \in [Events -> BOOLEAN]
    BY DEF ListenedTable, Listened
  <2>4. s.index \in [Events -> Slots \cup {InvalidIndex}]
    <3>1. s.index = [e \in Events |-> IF Listened(e, n) THEN ConnectionOf(e) ELSE InvalidIndex]
      BY DEF ListenedTable, n
    <3> QED BY <1>7, <3>1
  <2>5. s.master \in [Kinds -> SUBSET Fds]
    <3>1. {fds[j] : j \in 1 .. n} \ {NoFd} \subseteq Fds
      BY <1>2
    <3>2. s.master = [kind \in Kinds |->
                        IF kind = "read" THEN {fds[j] : j \in 1 .. n} \ {NoFd} ELSE {}]
      BY DEF ListenedTable, n
    <3> QED BY <3>1, <3>2
  <2>6. s = [ max_fd |-> s.max_fd, nevents |-> s.nevents, event_index |-> s.event_index,
              active |-> s.active, index |-> s.index, master |-> s.master ]
    BY DEF ListenedTable
  <2> QED BY <1>5, <2>1, <2>2, <2>3, <2>4, <2>5, <2>6 DEF SelectType
<1>9. TableOK(s)
  <2>1. ASSUME NEW i \in 0 .. s.nevents - 1
        PROVE  /\ s.event_index[i] \in Events
               /\ s.active[s.event_index[i]]
               /\ s.index[s.event_index[i]] = i
    <3>1. i \in 0 .. n - 1
      BY <1>5
    <3>2. s.event_index[i] = ReadEvent(i) /\ ReadEvent(i) \in Events
      BY <1>5, <1>6, <3>1
    <3>3. KindOf(ReadEvent(i)) = "read" /\ ConnectionOf(ReadEvent(i)) = i
      BY DEF KindOf, ConnectionOf, ReadEvent
    <3>4. Listened(ReadEvent(i), n)
      BY <1>6, <3>1, <3>3 DEF Listened
    <3> QED BY <1>5, <3>2, <3>3, <3>4
  <2>2. ASSUME NEW e \in Events
        PROVE  IF s.active[e]
               THEN s.index[e] \in 0 .. s.nevents - 1 /\ s.event_index[s.index[e]] = e
               ELSE s.index[e] = InvalidIndex
    <3>1. s.active[e] <=> Listened(e, n)
      BY <1>5
    <3>2. CASE ~ Listened(e, n)
      BY <1>5, <3>1, <3>2
    <3>3. CASE Listened(e, n)
      <4>1. s.index[e] = ConnectionOf(e) /\ ConnectionOf(e) < n /\ KindOf(e) = "read"
        BY <1>5, <3>3 DEF Listened
      <4>2. ConnectionOf(e) \in 0 .. n - 1
        BY <1>1, <1>7, <4>1 DEF Connections
      <4>3. s.event_index[ConnectionOf(e)] = ReadEvent(ConnectionOf(e))
        BY <1>5, <1>6, <4>2
      <4>4. e = ReadEvent(ConnectionOf(e))
        BY <4>1, EventParts DEF ReadEvent
      <4> QED BY <1>5, <3>1, <3>3, <4>1, <4>2, <4>3, <4>4
    <3> QED BY <3>2, <3>3
  <2> QED BY <2>1, <2>2 DEF TableOK
<1>10. \A e \in Events : s.active[e] => L[ConnectionOf(e)] # Null
  BY <1>3, <1>5, <1>7 DEF Listened
<1>11. \A c \in NotListening(L) : ~ IsOpen(p, c)
  BY <1>3, <1>4 DEF NotListening, IsOpen
<1>12. BitsOK(s, p, k, L)
  <2> SUFFICES ASSUME NEW kind \in Kinds, NEW f \in Fds, f \in s.master[kind]
               PROVE  \E c \in Connections :
                         /\ p.fd[c] = f
                         /\ s.active[<<c, kind>>]
                         /\ IF L[c] = Null THEN k[f] = "deaf" ELSE k[f] \in {"free", L[c]}
    BY DEF BitsOK
  <2>1. kind = "read" /\ \E j \in 1 .. n : f = fds[j]
    BY <1>5
  <2>2. PICK j \in 1 .. n : f = fds[j]
    BY <2>1
  <2> DEFINE c == j - 1
  <2>3. c \in 0 .. n - 1 /\ c + 1 = j
    BY <1>1
  <2> HIDE DEF c
  <2>4. c \in Connections /\ c < n /\ p.fd[c] = f
    BY <1>4, <1>6, <2>2, <2>3
  <2>5. s.active[<<c, kind>>]
    <3>1. <<c, kind>> \in Events /\ ConnectionOf(<<c, kind>>) = c /\ KindOf(<<c, kind>>) = kind
      BY <2>4, EventParts
    <3> QED BY <1>5, <2>1, <2>4, <3>1 DEF Listened
  <2>6. L[c] # Null /\ k[f] = L[c]
    <3>1. f # NoFd
      BY FdsAssumption DEF NoFd
    <3> QED BY <1>1, <1>3, <2>2, <2>3, <2>4, <3>1
  <2> QED BY <2>4, <2>5, <2>6
<1>13. ClientsOK(p, k, L)
  BY <1>11 DEF ClientsOK
<1>14. WatchOK(s, p, k, L)
  BY <1>5, <1>8, <1>9, <1>10, <1>12, <1>13 DEF WatchOK
<1> QED BY <1>8, <1>14 DEF L


-----------------------------------------------------------------------------
(* What the operations on the tables keep of WatchOK.                        *)

\* The pool only matters by the descriptors of its slots.
LEMMA WatchSameFds ==
    ASSUME NEW s, NEW p, NEW q, NEW k, NEW L, WatchOK(s, p, k, L), q.fd = p.fd
    PROVE  WatchOK(s, q, k, L)
BY DEF WatchOK, ClientsOK, BitsOK, IsOpen

\* A client's descriptor is no listening socket's and no other client's.
LEMMA ClientFd ==
    ASSUME NEW p \in PoolType, NEW k, NEW L, ClientsOK(p, k, L),
           NEW c \in NotListening(L), IsOpen(p, c)
    PROVE  p.fd[c] \in Fds /\ k[p.fd[c]] = "deaf"
BY DEF ClientsOK, IsOpen, PoolType, NotListening

\* Watching an event of a client.
LEMMA WatchAdd ==
    ASSUME NEW s, NEW p \in PoolType, NEW k, NEW L, WatchOK(s, p, k, L),
           NEW e \in Events, L[ConnectionOf(e)] = Null, IsOpen(p, ConnectionOf(e)),
           NEW t, t = AddEvent(s, e, p.fd[ConnectionOf(e)])
    PROVE  WatchOK(t, p, k, L) /\ (BitsLive(s, k) => BitsLive(t, k))
<1> DEFINE c == ConnectionOf(e)
           f == p.fd[c]
<1>1. CASE s.index[e] # InvalidIndex
  <2>1. t = s
    BY <1>1 DEF AddEvent
  <2> QED BY <2>1
<1>2. CASE s.index[e] = InvalidIndex
  <2>1. /\ s \in SelectType /\ TableOK(s) /\ ClientsOK(p, k, L) /\ BitsOK(s, p, k, L)
        /\ \A d \in Events : s.active[d] => IsOpen(p, ConnectionOf(d)) \/ L[ConnectionOf(d)] # Null
        /\ \A d \in Events : s.active[d] /\ L[ConnectionOf(d)] = Null
                                => p.fd[ConnectionOf(d)] \in s.master[KindOf(d)]
        /\ s.max_fd # NoFd => \A kind \in Kinds, g \in Fds : g \in s.master[kind] => g =< s.max_fd
    BY DEF WatchOK
  <2>2. c \in Connections /\ KindOf(e) \in Kinds /\ c \in NotListening(L) /\ e = <<c, KindOf(e)>>
    BY EventParts DEF NotListening
  <2>3. f \in Fds /\ k[f] = "deaf"
    BY <2>1, <2>2, ClientFd
  <2>4. EventAdded(t, s, e, f)
    BY <1>2, <2>1, <2>3, AddEventTable
  <2> HIDE DEF f
  <2>5. /\ t \in SelectType /\ TableOK(t)
        /\ t.max_fd = IF s.max_fd # NoFd /\ s.max_fd < f THEN f ELSE s.max_fd
        /\ \A d \in Events : t.active[d] <=> s.active[d] \/ d = e
        /\ \A kind \in Kinds : t.master[kind] = IF kind = KindOf(e) THEN s.master[kind] \cup {f}
                                                                    ELSE s.master[kind]
    BY <2>4 DEF EventAdded
  <2>6. \A d \in Events : t.active[d] => IsOpen(p, ConnectionOf(d)) \/ L[ConnectionOf(d)] # Null
    BY <2>1, <2>5
  <2>7. BitsOK(t, p, k, L)
    <3> SUFFICES ASSUME NEW kind \in Kinds, NEW g \in Fds, g \in t.master[kind]
                 PROVE  \E x \in Connections :
                           /\ p.fd[x] = g
                           /\ t.active[<<x, kind>>]
                           /\ IF L[x] = Null THEN k[g] = "deaf" ELSE k[g] \in {"free", L[x]}
      BY DEF BitsOK
    <3>1. CASE g \in s.master[kind]
      <4>1. PICK x \in Connections :
               /\ p.fd[x] = g
               /\ s.active[<<x, kind>>]
               /\ IF L[x] = Null THEN k[g] = "deaf" ELSE k[g] \in {"free", L[x]}
        BY <2>1, <3>1 DEF BitsOK
      <4>2. t.active[<<x, kind>>]
        BY <2>5, <4>1, EventParts
      <4> QED BY <4>1, <4>2
    <3>2. CASE g \notin s.master[kind]
      <4>1. kind = KindOf(e) /\ g = f
        BY <2>5, <3>2
      <4>2. t.active[<<c, kind>>]
        BY <2>2, <2>5, <4>1
      <4>3. p.fd[c] = g /\ L[c] = Null /\ k[g] = "deaf"
        BY <2>3, <4>1 DEF f
      <4> HIDE DEF c
      <4> QED BY <2>2, <4>2, <4>3
    <3> QED BY <3>1, <3>2
  <2>8. \A d \in Events : t.active[d] /\ L[ConnectionOf(d)] = Null
                             => p.fd[ConnectionOf(d)] \in t.master[KindOf(d)]
    <3> TAKE d \in Events
    <3>1. KindOf(d) \in Kinds
      BY EventParts
    <3>2. CASE d = e
      BY <2>5, <3>1, <3>2 DEF f
    <3>3. CASE d # e
      BY <2>1, <2>5, <3>1, <3>3
    <3> QED BY <3>2, <3>3
  <2>9. t.max_fd # NoFd => \A kind \in Kinds, g \in Fds : g \in t.master[kind] => g =< t.max_fd
    <3> SUFFICES ASSUME t.max_fd # NoFd, NEW kind \in Kinds, NEW g \in Fds, g \in t.master[kind]
                 PROVE  g =< t.max_fd
      OBVIOUS
    <3>1. s.max_fd # NoFd /\ s.max_fd \in Nat /\ f \in Nat /\ g \in Nat
      BY <2>1, <2>3, <2>5, FdsAssumption DEF SelectType
    <3>2. g =< s.max_fd \/ g = f
      BY <2>1, <2>5, <3>1
    <3> QED BY <2>5, <3>1, <3>2
  <2>10. WatchOK(t, p, k, L)
    BY <2>1, <2>5, <2>6, <2>7, <2>8, <2>9 DEF WatchOK
  <2>11. BitsLive(s, k) => BitsLive(t, k)
    BY <2>3, <2>5 DEF BitsLive
  <2> QED BY <2>10, <2>11
<1> QED BY <1>1, <1>2

(* Deleting an event of a client, if it is watched: its descriptor leaves    *)
(* the set, no other does.                                                   *)
Unwatched(t, s, e, f) ==
    /\ ~ t.active[e] /\ f \notin t.master[KindOf(e)]
    /\ \A d \in Events : d # e => (t.active[d] <=> s.active[d])
    /\ \A kind \in Kinds : t.master[kind] \subseteq s.master[kind]

LEMMA WatchDel ==
    ASSUME NEW s, NEW p \in PoolType, NEW k,
           NEW L \in [Connections -> Addrs \cup {Null}], WatchOK(s, p, k, L),
           NEW e \in Events, L[ConnectionOf(e)] = Null, IsOpen(p, ConnectionOf(e)),
           NEW t, t = DelIfActive(s, e, p.fd[ConnectionOf(e)])
    PROVE  WatchOK(t, p, k, L) /\ Unwatched(t, s, e, p.fd[ConnectionOf(e)])
<1> DEFINE c == ConnectionOf(e)
           f == p.fd[c]
<1>1. /\ s \in SelectType /\ TableOK(s) /\ ClientsOK(p, k, L) /\ BitsOK(s, p, k, L)
      /\ \A d \in Events : s.active[d] => IsOpen(p, ConnectionOf(d)) \/ L[ConnectionOf(d)] # Null
      /\ \A d \in Events : s.active[d] /\ L[ConnectionOf(d)] = Null
                              => p.fd[ConnectionOf(d)] \in s.master[KindOf(d)]
      /\ s.max_fd # NoFd => \A kind \in Kinds, g \in Fds : g \in s.master[kind] => g =< s.max_fd
  BY DEF WatchOK
<1>2. c \in Connections /\ KindOf(e) \in Kinds /\ c \in NotListening(L) /\ e = <<c, KindOf(e)>>
  BY EventParts DEF NotListening
<1>3. f \in Fds /\ k[f] = "deaf"
  BY <1>1, <1>2, ClientFd
<1>4. \A x \in NotListening(L) : IsOpen(p, x) /\ p.fd[x] = f => x = c
  BY <1>1, <1>2 DEF ClientsOK
<1>5. CASE ~ s.active[e]
  <2>1. t = s
    BY <1>5 DEF DelIfActive
  <2>2. f \notin s.master[KindOf(e)]
    <3> SUFFICES ASSUME f \in s.master[KindOf(e)] PROVE FALSE
      OBVIOUS
    <3>0. BitsOK(s, p, k, L) /\ KindOf(e) \in Kinds /\ f \in Fds
      BY <1>1, <1>2, <1>3
    <3> HIDE DEF f, c
    <3>1. PICK x \in Connections :
             /\ p.fd[x] = f
             /\ s.active[<<x, KindOf(e)>>]
             /\ IF L[x] = Null THEN k[f] = "deaf" ELSE k[f] \in {"free", L[x]}
      BY <3>0 DEF BitsOK
    <3>2. L[x] = Null => IsOpen(p, x) /\ x \in NotListening(L)
      BY <1>1, <3>1, EventParts DEF NotListening
    <3>3. x # c
      BY <1>2, <1>5, <3>1
    <3>4. L[x] # Null /\ L[x] = "deaf"
      BY <1>3, <1>4, <3>1, <3>2, <3>3
    <3> QED BY <3>4, GlobalAssumption
  <2> QED BY <1>5, <2>1, <2>2 DEF Unwatched
<1>6. CASE s.active[e]
  <2>1. s.index[e] # InvalidIndex /\ t = DelEvent(s, e, f)
    BY <1>1, <1>6 DEF TableOK, InvalidIndex, DelIfActive
  <2>2. EventDeleted(t, s, e, f)
    BY <1>1, <1>3, <2>1, DelEventTable
  <2> HIDE DEF f, c
  <2>3. /\ t \in SelectType /\ TableOK(t)
        /\ t.max_fd = IF s.max_fd = f THEN NoFd ELSE s.max_fd
        /\ \A d \in Events : t.active[d] <=> s.active[d] /\ d # e
        /\ \A kind \in Kinds : t.master[kind] = IF kind = KindOf(e) THEN s.master[kind] \ {f}
                                                                    ELSE s.master[kind]
    BY <2>2 DEF EventDeleted
  <2>4. \A d \in Events : t.active[d] => IsOpen(p, ConnectionOf(d)) \/ L[ConnectionOf(d)] # Null
    BY <1>1, <2>3
  <2>5. BitsOK(t, p, k, L)
    <3> SUFFICES ASSUME NEW kind \in Kinds, NEW g \in Fds, g \in t.master[kind]
                 PROVE  \E x \in Connections :
                           /\ p.fd[x] = g
                           /\ t.active[<<x, kind>>]
                           /\ IF L[x] = Null THEN k[g] = "deaf" ELSE k[g] \in {"free", L[x]}
      BY DEF BitsOK
    <3>1. g \in s.master[kind] /\ (kind = KindOf(e) => g # f)
      BY <2>3
    <3>2. PICK x \in Connections :
             /\ p.fd[x] = g
             /\ s.active[<<x, kind>>]
             /\ IF L[x] = Null THEN k[g] = "deaf" ELSE k[g] \in {"free", L[x]}
      BY <1>1, <3>1 DEF BitsOK
    <3>3. <<x, kind>> # e
      BY <1>2, <3>1, <3>2 DEF f
    <3>4. t.active[<<x, kind>>]
      BY <2>3, <3>2, <3>3, EventParts
    <3> QED BY <3>2, <3>4
  <2>6. \A d \in Events : t.active[d] /\ L[ConnectionOf(d)] = Null
                             => p.fd[ConnectionOf(d)] \in t.master[KindOf(d)]
    <3> SUFFICES ASSUME NEW d \in Events, t.active[d], L[ConnectionOf(d)] = Null
                 PROVE  p.fd[ConnectionOf(d)] \in t.master[KindOf(d)]
      OBVIOUS
    <3>1. KindOf(d) \in Kinds /\ ConnectionOf(d) \in NotListening(L)
          /\ d = <<ConnectionOf(d), KindOf(d)>>
      BY EventParts DEF NotListening
    <3>2. s.active[d] /\ d # e /\ IsOpen(p, ConnectionOf(d))
          /\ p.fd[ConnectionOf(d)] \in s.master[KindOf(d)]
      BY <1>1, <2>3
    <3>3. KindOf(d) = KindOf(e) => p.fd[ConnectionOf(d)] # f
      BY <1>2, <1>4, <3>1, <3>2
    <3> QED BY <2>3, <3>1, <3>2, <3>3
  <2>7. t.max_fd # NoFd => \A kind \in Kinds, g \in Fds : g \in t.master[kind] => g =< t.max_fd
    BY <1>1, <2>3
  <2>8. WatchOK(t, p, k, L)
    BY <1>1, <2>3, <2>4, <2>5, <2>6, <2>7 DEF WatchOK
  <2>9. Unwatched(t, s, e, f)
    BY <1>2, <2>3 DEF Unwatched
  <2> QED BY <2>8, <2>9 DEF f, c
<1> QED BY <1>5, <1>6


\* Deleting both events of a client before its socket is closed.
LEMMA WatchStop ==
    ASSUME NEW s, NEW p \in PoolType, NEW k,
           NEW L \in [Connections -> Addrs \cup {Null}], WatchOK(s, p, k, L),
           NEW c \in Connections, L[c] = Null, IsOpen(p, c),
           NEW t, t = StopWatching(s, c, p)
    PROVE  /\ WatchOK(t, p, k, L)
           /\ \A e \in Events : ConnectionOf(e) = c => ~ t.active[e]
           /\ \A kind \in Kinds : p.fd[c] \notin t.master[kind] /\ t.master[kind] \subseteq s.master[kind]
<1> DEFINE f == p.fd[c]
           r == DelIfActive(s, ReadEvent(c), f)
<1>1. t = DelIfActive(r, WriteEvent(c), f)
  BY DEF StopWatching
<1>2. /\ ReadEvent(c) \in Events /\ WriteEvent(c) \in Events /\ ReadEvent(c) # WriteEvent(c)
      /\ ConnectionOf(ReadEvent(c)) = c /\ ConnectionOf(WriteEvent(c)) = c
      /\ \A e \in Events : ConnectionOf(e) = c => e \in {ReadEvent(c), WriteEvent(c)}
  BY EventsOfSlot DEF EventsOf
<1>3. WatchOK(r, p, k, L) /\ Unwatched(r, s, ReadEvent(c), f)
  BY <1>2, WatchDel
<1>4. WatchOK(t, p, k, L) /\ Unwatched(t, r, WriteEvent(c), f)
  <2> HIDE DEF r
  <2> QED BY <1>1, <1>2, <1>3, WatchDel
<1>5. KindOf(ReadEvent(c)) = "read" /\ KindOf(WriteEvent(c)) = "write" /\ Kinds = {"read", "write"}
  BY DEF KindOf, ReadEvent, WriteEvent, Kinds
<1> HIDE DEF r, f
<1>6. \A e \in Events : ConnectionOf(e) = c => ~ t.active[e]
  BY <1>2, <1>3, <1>4 DEF Unwatched
<1>7. \A kind \in Kinds : f \notin t.master[kind] /\ t.master[kind] \subseteq s.master[kind]
  BY <1>3, <1>4, <1>5 DEF Unwatched
<1> QED BY <1>4, <1>6, <1>7 DEF f

\* Closing a client none of whose events is watched.
LEMMA WatchClose ==
    ASSUME NEW s, NEW p \in PoolType, NEW k \in SockType,
           NEW L \in [Connections -> Addrs \cup {Null}], WatchOK(s, p, k, L),
           NEW c \in Connections, L[c] = Null, IsOpen(p, c),
           \A e \in Events : ConnectionOf(e) = c => ~ s.active[e],
           \A kind \in Kinds : p.fd[c] \notin s.master[kind],
           NEW q, \A x \in Connections : q.fd[x] = IF x = c THEN NoFd ELSE p.fd[x],
           NEW m, \A f \in Fds : m[f] = IF f = p.fd[c] THEN "free" ELSE k[f]
    PROVE  WatchOK(s, q, m, L) /\ (BitsLive(s, k) => BitsLive(s, m))
<1>1. /\ s \in SelectType /\ TableOK(s) /\ ClientsOK(p, k, L) /\ BitsOK(s, p, k, L)
      /\ \A d \in Events : s.active[d] => IsOpen(p, ConnectionOf(d)) \/ L[ConnectionOf(d)] # Null
      /\ \A d \in Events : s.active[d] /\ L[ConnectionOf(d)] = Null
                              => p.fd[ConnectionOf(d)] \in s.master[KindOf(d)]
      /\ s.max_fd # NoFd => \A kind \in Kinds, g \in Fds : g \in s.master[kind] => g =< s.max_fd
  BY DEF WatchOK
<1>2. c \in NotListening(L)
  BY DEF NotListening
<1>3. \A d \in Events : s.active[d] => /\ ConnectionOf(d) \in Connections /\ ConnectionOf(d) # c
                                       /\ q.fd[ConnectionOf(d)] = p.fd[ConnectionOf(d)]
  BY EventParts
<1>4. ClientsOK(q, m, L)
  <2> SUFFICES ASSUME NEW x \in NotListening(L), IsOpen(q, x)
               PROVE  /\ m[q.fd[x]] = "deaf"
                      /\ \A d \in NotListening(L) : q.fd[x] = q.fd[d] => x = d
    BY DEF ClientsOK
  <2>1. x \in Connections /\ x # c /\ q.fd[x] = p.fd[x] /\ IsOpen(p, x)
    BY DEF NotListening, IsOpen
  <2>2. p.fd[x] \in Fds /\ k[p.fd[x]] = "deaf"
    BY <1>1, <2>1, ClientFd
  <2>3. \A d \in NotListening(L) : p.fd[x] = p.fd[d] => x = d
    BY <1>1, <2>1 DEF ClientsOK
  <2>4. p.fd[x] # p.fd[c] /\ p.fd[x] # NoFd
    BY <1>2, <2>1, <2>3 DEF IsOpen
  <2>5. \A d \in NotListening(L) : q.fd[x] = q.fd[d] => x = d
    BY <2>1, <2>3, <2>4 DEF NotListening
  <2> QED BY <2>1, <2>2, <2>4, <2>5
<1>5. BitsOK(s, q, m, L)
  <2> SUFFICES ASSUME NEW kind \in Kinds, NEW g \in Fds, g \in s.master[kind]
               PROVE  \E x \in Connections :
                         /\ q.fd[x] = g
                         /\ s.active[<<x, kind>>]
                         /\ IF L[x] = Null THEN m[g] = "deaf" ELSE m[g] \in {"free", L[x]}
    BY DEF BitsOK
  <2>1. PICK x \in Connections :
           /\ p.fd[x] = g
           /\ s.active[<<x, kind>>]
           /\ IF L[x] = Null THEN k[g] = "deaf" ELSE k[g] \in {"free", L[x]}
    BY <1>1 DEF BitsOK
  <2>2. x # c /\ q.fd[x] = p.fd[x]
    BY <1>3, <2>1, EventParts
  <2>3. m[g] = k[g]
    OBVIOUS
  <2> QED BY <2>1, <2>2, <2>3
<1>6. /\ \A d \in Events : s.active[d] => IsOpen(q, ConnectionOf(d)) \/ L[ConnectionOf(d)] # Null
      /\ \A d \in Events : s.active[d] /\ L[ConnectionOf(d)] = Null
                              => q.fd[ConnectionOf(d)] \in s.master[KindOf(d)]
  BY <1>1, <1>3 DEF IsOpen
<1>7. BitsLive(s, k) => BitsLive(s, m)
  BY DEF BitsLive
<1> QED BY <1>1, <1>4, <1>5, <1>6, <1>7 DEF WatchOK

\* A slot is given to a socket just accepted, whose number was free: no bit is
\* left of the last socket that had it.
LEMMA WatchOpen ==
    ASSUME NEW s, NEW p \in PoolType, NEW k \in SockType,
           NEW L \in [Connections -> Addrs \cup {Null}], WatchOK(s, p, k, L), BitsLive(s, k),
           NEW c \in Connections, L[c] = Null, ~ IsOpen(p, c),
           NEW f \in Fds, k[f] = "free",
           NEW q, \A x \in Connections : q.fd[x] = IF x = c THEN f ELSE p.fd[x],
           NEW m, \A g \in Fds : m[g] = IF g = f THEN "deaf" ELSE k[g]
    PROVE  WatchOK(s, q, m, L) /\ BitsLive(s, m)
<1>1. /\ s \in SelectType /\ TableOK(s) /\ ClientsOK(p, k, L) /\ BitsOK(s, p, k, L)
      /\ \A d \in Events : s.active[d] => IsOpen(p, ConnectionOf(d)) \/ L[ConnectionOf(d)] # Null
      /\ \A d \in Events : s.active[d] /\ L[ConnectionOf(d)] = Null
                              => p.fd[ConnectionOf(d)] \in s.master[KindOf(d)]
      /\ s.max_fd # NoFd => \A kind \in Kinds, g \in Fds : g \in s.master[kind] => g =< s.max_fd
  BY DEF WatchOK
<1>2. \A d \in Events : s.active[d] => /\ ConnectionOf(d) \in Connections /\ ConnectionOf(d) # c
                                       /\ q.fd[ConnectionOf(d)] = p.fd[ConnectionOf(d)]
  BY <1>1, EventParts
<1>3. ClientsOK(q, m, L)
  <2>1. \A x \in NotListening(L) : x \in Connections
    BY DEF NotListening
  <2>2. \A x \in NotListening(L) : x # c /\ IsOpen(q, x) =>
           /\ IsOpen(p, x) /\ q.fd[x] = p.fd[x] /\ p.fd[x] \in Fds
           /\ k[p.fd[x]] = "deaf" /\ p.fd[x] # f
    BY <1>1, <2>1, ClientFd DEF IsOpen
  <2>3. \A x, d \in NotListening(L) : IsOpen(p, x) /\ p.fd[x] = p.fd[d] => x = d
    BY <1>1 DEF ClientsOK
  <2>4. \A x \in NotListening(L) : IsOpen(q, x) => m[q.fd[x]] = "deaf"
    BY <2>1, <2>2
  <2>5. \A x, d \in NotListening(L) : IsOpen(q, x) /\ q.fd[x] = q.fd[d] => x = d
    <3> TAKE x, d \in NotListening(L)
    <3> HAVE IsOpen(q, x) /\ q.fd[x] = q.fd[d]
    <3>1. IsOpen(q, d)
      BY DEF IsOpen
    <3> QED BY <2>1, <2>2, <2>3, <3>1
  <2> QED BY <2>4, <2>5 DEF ClientsOK
<1>4. BitsOK(s, q, m, L)
  <2> SUFFICES ASSUME NEW kind \in Kinds, NEW g \in Fds, g \in s.master[kind]
               PROVE  \E x \in Connections :
                         /\ q.fd[x] = g
                         /\ s.active[<<x, kind>>]
                         /\ IF L[x] = Null THEN m[g] = "deaf" ELSE m[g] \in {"free", L[x]}
    BY DEF BitsOK
  <2>1. PICK x \in Connections :
           /\ p.fd[x] = g
           /\ s.active[<<x, kind>>]
           /\ IF L[x] = Null THEN k[g] = "deaf" ELSE k[g] \in {"free", L[x]}
    BY <1>1 DEF BitsOK
  <2>2. x # c /\ q.fd[x] = p.fd[x]
    BY <1>2, <2>1, EventParts
  <2>3. m[g] = k[g]
    BY DEF BitsLive
  <2> QED BY <2>1, <2>2, <2>3
<1>5. /\ \A d \in Events : s.active[d] => IsOpen(q, ConnectionOf(d)) \/ L[ConnectionOf(d)] # Null
      /\ \A d \in Events : s.active[d] /\ L[ConnectionOf(d)] = Null
                              => q.fd[ConnectionOf(d)] \in s.master[KindOf(d)]
  BY <1>1, <1>2 DEF IsOpen
<1>6. BitsLive(s, m)
  BY DEF BitsLive
<1> QED BY <1>1, <1>3, <1>4, <1>5, <1>6 DEF WatchOK


\* Sockets that listened may be closed, and free descriptors be given out,
\* once select(2) has dropped the bits of those that were closed before.
LEMMA WatchSockets ==
    ASSUME NEW s, NEW p \in PoolType, NEW k \in SockType, NEW L, WatchOK(s, p, k, L),
           BitsLive(s, k), NEW m,
           \A f \in Fds : k[f] # "free" => m[f] = k[f] \/ (k[f] # "deaf" /\ m[f] = "free")
    PROVE  WatchOK(s, p, m, L)
<1>1. /\ s \in SelectType /\ TableOK(s) /\ ClientsOK(p, k, L) /\ BitsOK(s, p, k, L)
      /\ \A d \in Events : s.active[d] => IsOpen(p, ConnectionOf(d)) \/ L[ConnectionOf(d)] # Null
      /\ \A d \in Events : s.active[d] /\ L[ConnectionOf(d)] = Null
                              => p.fd[ConnectionOf(d)] \in s.master[KindOf(d)]
      /\ s.max_fd # NoFd => \A kind \in Kinds, g \in Fds : g \in s.master[kind] => g =< s.max_fd
  BY DEF WatchOK
<1>2. ClientsOK(p, m, L)
  <2>1. \A x \in NotListening(L) : IsOpen(p, x) => p.fd[x] \in Fds /\ k[p.fd[x]] = "deaf"
    BY <1>1, ClientFd
  <2> QED BY <1>1, <2>1 DEF ClientsOK
<1>3. BitsOK(s, p, m, L)
  <2> SUFFICES ASSUME NEW kind \in Kinds, NEW g \in Fds, g \in s.master[kind]
               PROVE  \E x \in Connections :
                         /\ p.fd[x] = g
                         /\ s.active[<<x, kind>>]
                         /\ IF L[x] = Null THEN m[g] = "deaf" ELSE m[g] \in {"free", L[x]}
    BY DEF BitsOK
  <2>1. PICK x \in Connections :
           /\ p.fd[x] = g
           /\ s.active[<<x, kind>>]
           /\ IF L[x] = Null THEN k[g] = "deaf" ELSE k[g] \in {"free", L[x]}
    BY <1>1 DEF BitsOK
  <2>2. k[g] # "free"
    BY DEF BitsLive
  <2> QED BY <2>1, <2>2
<1> QED BY <1>1, <1>2, <1>3 DEF WatchOK

(* select(2): every bit is offered to it, as none is above max_fd, so that a *)
(* closed descriptor makes it fail and the repair finds it.                  *)
LEMMA WatchSelect ==
    ASSUME NEW s, NEW p \in PoolType, NEW k \in SockType, NEW L, WatchOK(s, p, k, L),
           NEW ready, NEW opened, \A f \in Fds : f \in opened <=> k[f] # "free",
           NEW r, r = RecomputeMaxFd(s, p),
           NEW t, t = AfterSelect(r, p, ready, opened)
    PROVE  /\ WatchOK(t, p, k, L) /\ BitsLive(t, k)
           /\ \A e \in Found(r, p, ready) : e \in Events /\ s.active[e]
<1>1. /\ s \in SelectType /\ TableOK(s) /\ ClientsOK(p, k, L) /\ BitsOK(s, p, k, L)
      /\ \A d \in Events : s.active[d] => IsOpen(p, ConnectionOf(d)) \/ L[ConnectionOf(d)] # Null
      /\ \A d \in Events : s.active[d] /\ L[ConnectionOf(d)] = Null
                              => p.fd[ConnectionOf(d)] \in s.master[KindOf(d)]
      /\ s.max_fd # NoFd => \A kind \in Kinds, g \in Fds : g \in s.master[kind] => g =< s.max_fd
  BY DEF WatchOK
<1>2. Recomputed(r, s, p)
  BY <1>1, RecomputeMaxFdTable
<1>3. /\ r \in SelectType
      /\ r.nevents = s.nevents /\ r.event_index = s.event_index
      /\ r.active = s.active /\ r.index = s.index /\ r.master = s.master
      /\ s.max_fd # NoFd => r.max_fd = s.max_fd
      /\ s.max_fd = NoFd => \A e \in Events : s.active[e] => p.fd[ConnectionOf(e)] =< r.max_fd
  BY <1>2 DEF Recomputed
<1>4. \A kind \in Kinds, g \in Fds : g \in r.master[kind] => g =< r.max_fd
  <2> SUFFICES ASSUME NEW kind \in Kinds, NEW g \in Fds, g \in r.master[kind] PROVE g =< r.max_fd
    OBVIOUS
  <2>1. CASE s.max_fd # NoFd
    BY <1>1, <1>3, <2>1
  <2>2. CASE s.max_fd = NoFd
    <3>1. PICK x \in Connections : p.fd[x] = g /\ s.active[<<x, kind>>]
      BY <1>1, <1>3 DEF BitsOK
    <3>2. <<x, kind>> \in Events /\ ConnectionOf(<<x, kind>>) = x
      BY EventParts
    <3> QED BY <1>3, <2>2, <3>1, <3>2
  <2> QED BY <2>1, <2>2
<1>5. TableOK(r)
  BY <1>1, <1>3 DEF TableOK
<1>6. WatchOK(r, p, k, L)
  BY <1>1, <1>3, <1>4, <1>5 DEF WatchOK, BitsOK
<1>7. \A e \in Found(r, p, ready) : e \in Events /\ s.active[e]
  <2>1. \A e \in Watched(r) : e \in Events /\ r.active[e]
    BY <1>5 DEF Watched, TableOK
  <2> QED BY <1>3, <2>1 DEF Found
<1>8. CASE t = r /\ ~ BadDescriptor(r, opened)
  <2>1. \A kind \in Kinds, g \in Fds : g \in r.master[kind] => g \in opened
    BY <1>4, <1>8 DEF BadDescriptor, Offered
  <2>2. BitsLive(t, k)
    BY <1>8, <2>1 DEF BitsLive
  <2> QED BY <1>6, <1>7, <1>8, <2>2
<1>9. CASE t = RepairFdSets(r, opened)
  <2>1. /\ t.max_fd = NoFd /\ t.nevents = r.nevents /\ t.event_index = r.event_index
        /\ t.active = r.active /\ t.index = r.index
        /\ t.master = [kind \in Kinds |-> {f \in r.master[kind] : f =< r.max_fd => f \in opened}]
        /\ t = [ max_fd |-> NoFd, nevents |-> r.nevents, event_index |-> r.event_index,
                 active |-> r.active, index |-> r.index, master |-> t.master ]
    BY <1>9 DEF RepairFdSets
  <2>2. r.master \in [Kinds -> SUBSET Fds]
    BY <1>3 DEF SelectType
  <2>3. \A kind \in Kinds, g \in Fds : g \in t.master[kind] <=> g \in r.master[kind] /\ k[g] # "free"
    BY <1>4, <2>1, <2>2
  <2>4. t \in SelectType
    <3>1. t.master \in [Kinds -> SUBSET Fds]
      BY <2>1, <2>2
    <3> QED BY <1>3, <2>1, <3>1 DEF SelectType, NoFd
  <2>5. TableOK(t)
    BY <1>5, <2>1 DEF TableOK
  <2>6. BitsOK(t, p, k, L)
    <3>1. t.active = r.active
      BY <2>1
    <3>2. \A kind \in Kinds, g \in Fds : g \in t.master[kind] => g \in r.master[kind]
      BY <2>3
    <3>3. BitsOK(r, p, k, L)
      BY <1>6 DEF WatchOK
    <3> QED BY <3>1, <3>2, <3>3 DEF BitsOK
  <2>7. \A d \in Events : t.active[d] /\ L[ConnectionOf(d)] = Null
                             => p.fd[ConnectionOf(d)] \in t.master[KindOf(d)]
    <3> SUFFICES ASSUME NEW d \in Events, t.active[d], L[ConnectionOf(d)] = Null
                 PROVE  p.fd[ConnectionOf(d)] \in t.master[KindOf(d)]
      OBVIOUS
    <3>1. KindOf(d) \in Kinds /\ ConnectionOf(d) \in NotListening(L)
      BY EventParts DEF NotListening
    <3>2. s.active[d] /\ IsOpen(p, ConnectionOf(d))
          /\ p.fd[ConnectionOf(d)] \in r.master[KindOf(d)]
      BY <1>1, <1>3, <2>1
    <3>3. p.fd[ConnectionOf(d)] \in Fds /\ k[p.fd[ConnectionOf(d)]] = "deaf"
      BY <1>1, <3>1, <3>2, ClientFd
    <3> QED BY <2>3, <3>1, <3>2, <3>3
  <2>8. WatchOK(t, p, k, L)
    BY <1>1, <1>3, <2>1, <2>4, <2>5, <2>6, <2>7 DEF WatchOK
  <2>9. BitsLive(t, k)
    BY <2>3 DEF BitsLive
  <2> QED BY <1>7, <2>8, <2>9
<1> QED BY <1>8, <1>9 DEF AfterSelect


-----------------------------------------------------------------------------
(* The steps. The parts of the invariant.                                    *)
LEMMA ReloadParts ==
    ASSUME ReloadIInv
    PROVE  /\ spy_global \in GlobalType /\ sock \in SockType /\ taken \in SUBSET Others
           /\ pc \in {"start", "run", "exit", "bad_pointer"}
           /\ pool \in PoolType /\ sel \in SelectType
           /\ listening \in [Connections -> Addrs \cup {Null}]
           /\ turn \in {"init", "select", "handle"}
           /\ events \subseteq Events
           /\ NotListening(listening) \in SUBSET Connections
           /\ pc \in {"start", "run"} => LiveIInv
           /\ turn = "init" => /\ pool = InitialPool /\ sel = InitialSelect
                               /\ listening = [c \in Connections |-> Null]
           /\ pc = "start" => turn = "init"
BY DEF ReloadIInv, ReloadTypeOK, GlobalTypeOK, SockType, NotListening

\* The invariant of the next state from its parts.
LEMMA ReloadFromParts ==
    ASSUME (spy_global \in GlobalType)', (sock \in SockType)', (taken \in SUBSET Others)',
           (pc \in {"start", "run", "exit", "bad_pointer"})', (pool \in PoolType)',
           (sel \in SelectType)', (listening \in [Connections -> Addrs \cup {Null}])',
           (turn \in {"init", "select", "handle"})', (events \subseteq Events)',
           (pc \in {"start", "run"} => LiveIInv)',
           (turn = "init" => /\ pool = InitialPool /\ sel = InitialSelect
                             /\ listening = [c \in Connections |-> Null])',
           (pc = "start" => turn = "init")'
    PROVE  ReloadIInv'
BY DEF ReloadIInv, ReloadTypeOK, GlobalTypeOK, SockType

\* A global keeps its sockets while only free descriptors change.
LEMMA SocketsKeptOK ==
    ASSUME NEW g \in GlobalType, NEW k \in SockType, SocketsOK(g, k),
           NEW m, \A f \in Fds : k[f] # "free" => m[f] = k[f]
    PROVE  SocketsOK(g, m)
<1>1. DOMAIN g = 1 .. Len(g) /\ \A i \in 1 .. Len(g) : g[i].addr \in Addrs /\ g[i].fd \in Fds \cup {NoFd}
  BY GlobalParts
<1>2. \A i \in 1 .. Len(g) : g[i].fd # NoFd => g[i].fd \in Fds /\ k[g[i].fd] # "free"
  BY <1>1, GlobalAssumption DEF SocketsOK
<1> QED BY <1>1, <1>2 DEF SocketsOK

\* The pool and the tables before spy_event_init.
LEMMA NotYetWatched ==
    ASSUME NEW k
    PROVE  /\ RunningList(InitialPool, NotListening([c \in Connections |-> Null]))
           /\ WatchOK(InitialSelect, InitialPool, k, [c \in Connections |-> Null])
           /\ BitsLive(InitialSelect, k)
<1> DEFINE L == [c \in Connections |-> Null]
           A == NotListening(L)
           n == connection_n
           s == [i \in 1 .. n |-> i - 1]
<1>1. A = Connections
  BY DEF NotListening
<1>2. VisitsOnce(InitialPool, A, s)
  <2>1. InitialPool.free_connection_n = n /\ InitialPool.free_connections = 0
    BY DEF InitialPool
  <2>2. \A i \in 1 .. n : /\ s[i] \in Connections /\ s[i] = i - 1
                          /\ i # n => s[i + 1] = i
    BY ConnectionNAssumption DEF Connections
  <2>3. s \in [1 .. n -> {c \in A : ~ IsOpen(InitialPool, c)}]
    BY <1>1, <2>2 DEF InitialPool, IsOpen
  <2>4. s[1] = 0
    BY ConnectionNAssumption
  <2> HIDE DEF s
  <2>5. \A i \in 1 .. n : InitialPool.data[s[i]] = IF i = n THEN Null ELSE s[i + 1]
    <3>1. \A c \in Connections : InitialPool.data[c] = IF c + 1 < n THEN c + 1 ELSE Null
      BY DEF InitialPool
    <3> QED BY <2>2, <3>1, ConnectionNAssumption
  <2>6. \A i, j \in 1 .. n : s[i] = s[j] => i = j
    BY <2>2
  <2>7. n # 0
    BY ConnectionNAssumption
  <2> QED BY <2>1, <2>3, <2>4, <2>5, <2>6, <2>7 DEF VisitsOnce
<1>3. /\ InitialSelect \in SelectType /\ TableOK(InitialSelect)
      /\ \A e \in Events : ~ InitialSelect.active[e]
      /\ \A kind \in Kinds : InitialSelect.master[kind] = {}
      /\ InitialSelect.max_fd = NoFd
  BY InitialSelectOK DEF TablesOK, InitialSelect
<1>4. \A c \in Connections : ~ IsOpen(InitialPool, c)
  BY DEF InitialPool, IsOpen
<1>5. BitsOK(InitialSelect, InitialPool, k, L) /\ BitsLive(InitialSelect, k)
  BY <1>3 DEF BitsOK, BitsLive
<1>6. ClientsOK(InitialPool, k, L)
  BY <1>1, <1>4 DEF ClientsOK
<1> HIDE DEF L, A, s
<1>7. RunningList(InitialPool, A)
  BY <1>2, RunningListVisits
<1>8. WatchOK(InitialSelect, InitialPool, k, L)
  BY <1>3, <1>5, <1>6 DEF WatchOK
<1> QED BY <1>5, <1>7, <1>8 DEF L, A


LEMMA ReloadInitOK == ReloadInit => ReloadIInv
<1> SUFFICES ASSUME ReloadInit PROVE ReloadIInv
  OBVIOUS
<1>1. /\ spy_global = <<>> /\ sock = [f \in Fds |-> "free"] /\ taken = {} /\ pc = "start"
      /\ pool = InitialPool /\ sel = InitialSelect
      /\ listening = [c \in Connections |-> Null]
      /\ turn = "init" /\ events = {}
  BY DEF ReloadInit, Init
<1>2. spy_global \in GlobalType /\ SocketsOK(spy_global, sock)
  <2>1. <<>> \in GlobalType
    BY EmptySeq DEF GlobalType
  <2>2. DOMAIN spy_global = {}
    BY <1>1
  <2> QED BY <1>1, <2>1, <2>2 DEF SocketsOK
<1>3. pool \in PoolType /\ sel \in SelectType
  BY <1>1, InitialPoolOK, InitialSelectOK DEF PoolOK, TablesOK
<1>4. /\ RunningList(pool, NotListening(listening))
      /\ WatchOK(sel, pool, sock, listening)
  BY <1>1, NotYetWatched
<1>5. LiveIInv
  BY <1>1, <1>2, <1>4 DEF LiveIInv
<1>6. ReloadTypeOK
  <2>1. sock \in [Fds -> {"free", "deaf"} \cup Addrs]
    BY <1>1
  <2> QED BY <1>1, <1>2, <1>3, <2>1 DEF ReloadTypeOK, GlobalTypeOK
<1> QED BY <1>1, <1>5, <1>6 DEF ReloadIInv

\* The process starts.
LEMMA StartKeeps ==
    ASSUME ReloadIInv, StartProcess
    PROVE  ReloadIInv'
<1>1. /\ spy_global \in GlobalType /\ sock \in SockType /\ taken \in SUBSET Others
      /\ LiveIInv /\ turn = "init"
      /\ pool = InitialPool /\ sel = InitialSelect
      /\ listening = [c \in Connections |-> Null]
      /\ pool \in PoolType /\ sel \in SelectType
      /\ listening \in [Connections -> Addrs \cup {Null}]
      /\ events \subseteq Events
  BY ReloadParts DEF StartProcess, Start
<1>2. UNCHANGED <<taken, pool, sel, listening, turn, events>>
  BY DEF StartProcess, Start
<1>3. SocketsOK(spy_global, sock) /\ events = {}
  BY <1>1 DEF LiveIInv
<1>4. /\ spy_global' \in GlobalType /\ sock' \in SockType
      /\ pc' \in {"run", "exit", "bad_pointer"}
      /\ pc' = "run" => SocketsOK(spy_global', sock')
  <2>1. ASSUME NEW c \in Configurations, GlobalInitOK(c)
        PROVE  /\ spy_global' \in GlobalType /\ sock' \in SockType
               /\ pc' \in {"run", "exit", "bad_pointer"}
               /\ pc' = "run" => SocketsOK(spy_global', sock')
    BY <1>1, <1>3, <2>1, GlobalInitReplaces DEF Replaced
  <2>2. ASSUME NEW c \in Configurations, GlobalInitFails(c), pc' = "bad_pointer", UNCHANGED spy_global
        PROVE  /\ spy_global' \in GlobalType /\ sock' \in SockType
               /\ pc' \in {"run", "exit", "bad_pointer"}
               /\ pc' = "run" => SocketsOK(spy_global', sock')
    BY <1>1, <2>2, GlobalInitLeaves DEF OnlyFreeChanged
  <2>3. ASSUME GlobalInitFaults
        PROVE  /\ spy_global' \in GlobalType /\ sock' \in SockType
               /\ pc' \in {"run", "exit", "bad_pointer"}
               /\ pc' = "run" => SocketsOK(spy_global', sock')
    BY <1>1, <2>3 DEF GlobalInitFaults
  <2> QED BY <2>1, <2>2, <2>3 DEF StartProcess, Start
<1>5. (pc \in {"start", "run"} => LiveIInv)'
  <2>1. /\ RunningList(pool, NotListening(listening))'
        /\ WatchOK(sel, pool, sock, listening)'
    BY <1>1, <1>2, NotYetWatched
  <2> QED BY <1>1, <1>2, <1>3, <1>4, <2>1 DEF LiveIInv
<1> QED BY <1>1, <1>2, <1>4, <1>5, ReloadFromParts

\* spy_event_init, done or failed.
LEMMA EventInitKeeps ==
    ASSUME ReloadIInv, EventInit
    PROVE  ReloadIInv'
<1>1. /\ spy_global \in GlobalType /\ sock \in SockType /\ taken \in SUBSET Others
      /\ LiveIInv /\ turn = "init" /\ pc = "run"
      /\ pool = InitialPool /\ sel = InitialSelect
      /\ listening = [c \in Connections |-> Null]
      /\ pool \in PoolType /\ sel \in SelectType
      /\ listening \in [Connections -> Addrs \cup {Null}]
      /\ events \subseteq Events
  BY ReloadParts DEF EventInit
<1>2. SocketsOK(spy_global, sock) /\ events = {}
  BY <1>1 DEF LiveIInv
<1>3. CASE EventInitFails
  <2>1. /\ pc' \in {"exit", "bad_pointer"}
        /\ UNCHANGED <<spy_global, sock, taken, pool, sel, listening, turn, events>>
    BY <1>3 DEF EventInitFails
  <2> QED BY <1>1, <2>1, ReloadFromParts
<1>4. CASE EventInitOK
  <2> DEFINE n == Len(spy_global)
             fds == [i \in DOMAIN spy_global |-> spy_global[i].fd]
             all == ListenOnAll(n, fds)
  <2>1. /\ n =< connection_n
        /\ pool' = all.pool
        /\ sel' = [all.sel EXCEPT !.master["read"] = @ \ {NoFd}]
        /\ listening' = SlotsOf(spy_global)
        /\ turn' = "select"
        /\ UNCHANGED <<vars, events>>
    BY <1>4 DEF EventInitOK, SlotsOf
  <2>2. n \in 0 .. connection_n /\ fds \in [1 .. n -> Fds \cup {NoFd}] /\ DescriptorsAre(fds, spy_global)
    <3>1. /\ DOMAIN spy_global = 1 .. n /\ n \in Nat
          /\ \A i \in 1 .. n : spy_global[i].fd \in Fds \cup {NoFd}
      BY <1>1, GlobalParts
    <3> QED BY <2>1, <3>1, ConnectionNAssumption DEF DescriptorsAre
  <2> HIDE DEF n, fds
  <2>3. all = [pool |-> ListenedPool(n, fds), sel |-> ListenedSel(n, fds)]
    BY <2>2, ListenOnAllIs
  <2>4. pool' = ListenedPool(n, fds)
        /\ sel' = [ListenedSel(n, fds) EXCEPT !.master["read"] = @ \ {NoFd}]
    BY <2>1, <2>3
  <2> HIDE DEF all
  <2>5. /\ pool' \in PoolType
        /\ SlotsOf(spy_global) \in [Connections -> Addrs \cup {Null}]
        /\ RunningList(pool', NotListening(SlotsOf(spy_global)))
    BY <1>1, <2>1, <2>2, <2>4, ListenedPoolOK DEF n
  <2>6. ListenedTable(sel', n, fds)
    BY <2>4, ListenedTableIs
  <2>7. \A c \in Connections : pool'.fd[c] = IF c < n THEN fds[c + 1] ELSE NoFd
    BY <2>4 DEF ListenedPool
  <2>8. sel' \in SelectType /\ WatchOK(sel', pool', sock, SlotsOf(spy_global))
    BY <1>1, <1>2, <2>1, <2>2, <2>6, <2>7, ListenersWatched DEF n
  <2>9. UNCHANGED <<spy_global, sock, taken, pc, events>>
    BY <2>1 DEF vars
  <2>10. LiveIInv'
    BY <1>2, <2>1, <2>5, <2>8, <2>9 DEF LiveIInv
  <2>11. listening' \in [Connections -> Addrs \cup {Null}]
    BY <2>1, <2>5
  <2> QED BY <1>1, <2>1, <2>5, <2>8, <2>9, <2>10, <2>11, ReloadFromParts
<1> QED BY <1>3, <1>4 DEF EventInit


\* A turn of the loop asks select(2).
LEMMA SelectKeeps ==
    ASSUME ReloadIInv, SelectEvents
    PROVE  ReloadIInv'
<1> DEFINE s == RecomputeMaxFd(sel, pool)
<1>1. /\ spy_global \in GlobalType /\ sock \in SockType /\ taken \in SUBSET Others
      /\ LiveIInv /\ turn = "select" /\ pc = "run"
      /\ pool \in PoolType /\ sel \in SelectType
      /\ listening \in [Connections -> Addrs \cup {Null}]
  BY ReloadParts DEF SelectEvents
<1>2. PICK ready :
         /\ sel' = AfterSelect(s, pool, ready, OpenSockets)
         /\ events' = IF BadDescriptor(s, OpenSockets) THEN {} ELSE Found(s, pool, ready)
  BY DEF SelectEvents
<1>3. turn' = "handle" /\ UNCHANGED <<spy_global, sock, taken, pc, pool, listening>>
  BY DEF SelectEvents, vars
<1>4. /\ SocketsOK(spy_global, sock) /\ WatchOK(sel, pool, sock, listening)
      /\ RunningList(pool, NotListening(listening))
  BY <1>1 DEF LiveIInv
<1>5. \A f \in Fds : f \in OpenSockets <=> sock[f] # "free"
  BY DEF OpenSockets
<1>6. /\ WatchOK(sel', pool, sock, listening) /\ BitsLive(sel', sock)
      /\ \A e \in Found(s, pool, ready) : e \in Events /\ sel.active[e]
  <2> HIDE DEF s
  <2>1. s = RecomputeMaxFd(sel, pool)
    BY DEF s
  <2> QED BY <1>1, <1>2, <1>4, <1>5, <2>1, WatchSelect
<1> HIDE DEF s
<1>7. \A e \in events' : e \in Events /\ sel.active[e]
  BY <1>2, <1>6
<1>8. \A e \in events' : KindOf(e) = "write" /\ ~ Accepting(ConnectionOf(e))
                            => IsOpen(pool, ConnectionOf(e))
  BY <1>4, <1>7 DEF WatchOK, Accepting
<1>9. LiveIInv'
  BY <1>3, <1>4, <1>6, <1>8 DEF LiveIInv, Accepting
<1>10. sel' \in SelectType
  BY <1>6 DEF WatchOK
<1> QED BY <1>1, <1>3, <1>7, <1>9, <1>10, ReloadFromParts

(* A new connection: the slot is the head of the running global's list,      *)
(* which is closed and serves no listening socket, so that none of its       *)
(* events is watched.                                                        *)
LEMMA AcceptKeeps ==
    ASSUME ReloadIInv, turn = "handle", pc = "run", CanGet(pool),
           NEW f \in Fds, sock[f] = "free", AcceptOn(f)
    PROVE  /\ pool' \in PoolType /\ sel' \in SelectType /\ sock' \in SockType
           /\ SocketsOK(spy_global, sock')
           /\ RunningList(pool', NotListening(listening))
           /\ WatchOK(sel', pool', sock', listening)
           /\ BitsLive(sel', sock')
           /\ \A c \in Connections : IsOpen(pool, c) => IsOpen(pool', c)
<1> DEFINE c == pool.free_connections
           p == GetConnection(pool, f)
           s == ClearEvents(sel, c)
           A == NotListening(listening)
           m == [sock EXCEPT ![f] = "deaf"]
<1>1. /\ spy_global \in GlobalType /\ sock \in SockType
      /\ LiveIInv
      /\ pool \in PoolType /\ sel \in SelectType
      /\ listening \in [Connections -> Addrs \cup {Null}]
      /\ A \in SUBSET Connections
  BY ReloadParts
<1>2. /\ SocketsOK(spy_global, sock) /\ WatchOK(sel, pool, sock, listening)
      /\ RunningList(pool, A) /\ BitsLive(sel, sock)
  BY <1>1 DEF LiveIInv
<1>3. c \in A /\ ~ IsOpen(pool, c)
  <2> HIDE DEF A
  <2> QED BY <1>1, <1>2, RunningHead
<1>4. c \in Connections /\ listening[c] = Null
  BY <1>3 DEF NotListening
<1>5. p \in PoolType /\ RunningList(p, A)
  <2> HIDE DEF A
  <2> QED BY <1>1, <1>2, RunningGet
<1>6. \A x \in Connections : p.fd[x] = IF x = c THEN f ELSE pool.fd[x]
  BY <1>1, <1>4 DEF GetConnection, PoolType
<1>7. f # NoFd
  BY FdsAssumption DEF NoFd
<1>8. s = sel
  <2>1. \A e \in Events : ConnectionOf(e) = c => ~ sel.active[e] /\ sel.index[e] = InvalidIndex
    <3>1. TableOK(sel)
      BY <1>2 DEF WatchOK
    <3>2. \A e \in Events : ConnectionOf(e) = c => ~ sel.active[e]
      BY <1>2, <1>3, <1>4 DEF WatchOK
    <3> QED BY <3>1, <3>2 DEF TableOK
  <2>2. \A e \in EventsOf(c) : e \in Events /\ ~ sel.active[e] /\ sel.index[e] = InvalidIndex
    BY <1>4, <2>1, EventsOfSlot DEF EventsOf
  <2>3. [sel.active EXCEPT ![ReadEvent(c)] = FALSE, ![WriteEvent(c)] = FALSE] = sel.active
    BY <1>1, <2>2 DEF SelectType, EventsOf
  <2>4. [sel.index EXCEPT ![ReadEvent(c)] = InvalidIndex, ![WriteEvent(c)] = InvalidIndex] = sel.index
    BY <1>1, <2>2 DEF SelectType, EventsOf
  <2> QED BY <1>1, <2>3, <2>4 DEF ClearEvents, SelectType
<1>9. m \in SockType /\ \A g \in Fds : m[g] = IF g = f THEN "deaf" ELSE sock[g]
  BY <1>1 DEF SockType
<1> HIDE DEF c, p, s, m, A
<1>10. \A x \in Connections : IsOpen(pool, x) => x # c /\ IsOpen(p, x)
  BY <1>3, <1>6 DEF IsOpen
<1>11. CASE pool' = CloseAccepted(p, c) /\ sel' = s /\ UNCHANGED sock
  <2>1. IsOpen(p, c)
    BY <1>4, <1>6, <1>7 DEF IsOpen
  <2>2. pool' \in PoolType /\ RunningList(pool', A)
    BY <1>1, <1>3, <1>5, <1>11, <2>1, RunningClose
  <2>3. pool'.fd = [p.fd EXCEPT ![c] = NoFd]
    BY <1>11 DEF CloseAccepted, FreeConnection
  <2>4. pool'.fd = pool.fd
    <3>1. pool.fd \in [Connections -> Fds \cup {NoFd}] /\ p.fd \in [Connections -> Fds \cup {NoFd}]
      BY <1>1, <1>5 DEF PoolType
    <3>2. pool.fd[c] = NoFd
      BY <1>3 DEF IsOpen
    <3> QED BY <1>4, <1>6, <2>3, <3>1, <3>2
  <2>5. WatchOK(sel', pool', sock', listening) /\ BitsLive(sel', sock')
    BY <1>2, <1>8, <1>11, <2>4, WatchSameFds
  <2> QED BY <1>1, <1>2, <1>8, <1>11, <2>2, <2>4, <2>5 DEF IsOpen, A
<1>12. ASSUME pool' = AttachRequest(p, c), NEW e \in EventsOf(c), sel' = AddEvent(s, e, f),
              sock' = m
       PROVE  /\ pool' \in PoolType /\ sel' \in SelectType /\ sock' \in SockType
              /\ SocketsOK(spy_global, sock')
              /\ RunningList(pool', A)
              /\ WatchOK(sel', pool', sock', listening)
              /\ BitsLive(sel', sock')
              /\ \A x \in Connections : IsOpen(pool, x) => IsOpen(pool', x)
  <2>1. IsOpen(p, c)
    BY <1>4, <1>6, <1>7 DEF IsOpen
  <2>2. pool' \in PoolType /\ pool'.fd = p.fd /\ RunningList(pool', A)
    BY <1>1, <1>4, <1>5, <1>12, <2>1, RunningAttach
  <2>3. WatchOK(sel, p, m, listening) /\ BitsLive(sel, m)
    BY <1>1, <1>2, <1>3, <1>4, <1>6, <1>9, WatchOpen
  <2>4. e \in Events /\ ConnectionOf(e) = c /\ p.fd[c] = f
    BY <1>4, <1>6, EventsOfSlot DEF EventsOf
  <2>5. WatchOK(sel', p, m, listening) /\ BitsLive(sel', m)
    <3>1. sel' = AddEvent(sel, e, p.fd[ConnectionOf(e)])
      BY <1>8, <1>12, <2>4
    <3>2. listening[ConnectionOf(e)] = Null /\ IsOpen(p, ConnectionOf(e))
      BY <1>4, <2>1, <2>4
    <3> QED BY <1>5, <2>3, <2>4, <3>1, <3>2, WatchAdd
  <2>6. WatchOK(sel', pool', sock', listening) /\ BitsLive(sel', sock')
    BY <1>12, <2>2, <2>5, WatchSameFds
  <2>7. SocketsOK(spy_global, sock')
    BY <1>1, <1>2, <1>9, <1>12, SocketsKeptOK
  <2>8. sel' \in SelectType
    BY <2>6 DEF WatchOK
  <2>9. \A x \in Connections : IsOpen(pool, x) => IsOpen(pool', x)
    BY <1>10, <2>2 DEF IsOpen
  <2> QED BY <1>9, <1>12, <2>2, <2>6, <2>7, <2>8, <2>9
<1> QED BY <1>11, <1>12 DEF AcceptOn, c, p, s, m, A

LEMMA HandleAcceptKeeps ==
    ASSUME ReloadIInv, NEW e \in Events, HandleAccept(e)
    PROVE  ReloadIInv'
<1>1. /\ spy_global \in GlobalType /\ sock \in SockType /\ taken \in SUBSET Others
      /\ LiveIInv /\ turn = "handle" /\ pc = "run"
      /\ pool \in PoolType /\ sel \in SelectType
      /\ listening \in [Connections -> Addrs \cup {Null}]
      /\ events \subseteq Events
  BY ReloadParts DEF HandleAccept, Handling
<1>2. events' = events \ {e} /\ UNCHANGED <<spy_global, taken, listening, turn, pc>>
  BY DEF HandleAccept, Handling
<1>3. \A d \in events : KindOf(d) = "write" /\ ~ Accepting(ConnectionOf(d))
                           => IsOpen(pool, ConnectionOf(d))
  BY <1>1 DEF LiveIInv
<1>4. CASE UNCHANGED <<pool, sel, sock>>
  <2>1. LiveIInv'
    BY <1>1, <1>2, <1>4 DEF LiveIInv, Accepting
  <2> QED BY <1>1, <1>2, <1>4, <2>1, ReloadFromParts
<1>5. CASE /\ CanGet(pool)
           /\ \E f \in Fds : sock[f] = "free"
           /\ AcceptOn(Min({f \in Fds : sock[f] = "free"}))
  <2> DEFINE f == Min({g \in Fds : sock[g] = "free"})
  <2>1. f \in Fds /\ sock[f] = "free"
    BY <1>1, <1>5, LeastFree
  <2>2. AcceptOn(f)
    BY <1>5
  <2> HIDE DEF f
  <2>3. /\ pool' \in PoolType /\ sel' \in SelectType /\ sock' \in SockType
        /\ SocketsOK(spy_global, sock')
        /\ RunningList(pool', NotListening(listening))
        /\ WatchOK(sel', pool', sock', listening)
        /\ BitsLive(sel', sock')
        /\ \A c \in Connections : IsOpen(pool, c) => IsOpen(pool', c)
    BY <1>1, <1>5, <2>1, <2>2, AcceptKeeps
  <2>4. \A d \in events' : KindOf(d) = "write" /\ ~ Accepting(ConnectionOf(d))
                              => IsOpen(pool', ConnectionOf(d))
    <3>1. \A d \in events' : d \in events /\ ConnectionOf(d) \in Connections
      BY <1>1, <1>2, EventParts
    <3> QED BY <1>3, <2>3, <3>1
  <2>5. LiveIInv'
    BY <1>1, <1>2, <2>3, <2>4 DEF LiveIInv, Accepting
  <2> QED BY <1>1, <1>2, <2>3, <2>5, ReloadFromParts
<1> QED BY <1>4, <1>5 DEF HandleAccept


(* A client's write event: its connection is open, as only this event closes *)
(* it. Its events are deleted before its descriptor is free again.           *)
LEMMA HandleClientKeeps ==
    ASSUME ReloadIInv, NEW e \in Events, HandleClient(e)
    PROVE  ReloadIInv'
<1> DEFINE c == ConnectionOf(e)
           f == pool.fd[c]
           A == NotListening(listening)
<1>1. /\ spy_global \in GlobalType /\ sock \in SockType /\ taken \in SUBSET Others
      /\ LiveIInv /\ turn = "handle" /\ pc = "run"
      /\ pool \in PoolType /\ sel \in SelectType
      /\ listening \in [Connections -> Addrs \cup {Null}]
      /\ events \subseteq Events
      /\ A \in SUBSET Connections
  BY ReloadParts DEF HandleClient, Handling
<1>2. events' = events \ {e} /\ UNCHANGED <<spy_global, taken, listening, turn>> /\ e \in events
  BY DEF HandleClient, Handling
<1>3. /\ SocketsOK(spy_global, sock) /\ WatchOK(sel, pool, sock, listening)
      /\ RunningList(pool, A) /\ BitsLive(sel, sock)
      /\ \A d \in events : KindOf(d) = "write" /\ ~ Accepting(ConnectionOf(d))
                              => IsOpen(pool, ConnectionOf(d))
  BY <1>1 DEF LiveIInv
<1>4. c \in Connections /\ listening[c] = Null /\ c \in A /\ ~ Accepting(c)
  BY EventParts DEF HandleClient, Accepting, NotListening
<1>5. CASE pc' = "bad_pointer" /\ UNCHANGED <<pool, sel, sock>>
  BY <1>1, <1>2, <1>5, ReloadFromParts
<1>6. CASE /\ KindOf(e) = "write"
           /\ pool' = CloseConnection(pool, c)
           /\ sel' = StopWatching(sel, c, pool)
           /\ sock' = CloseSockets(sock, {f})
           /\ UNCHANGED pc
  <2>1. IsOpen(pool, c)
    BY <1>2, <1>3, <1>4, <1>6
  <2>2. pool' = CloseAccepted(pool, c)
    BY <1>6, <2>1 DEF CloseConnection
  <2> HIDE DEF A, c
  <2>3. pool' \in PoolType /\ RunningList(pool', A)
    BY <1>1, <1>3, <1>4, <2>1, <2>2, RunningClose
  <2>4. \A x \in Connections : pool'.fd[x] = IF x = c THEN NoFd ELSE pool.fd[x]
    BY <1>1, <2>2 DEF CloseAccepted, FreeConnection, PoolType
  <2>5. /\ WatchOK(sel', pool, sock, listening)
        /\ \A d \in Events : ConnectionOf(d) = c => ~ sel'.active[d]
        /\ \A kind \in Kinds : f \notin sel'.master[kind] /\ sel'.master[kind] \subseteq sel.master[kind]
    BY <1>1, <1>3, <1>4, <1>6, <2>1, WatchStop
  <2>6. sock' \in SockType /\ \A g \in Fds : sock'[g] = IF g = f THEN "free" ELSE sock[g]
    BY <1>1, <1>6, CloseSocketsOK
  <2>7. BitsLive(sel', sock)
    BY <1>3, <2>5 DEF BitsLive
  <2>8. WatchOK(sel', pool', sock', listening) /\ BitsLive(sel', sock')
    BY <1>1, <1>4, <2>1, <2>4, <2>5, <2>6, <2>7, WatchClose
  <2>9. SocketsOK(spy_global, sock')
    <3>1. /\ DOMAIN spy_global = 1 .. Len(spy_global)
          /\ \A i \in 1 .. Len(spy_global) : /\ spy_global[i].addr \in Addrs
                                             /\ spy_global[i].fd \in Fds \cup {NoFd}
      BY <1>1, GlobalParts
    <3>2. sock[f] = "deaf"
      <4>1. ClientsOK(pool, sock, listening)
        BY <1>3 DEF WatchOK
      <4>2. c \in NotListening(listening)
        BY <1>4 DEF A
      <4> QED BY <1>1, <2>1, <4>1, <4>2, ClientFd
    <3>3. \A i \in 1 .. Len(spy_global) : spy_global[i].fd # NoFd => spy_global[i].fd # f
      BY <1>3, <3>1, <3>2, GlobalAssumption DEF SocketsOK
    <3> QED BY <1>3, <2>6, <3>1, <3>3 DEF SocketsOK
  <2>10. \A d \in events' : KindOf(d) = "write" /\ ~ Accepting(ConnectionOf(d))
                               => IsOpen(pool', ConnectionOf(d))
    <3>1. \A d \in events' : KindOf(d) = "write" =>
             d \in events /\ ConnectionOf(d) \in Connections /\ ConnectionOf(d) # c
      BY <1>1, <1>2, <1>6, EventParts DEF c
    <3> QED BY <1>3, <2>4, <3>1 DEF IsOpen
  <2>11. LiveIInv'
    BY <1>1, <1>2, <2>3, <2>8, <2>9, <2>10 DEF LiveIInv, Accepting, A
  <2>12. sel' \in SelectType
    BY <2>8 DEF WatchOK
  <2> QED BY <1>1, <1>2, <1>6, <2>3, <2>6, <2>11, <2>12, ReloadFromParts
<1>7. CASE /\ KindOf(e) = "write"
           /\ sel' \in {sel, AddEvent(sel, ReadEvent(c), f)}
           /\ UNCHANGED <<pool, sock, pc>>
  <2>1. IsOpen(pool, c)
    BY <1>2, <1>3, <1>4, <1>7
  <2>2. ReadEvent(c) \in Events /\ ConnectionOf(ReadEvent(c)) = c
    BY <1>4, EventsOfSlot
  <2> HIDE DEF A, c
  <2>3. WatchOK(sel', pool, sock, listening) /\ BitsLive(sel', sock)
    <3>1. CASE sel' = sel
      BY <1>3, <3>1
    <3>2. CASE sel' = AddEvent(sel, ReadEvent(c), f)
      BY <1>1, <1>3, <1>4, <2>1, <2>2, <3>2, WatchAdd
    <3> QED BY <1>7, <3>1, <3>2
  <2>4. LiveIInv'
    BY <1>1, <1>2, <1>3, <1>7, <2>3 DEF LiveIInv, Accepting, A
  <2>5. sel' \in SelectType
    BY <2>3 DEF WatchOK
  <2> QED BY <1>1, <1>2, <1>7, <2>4, <2>5, ReloadFromParts
<1> QED BY <1>5, <1>6, <1>7 DEF HandleClient

\* A turn without a reload.
LEMMA NextTurnKeeps ==
    ASSUME ReloadIInv, NextTurn
    PROVE  ReloadIInv'
<1>1. /\ spy_global \in GlobalType /\ sock \in SockType /\ taken \in SUBSET Others
      /\ LiveIInv /\ turn = "handle" /\ pc = "run" /\ events = {}
      /\ pool \in PoolType /\ sel \in SelectType
      /\ listening \in [Connections -> Addrs \cup {Null}]
  BY ReloadParts DEF NextTurn, EndOfTurn
<1>2. turn' = "select" /\ UNCHANGED <<spy_global, sock, taken, pc, pool, sel, listening, events>>
  BY DEF NextTurn, vars
<1>3. LiveIInv'
  BY <1>1, <1>2 DEF LiveIInv, Accepting
<1> QED BY <1>1, <1>2, <1>3, ReloadFromParts

(* A reload. When it succeeds the sockets of the old global are closed and   *)
(* the list is empty; when it fails, nothing that was open has changed. Both *)
(* leave the sockets of clients alone, and no bit is set that stands for     *)
(* something else by then.                                                   *)
LEMMA ReloadKeeps ==
    ASSUME ReloadIInv, Reload
    PROVE  ReloadIInv'
<1>1. /\ spy_global \in GlobalType /\ sock \in SockType /\ taken \in SUBSET Others
      /\ LiveIInv /\ turn = "handle" /\ pc = "run" /\ events = {}
      /\ pool \in PoolType /\ sel \in SelectType
      /\ listening \in [Connections -> Addrs \cup {Null}]
  BY ReloadParts DEF Reload, EndOfTurn
<1>2. turn' = "select" /\ UNCHANGED <<taken, sel, listening, events>>
  BY DEF Reload
<1>3. /\ SocketsOK(spy_global, sock) /\ WatchOK(sel, pool, sock, listening)
      /\ RunningList(pool, NotListening(listening)) /\ BitsLive(sel, sock)
  BY <1>1 DEF LiveIInv
<1>4. ASSUME NEW c \in Configurations, GlobalInitOK(c), pool' = ClearedList(pool)
      PROVE  ReloadIInv'
  <2>1. /\ spy_global' \in GlobalType /\ sock' \in SockType
        /\ \/ pc' = "exit"
           \/ pc' = "run" /\ Replaced(spy_global, spy_global', sock, sock')
    BY <1>1, <1>3, <1>4, GlobalInitReplaces
  <2>2. /\ pool' \in PoolType /\ pool'.fd = pool.fd
        /\ RunningList(pool', NotListening(listening))
    BY <1>1, <1>4, RunningCleared
  <2>3. CASE pc' = "exit"
    BY <1>1, <1>2, <2>1, <2>2, <2>3, ReloadFromParts
  <2>4. CASE pc' = "run" /\ Replaced(spy_global, spy_global', sock, sock')
    <3>1. \A f \in Fds : sock[f] # "free" =>
             sock'[f] = sock[f] \/ (sock[f] # "deaf" /\ sock'[f] = "free")
      <4>1. \A f \in FdsOf(ToSet(spy_global)) : sock[f] \in Addrs
        BY <1>1, <1>3, DescriptorsOf
      <4> QED BY <2>4, <4>1, GlobalAssumption DEF Replaced
    <3>2. WatchOK(sel, pool, sock', listening)
      BY <1>1, <1>3, <3>1, WatchSockets
    <3>3. WatchOK(sel, pool', sock', listening)
      BY <2>2, <3>2, WatchSameFds
    <3>4. SocketsOK(spy_global', sock')
      BY <2>4 DEF Replaced
    <3>5. LiveIInv'
      BY <1>1, <1>2, <2>2, <3>3, <3>4 DEF LiveIInv, Accepting
    <3> QED BY <1>1, <1>2, <2>1, <2>2, <2>4, <3>5, ReloadFromParts
  <2> QED BY <2>1, <2>3, <2>4
<1>5. ASSUME NEW c \in Configurations, GlobalInitFails(c), UNCHANGED <<spy_global, pc, pool>>
      PROVE  ReloadIInv'
  <2>1. sock' \in SockType /\ \A f \in Fds : sock[f] # "free" => sock'[f] = sock[f]
    BY <1>1, <1>5, GlobalInitLeaves DEF OnlyFreeChanged
  <2>2. SocketsOK(spy_global, sock')
    BY <1>1, <1>3, <2>1, SocketsKeptOK
  <2>3. WatchOK(sel, pool, sock', listening)
    BY <1>1, <1>3, <2>1, WatchSockets
  <2>4. LiveIInv'
    BY <1>1, <1>2, <1>3, <1>5, <2>2, <2>3 DEF LiveIInv, Accepting
  <2> QED BY <1>1, <1>2, <1>5, <2>1, <2>4, ReloadFromParts
<1>6. ASSUME GlobalInitFaults, UNCHANGED pool
      PROVE  ReloadIInv'
  <2>1. pc' = "bad_pointer" /\ UNCHANGED <<spy_global, sock, pool>>
    BY <1>6 DEF GlobalInitFaults
  <2> QED BY <1>1, <1>2, <2>1, ReloadFromParts
<1> QED BY <1>4, <1>5, <1>6 DEF Reload

\* The end of the process, and other processes.
LEMMA QuitKeeps ==
    ASSUME ReloadIInv, QuitProcess
    PROVE  ReloadIInv'
<1>1. /\ sock \in SockType /\ taken \in SUBSET Others /\ turn = "handle"
      /\ pool \in PoolType /\ sel \in SelectType
      /\ listening \in [Connections -> Addrs \cup {Null}]
      /\ events \subseteq Events
  BY ReloadParts DEF QuitProcess, EndOfTurn
<1>2. /\ sock' = CloseSockets(sock, FdsOf(ToSet(spy_global)))
      /\ spy_global' = <<>> /\ pc' = "exit"
      /\ UNCHANGED <<taken, pool, sel, listening, turn, events>>
  BY DEF QuitProcess, Quit
<1>3. <<>> \in GlobalType
  BY EmptySeq DEF GlobalType
<1>4. sock' \in SockType
  BY <1>1, <1>2, CloseSocketsOK
<1> QED BY <1>1, <1>2, <1>3, <1>4, ReloadFromParts

LEMMA OtherProcessKeeps ==
    ASSUME ReloadIInv, OtherProcessStep
    PROVE  ReloadIInv'
<1>1. taken' \in SUBSET Others
  BY ReloadParts DEF OtherProcessStep, OtherProcess
<1>2. UNCHANGED <<spy_global, sock, pc, pool, sel, listening, turn, events>>
  BY DEF OtherProcessStep, OtherProcess
<1> QED BY <1>1, <1>2 DEF ReloadIInv, LiveIInv, ReloadTypeOK, GlobalTypeOK, Accepting


\* Every step of the process keeps the invariant.
LEMMA ReloadStep ==
    ASSUME ReloadIInv, [ReloadNext]_reloadVars
    PROVE  ReloadIInv'
<1>1. CASE UNCHANGED reloadVars
  <2>1. UNCHANGED <<spy_global, sock, taken, pc, pool, sel, listening, turn, events>>
    BY <1>1 DEF reloadVars, vars
  <2> QED BY <2>1 DEF ReloadIInv, LiveIInv, ReloadTypeOK, GlobalTypeOK, Accepting
<1>2. CASE ReloadNext
  <2>1. ASSUME NEW e \in Events, HandleAccept(e) \/ HandleClient(e) PROVE ReloadIInv'
    BY <2>1, HandleAcceptKeeps, HandleClientKeeps
  <2> QED BY <1>2, <2>1, StartKeeps, EventInitKeeps, SelectKeeps, NextTurnKeeps, ReloadKeeps,
             QuitKeeps, OtherProcessKeeps DEF ReloadNext
<1> QED BY <1>1, <1>2

(* However many reloads come between, the running global, the kernel, the    *)
(* free list and the tables of select(2) agree as far as the code relies on  *)
(* it.                                                                       *)
THEOREM ReloadInvariant == ReloadSpec => []ReloadIInv
<1>1. ReloadInit => ReloadIInv
  BY ReloadInitOK
<1>2. ReloadIInv /\ [ReloadNext]_reloadVars => ReloadIInv'
  BY ReloadStep
<1> QED BY <1>1, <1>2, PTL DEF ReloadSpec

\* The counter of the free list and the index of events never overflow.
THEOREM ReloadTypes == ReloadSpec => []ReloadTypeOK
<1>1. ReloadIInv => ReloadTypeOK
  BY DEF ReloadIInv
<1> QED BY <1>1, ReloadInvariant, PTL

(* The descriptors of the running global listen to the addresses they stand  *)
(* for, and no two sockets share one.                                        *)
THEOREM ReloadRunningSockets == ReloadSpec => []RunningSocketsOK
<1>1. ReloadIInv => RunningSocketsOK
  BY DEF ReloadIInv, LiveIInv, SocketsOK, RunningSocketsOK
<1> QED BY <1>1, ReloadInvariant, PTL

(* The running global's list visits only slots that are closed and serve no  *)
(* listening socket, each once, and its counter is its length.               *)
THEOREM ReloadFreeList == ReloadSpec => []RunningFreeListOK
<1>1. ASSUME ReloadIInv, pc = "run" PROVE RunningFreeListOK
  <2>1. {c \in Connections : ~ IsOpen(pool, c) /\ ~ Accepting(c)} =
           {c \in NotListening(listening) : ~ IsOpen(pool, c)}
    BY DEF Accepting, NotListening
  <2>2. RunningList(pool, NotListening(listening))
    BY <1>1 DEF ReloadIInv, LiveIInv
  <2> QED BY <2>1, <2>2 DEF RunningList, RunningFreeListOK
<1>2. ReloadIInv => RunningFreeListOK
  BY <1>1 DEF RunningFreeListOK
<1> QED BY <1>2, ReloadInvariant, PTL

(* Every bit select(2) is asked about stands for the socket it was set for,  *)
(* closed or not, and never for one that got its number since; and every     *)
(* client stays watched.                                                     *)
THEOREM ReloadWatch == ReloadSpec => []ReloadWatchOK
<1>1. ASSUME ReloadIInv, pc = "run" PROVE ReloadWatchOK
  <2>1. /\ WatchOK(sel, pool, sock, listening)
        /\ turn = "handle" => BitsLive(sel, sock)
    BY <1>1 DEF ReloadIInv, LiveIInv
  <2>2. ASSUME NEW k \in Kinds, NEW f \in Fds, f \in sel.master[k],
               sock[f] # "free" \/ turn = "handle"
        PROVE  \E c \in Connections :
                  /\ pool.fd[c] = f
                  /\ sel.active[<<c, k>>]
                  /\ sock[f] = IF Accepting(c) THEN listening[c] ELSE "deaf"
    <3>1. sock[f] # "free"
      BY <2>1, <2>2 DEF BitsLive
    <3>2. BitsOK(sel, pool, sock, listening)
      BY <2>1 DEF WatchOK
    <3>3. PICK c \in Connections :
             /\ pool.fd[c] = f
             /\ sel.active[<<c, k>>]
             /\ IF listening[c] = Null THEN sock[f] = "deaf" ELSE sock[f] \in {"free", listening[c]}
      BY <2>2, <3>2 DEF BitsOK
    <3> QED BY <3>1, <3>3 DEF Accepting
  <2>3. \A e \in Events : sel.active[e] /\ IsClient(ConnectionOf(e)) =>
                             pool.fd[ConnectionOf(e)] \in sel.master[KindOf(e)]
    BY <2>1 DEF WatchOK, IsClient, Accepting
  <2> QED BY <2>2, <2>3 DEF ReloadWatchOK
<1>2. ReloadIInv => ReloadWatchOK
  BY <1>1 DEF ReloadWatchOK
<1> QED BY <1>2, ReloadInvariant, PTL

\* What a turn that ends may do to the sockets.
TurnKeepsSockets ==
    turn = "handle" /\ turn' = "select" /\ pc' = "run" =>
        LET before == FdsOf(ToSet(spy_global))
            after  == FdsOf(ToSet(spy_global'))
        IN  /\ before = after => \A f \in before : sock'[f] = sock[f]
            /\ before # after => \A f \in before \ after : sock'[f] = "free"
            /\ \A f \in Fds \ before : sock[f] # "free" => sock'[f] = sock[f]

LEMMA TurnStep ==
    ASSUME ReloadIInv, [ReloadNext]_reloadVars
    PROVE  TurnKeepsSockets
<1> SUFFICES ASSUME turn = "handle", turn' = "select", pc' = "run" PROVE TurnKeepsSockets
  BY DEF TurnKeepsSockets
<1> DEFINE before == FdsOf(ToSet(spy_global))
           after  == FdsOf(ToSet(spy_global'))
<1>1. NextTurn \/ Reload
  BY DEF ReloadNext, reloadVars, StartProcess, EventInit, EventInitOK, EventInitFails, SelectEvents,
         HandleAccept, HandleClient, Handling, QuitProcess, OtherProcessStep
<1>2. CASE NextTurn
  <2>1. UNCHANGED <<spy_global, sock>>
    BY <1>2 DEF NextTurn, vars
  <2> QED BY <2>1 DEF TurnKeepsSockets
<1>3. CASE Reload
  <2>1. /\ spy_global \in GlobalType /\ sock \in SockType /\ pc = "run"
        /\ SocketsOK(spy_global, sock)
    BY <1>3, ReloadParts DEF Reload, EndOfTurn, LiveIInv
  <2>2. before \subseteq Fds /\ \A f \in before : sock[f] # "free"
    BY <2>1, DescriptorsOf, GlobalAssumption
  <2>3. ASSUME NEW c \in Configurations, GlobalInitOK(c) PROVE TurnKeepsSockets
    <3>1. Replaced(spy_global, spy_global', sock, sock')
      BY <2>1, <2>3, GlobalInitReplaces
    <3>2. /\ \A f \in after : sock[f] = "free"
          /\ \A f \in before : sock'[f] = "free"
          /\ \A f \in Fds \ before : sock[f] # "free" => sock'[f] = sock[f]
      BY <3>1 DEF Replaced
    <3> QED BY <2>2, <3>2 DEF TurnKeepsSockets
  <2>4. ASSUME NEW c \in Configurations, GlobalInitFails(c), UNCHANGED spy_global
        PROVE  TurnKeepsSockets
    <3>1. \A f \in Fds : sock[f] # "free" => sock'[f] = sock[f]
      BY <2>1, <2>4, GlobalInitLeaves DEF OnlyFreeChanged
    <3> QED BY <2>2, <2>4, <3>1 DEF TurnKeepsSockets
  <2>5. ~ GlobalInitFaults
    BY DEF GlobalInitFaults
  <2> QED BY <1>3, <2>3, <2>4, <2>5 DEF Reload
<1> QED BY <1>1, <1>2, <1>3

(* A reload is all or nothing: one that fails leaves every socket of the     *)
(* running global as it was, one that succeeds closes those of the old       *)
(* global, and no other socket that was open changes.                        *)
THEOREM ReloadAtomic == ReloadSpec => ReloadAllOrNothing
<1>1. ReloadIInv /\ [ReloadNext]_reloadVars => [TurnKeepsSockets]_reloadVars
  BY TurnStep
<1>2. [TurnKeepsSockets]_reloadVars <=>
      [turn = "handle" /\ turn' = "select" /\ pc' = "run" =>
          LET before == FdsOf(ToSet(spy_global))
              after  == FdsOf(ToSet(spy_global'))
          IN  /\ before = after => \A f \in before : sock'[f] = sock[f]
              /\ before # after => \A f \in before \ after : sock'[f] = "free"
              /\ \A f \in Fds \ before : sock[f] # "free" => sock'[f] = sock[f] ]_reloadVars
  BY DEF TurnKeepsSockets
<1> QED BY <1>1, <1>2, ReloadInvariant, PTL DEF ReloadSpec, ReloadAllOrNothing
=============================================================================
