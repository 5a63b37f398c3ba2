------------------------ MODULE SpyConnection_proof ------------------------
(* Proofs about the connection pool, for any number of slots and any set of  *)
(* descriptor numbers. The lemmas speak of the operations on any well-formed *)
(* pool, so that modules that compose the pool can use them.                 *)
EXTENDS SpyConnection, FiniteSetTheorems, TLAPS

(* What an operation relies on and keeps: the types and the free list. The   *)
(* type alone is not inductive: the counter stays within 0 .. connection_n   *)
(* only because it is the length of a list that visits no slot twice.        *)
PoolOK(p) == p \in PoolType /\ FreeListOK(p)

-----------------------------------------------------------------------------
(* A list of slots without repetition that misses one is shorter than the    *)
(* array: the counter has room for the slot being freed.                     *)
LEMMA ShorterThanArray ==
    ASSUME NEW n \in Nat, NEW s \in [1 .. n -> Connections], NEW c \in Connections,
           \A i, j \in 1 .. n : s[i] = s[j] => i = j,
           \A i \in 1 .. n : s[i] # c
    PROVE  n < connection_n
<1>1. SUFFICES ASSUME n >= connection_n PROVE FALSE
  BY ConnectionNAssumption
<1> DEFINE Others == Connections \ {c}
<1>2. IsFiniteSet(1 .. n) /\ Cardinality(1 .. n) = n
  BY FS_Interval
<1>3. IsFiniteSet(Connections) /\ Cardinality(Connections) = connection_n
  BY FS_Interval, ConnectionNAssumption DEF Connections
<1>4. IsFiniteSet(Others) /\ Cardinality(Others) = connection_n - 1
  BY <1>3, FS_RemoveElement
<1>5. Cardinality(Others) < Cardinality(1 .. n)
  BY <1>1, <1>2, <1>4, ConnectionNAssumption
<1>6. s \in [1 .. n -> Others]
  OBVIOUS
<1>7. \E x, y \in 1 .. n : x # y /\ s[x] = s[y]
  <2> HIDE DEF Others
  <2> QED BY <1>2, <1>4, <1>5, <1>6, FS_PigeonHole
<1> QED BY <1>7

(* The pool spy_event_init builds is well formed: the list visits the slots  *)
(* in the order of the array.                                                *)
LEMMA InitialPoolOK == PoolOK(InitialPool)
<1> USE ConnectionNAssumption
<1> DEFINE s == [i \in 1 .. connection_n |-> i - 1]
<1>1. InitialPool \in PoolType
  BY DEF InitialPool, PoolType, Connections, NoFd
<1>2. s \in [1 .. InitialPool.free_connection_n -> Connections]
  BY DEF InitialPool, Connections
<1>3. IsFreeList(InitialPool, s)
  <2>1. InitialPool.free_connection_n = connection_n /\ InitialPool.free_connections = 0
    BY DEF InitialPool
  <2>2. \A c \in Connections : ~ IsOpen(InitialPool, c)
    BY DEF InitialPool, IsOpen
  <2>3. \A c \in Connections : \E i \in 1 .. connection_n : s[i] = c
    <3> TAKE c \in Connections
    <3>1. c + 1 \in 1 .. connection_n /\ s[c + 1] = c
      BY DEF Connections
    <3> QED BY <3>1
  <2>4. \A i \in 1 .. connection_n :
          InitialPool.data[s[i]] = IF i = connection_n THEN Null ELSE s[i + 1]
    BY DEF InitialPool, Connections
  <2>5. \A i, j \in 1 .. connection_n : s[i] = s[j] => i = j
    OBVIOUS
  <2>6. s[1] = 0
    OBVIOUS
  <2> HIDE DEF s
  <2> QED BY <2>1, <2>2, <2>3, <2>4, <2>5, <2>6 DEF IsFreeList
<1> QED BY <1>1, <1>2, <1>3 DEF PoolOK, FreeListOK

(* The slot spy_get_connection takes is a free one.                          *)
LEMMA HeadIsFree ==
    ASSUME NEW p, PoolOK(p), CanGet(p)
    PROVE  p.free_connections \in Connections /\ ~ IsOpen(p, p.free_connections)
<1>1. PICK s \in [1 .. p.free_connection_n -> Connections] : IsFreeList(p, s)
  BY DEF PoolOK, FreeListOK
<1>2. p.free_connection_n \in Nat
  BY ConnectionNAssumption DEF PoolOK, PoolType
<1>3. p.free_connections = s[1] /\ 1 \in 1 .. p.free_connection_n
  BY <1>1, <1>2 DEF CanGet, IsFreeList
<1> QED BY <1>1, <1>3 DEF IsFreeList

(* Taking a slot removes the head of the list and leaves the rest.           *)
LEMMA GetConnectionOK ==
    ASSUME NEW p, PoolOK(p), NEW f \in Fds, CanGet(p)
    PROVE  PoolOK(GetConnection(p, f))
<1> USE ConnectionNAssumption, FdsAssumption
<1> DEFINE n == p.free_connection_n
           c == p.free_connections
           q == GetConnection(p, f)
<1>1. p \in PoolType /\ n \in Nat
  BY DEF PoolOK, PoolType
<1>2. PICK s \in [1 .. n -> Connections] : IsFreeList(p, s)
  BY DEF PoolOK, FreeListOK
<1>3. n > 0 /\ c = s[1] /\ c \in Connections
  BY <1>1, <1>2 DEF IsFreeList, CanGet
<1>4. q = [ free_connections  |-> p.data[c],
            free_connection_n |-> n - 1,
            data              |-> [p.data EXCEPT ![c] = Null],
            fd                |-> [p.fd EXCEPT ![c] = f] ]
  BY DEF GetConnection
<1> DEFINE t == [i \in 1 .. n - 1 |-> s[i + 1]]
<1>5. p.data[c] = IF n = 1 THEN Null ELSE s[2]
  BY <1>1, <1>2, <1>3 DEF IsFreeList
<1>6. q \in PoolType
  BY <1>1, <1>3, <1>4, <1>5 DEF PoolType
<1>7. t \in [1 .. q.free_connection_n -> Connections]
  BY <1>1, <1>3, <1>4
<1>8. IsFreeList(q, t)
  <2>1. q.free_connection_n = n - 1
    BY <1>4
  <2>2. \A i, j \in 1 .. n - 1 : t[i] = t[j] => i = j
    BY <1>1, <1>2 DEF IsFreeList
  <2>3. \A d \in Connections : (\E i \in 1 .. n - 1 : t[i] = d) <=> ~ IsOpen(q, d)
    <3> TAKE d \in Connections
    <3>1. (\E i \in 1 .. n - 1 : t[i] = d) <=> (\E i \in 2 .. n : s[i] = d)
      <4>1. \A i \in 1 .. n - 1 : i + 1 \in 2 .. n /\ t[i] = s[i + 1]
        BY <1>1
      <4>2. \A i \in 2 .. n : i - 1 \in 1 .. n - 1 /\ t[i - 1] = s[i]
        BY <1>1
      <4> QED BY <4>1, <4>2
    <3>2. CASE d = c
      <4>1. ~ \E i \in 2 .. n : s[i] = c
        BY <1>1, <1>2, <1>3 DEF IsFreeList
      <4>2. IsOpen(q, c)
        BY <1>1, <1>3, <1>4 DEF IsOpen, NoFd, PoolType
      <4> QED BY <3>1, <3>2, <4>1, <4>2
    <3>3. CASE d # c
      <4>1. (\E i \in 2 .. n : s[i] = d) <=> (\E i \in 1 .. n : s[i] = d)
        BY <1>1, <1>3, <3>3
      <4>2. IsOpen(q, d) <=> IsOpen(p, d)
        BY <1>1, <1>4, <3>3 DEF IsOpen, PoolType
      <4> QED BY <1>2, <3>1, <4>1, <4>2 DEF IsFreeList
    <3> QED BY <3>2, <3>3
  <2>4. q.free_connections = IF n - 1 = 0 THEN Null ELSE t[1]
    BY <1>1, <1>3, <1>4, <1>5
  <2>5. \A i \in 1 .. n - 1 : q.data[t[i]] = IF i = n - 1 THEN Null ELSE t[i + 1]
    <3> TAKE i \in 1 .. n - 1
    <3>1. t[i] = s[i + 1] /\ i + 1 \in 1 .. n /\ i + 1 # 1
      BY <1>1
    <3>2. s[i + 1] # c
      BY <1>1, <1>2, <1>3, <3>1 DEF IsFreeList
    <3>3. q.data[t[i]] = p.data[s[i + 1]]
      BY <1>1, <1>4, <3>1, <3>2 DEF PoolType
    <3>4. p.data[s[i + 1]] = IF i + 1 = n THEN Null ELSE s[i + 2]
      BY <1>1, <1>2, <3>1 DEF IsFreeList
    <3> QED BY <1>1, <3>3, <3>4
  <2> HIDE DEF q, t, n
  <2> QED BY <2>1, <2>2, <2>3, <2>4, <2>5 DEF IsFreeList
<1> QED BY <1>6, <1>7, <1>8 DEF PoolOK, FreeListOK

(* Freeing an open slot puts it in front of the list.                        *)
LEMMA CloseAcceptedOK ==
    ASSUME NEW p, PoolOK(p), NEW c \in Connections, IsOpen(p, c)
    PROVE  PoolOK(CloseAccepted(p, c))
<1> USE ConnectionNAssumption
<1> DEFINE n == p.free_connection_n
           q == CloseAccepted(p, c)
<1>1. p \in PoolType /\ n \in 0 .. connection_n
  BY DEF PoolOK, PoolType
<1>2. PICK s \in [1 .. n -> Connections] : IsFreeList(p, s)
  BY DEF PoolOK, FreeListOK
<1>3. \A i \in 1 .. n : s[i] # c
  BY <1>2 DEF IsFreeList
<1>4. /\ q.free_connections = c
      /\ q.free_connection_n = n + 1
      /\ q.data = [p.data EXCEPT ![c] = p.free_connections]
      /\ q.fd = [p.fd EXCEPT ![c] = NoFd]
  BY DEF CloseAccepted, FreeConnection
<1>5. n < connection_n
  <2>1. \A i, j \in 1 .. n : s[i] = s[j] => i = j
    BY <1>2 DEF IsFreeList
  <2> QED BY <1>1, <1>3, <2>1, ShorterThanArray
<1>6. q \in PoolType
  <2>1. FreeConnection(p, c) \in PoolType
    BY <1>1, <1>5 DEF FreeConnection, PoolType
  <2> QED BY <2>1 DEF CloseAccepted, PoolType, NoFd
<1> DEFINE t == [i \in 1 .. n + 1 |-> IF i = 1 THEN c ELSE s[i - 1]]
<1>7. t \in [1 .. n + 1 -> Connections]
  BY <1>1
<1>8. /\ t[1] = c
      /\ \A i \in 2 .. n + 1 : i - 1 \in 1 .. n /\ t[i] = s[i - 1]
      /\ \A i \in 1 .. n : i + 1 \in 2 .. n + 1 /\ t[i + 1] = s[i]
  BY <1>1
<1>9. IsFreeList(q, t)
  <2>1. \A i, j \in 1 .. n + 1 : t[i] = t[j] => i = j
    <3> TAKE i, j \in 1 .. n + 1
    <3>1. i = 1 \/ i \in 2 .. n + 1
      BY <1>1
    <3>2. j = 1 \/ j \in 2 .. n + 1
      BY <1>1
    <3> HIDE DEF t
    <3>3. CASE i \in 2 .. n + 1 /\ j \in 2 .. n + 1
      BY <1>1, <1>2, <1>8, <3>3 DEF IsFreeList
    <3> QED BY <1>3, <1>8, <3>1, <3>2, <3>3
  <2>2. \A d \in Connections : (\E i \in 1 .. n + 1 : t[i] = d) <=> ~ IsOpen(q, d)
    <3> TAKE d \in Connections
    <3>1. CASE d = c
      <4>1. ~ IsOpen(q, c)
        BY <1>1, <1>4 DEF IsOpen, PoolType
      <4>2. 1 \in 1 .. n + 1
        BY <1>1
      <4> QED BY <1>8, <3>1, <4>1, <4>2
    <3>2. CASE d # c
      <4>1. IsOpen(q, d) <=> IsOpen(p, d)
        BY <1>1, <1>4, <3>2 DEF IsOpen, PoolType
      <4>2. (\E i \in 1 .. n : s[i] = d) <=> ~ IsOpen(p, d)
        BY <1>2 DEF IsFreeList
      <4>3. \A i \in 1 .. n + 1 : i = 1 \/ i \in 2 .. n + 1
        BY <1>1
      <4>4. \A i \in 1 .. n : i + 1 \in 1 .. n + 1
        BY <1>1
      <4> HIDE DEF t
      <4>5. (\E i \in 1 .. n + 1 : t[i] = d) => (\E i \in 1 .. n : s[i] = d)
        BY <1>8, <3>2, <4>3
      <4>6. (\E i \in 1 .. n : s[i] = d) => (\E i \in 1 .. n + 1 : t[i] = d)
        BY <1>8, <4>4
      <4> QED BY <4>1, <4>2, <4>5, <4>6
    <3> QED BY <3>1, <3>2
  <2>3. q.free_connections = IF n + 1 = 0 THEN Null ELSE t[1]
    BY <1>1, <1>4, <1>8
  <2>4. \A i \in 1 .. n + 1 : q.data[t[i]] = IF i = n + 1 THEN Null ELSE t[i + 1]
    <3> TAKE i \in 1 .. n + 1
    <3>1. CASE i = 1
      <4>1. q.data[t[1]] = IF n = 0 THEN Null ELSE s[1]
        BY <1>1, <1>2, <1>4, <1>8 DEF IsFreeList, PoolType
      <4>2. n # 0 => t[2] = s[1]
        BY <1>1
      <4> QED BY <1>1, <3>1, <4>1, <4>2
    <3>2. CASE i \in 2 .. n + 1
      <4>1. t[i] = s[i - 1] /\ i - 1 \in 1 .. n
        BY <1>8, <3>2
      <4>2. q.data[t[i]] = p.data[s[i - 1]]
        BY <1>1, <1>3, <1>4, <4>1 DEF PoolType
      <4>3. p.data[s[i - 1]] = IF i - 1 = n THEN Null ELSE s[i]
        <5>1. (i - 1) + 1 = i
          BY <3>2
        <5> QED BY <1>2, <4>1, <5>1 DEF IsFreeList
      <4>4. i # n + 1 => i \in 1 .. n /\ t[i + 1] = s[i]
        BY <1>1, <1>8, <3>2
      <4> QED BY <1>1, <3>2, <4>2, <4>3, <4>4
    <3> QED BY <1>1, <3>1, <3>2
  <2> HIDE DEF q, t, n
  <2> QED BY <1>4, <2>1, <2>2, <2>3, <2>4 DEF IsFreeList
<1> QED BY <1>4, <1>6, <1>7, <1>9 DEF PoolOK, FreeListOK

(* Closing keeps the pool well formed whatever the slot: the guard in        *)
(* spy_close_connection makes the second of two calls harmless.              *)
LEMMA CloseConnectionOK ==
    ASSUME NEW p, PoolOK(p), NEW c \in Connections
    PROVE  PoolOK(CloseConnection(p, c))
BY CloseAcceptedOK DEF CloseConnection

(* A slot in use is not in the list, so its "data" may point elsewhere.      *)
LEMMA AttachRequestOK ==
    ASSUME NEW p, PoolOK(p), NEW c \in Connections, IsOpen(p, c)
    PROVE  PoolOK(AttachRequest(p, c))
<1> DEFINE n == p.free_connection_n
           q == AttachRequest(p, c)
<1>1. p \in PoolType
  BY DEF PoolOK
<1>2. PICK s \in [1 .. n -> Connections] : IsFreeList(p, s)
  BY DEF PoolOK, FreeListOK
<1>3. \A i \in 1 .. n : s[i] # c
  BY <1>2 DEF IsFreeList
<1>4. /\ q.free_connections = p.free_connections
      /\ q.free_connection_n = n
      /\ q.data = [p.data EXCEPT ![c] = Request]
      /\ q.fd = p.fd
  BY <1>1 DEF AttachRequest, PoolType
<1>5. q \in PoolType
  BY <1>1 DEF AttachRequest, PoolType
<1>6. IsFreeList(q, s)
  <2>1. \A i \in 1 .. n : q.data[s[i]] = p.data[s[i]]
    BY <1>1, <1>3, <1>4 DEF PoolType
  <2>2. \A d \in Connections : IsOpen(q, d) <=> IsOpen(p, d)
    BY <1>4 DEF IsOpen
  <2> HIDE DEF q
  <2> QED BY <1>2, <1>4, <2>1, <2>2 DEF IsFreeList
<1> QED BY <1>4, <1>5, <1>6 DEF PoolOK, FreeListOK

-----------------------------------------------------------------------------
(* Every step of the pool on its own keeps it well formed.                   *)
LEMMA PoolStep ==
    ASSUME PoolOK(pool), [PoolNext]_pool
    PROVE  PoolOK(pool)'
<1> USE DEF PoolOK
<1>1. ASSUME NEW s \in Fds, Get(s) PROVE PoolOK(pool)'
  BY <1>1, GetConnectionOK DEF Get
<1>2. ASSUME NEW c \in Connections, Attach(c) PROVE PoolOK(pool)'
  BY <1>2, AttachRequestOK DEF Attach
<1>3. ASSUME NEW c \in Connections, Abandon(c) PROVE PoolOK(pool)'
  BY <1>3, CloseAcceptedOK DEF Abandon
<1>4. ASSUME NEW c \in Connections, Close(c) PROVE PoolOK(pool)'
  BY <1>4, CloseConnectionOK DEF Close
<1>5. CASE UNCHANGED pool
  BY <1>5
<1> QED BY <1>1, <1>2, <1>3, <1>4, <1>5 DEF PoolNext

(* The pool is always well formed: its fields keep their types, and          *)
(* following the links of the free list visits exactly the closed slots.     *)
THEOREM PoolAlwaysOK == PoolSpec => [](PoolTypeOK /\ PoolFreeListOK)
<1>1. PoolInit => PoolOK(pool)
  BY InitialPoolOK DEF PoolInit
<1>2. PoolOK(pool) /\ [PoolNext]_pool => PoolOK(pool)'
  BY PoolStep
<1>3. PoolOK(pool) => PoolTypeOK /\ PoolFreeListOK
  BY DEF PoolOK, PoolTypeOK, PoolFreeListOK
<1> QED BY <1>1, <1>2, <1>3, PTL DEF PoolSpec

-----------------------------------------------------------------------------
(* spy_get_connection refuses exactly when every slot is in use.             *)
LEMMA RefusesWhenFull ==
    ASSUME NEW p, PoolOK(p)
    PROVE  (p.free_connections = Null) <=> AbstractPool!Full(p.fd)
<1>1. p \in PoolType /\ p.free_connection_n \in Nat
  BY ConnectionNAssumption DEF PoolOK, PoolType
<1>2. PICK s \in [1 .. p.free_connection_n -> Connections] : IsFreeList(p, s)
  BY DEF PoolOK, FreeListOK
<1>3. CASE p.free_connection_n = 0
  BY <1>2, <1>3 DEF IsFreeList, IsOpen, AbstractPool!Full
<1>4. CASE p.free_connection_n # 0
  <2>1. s[1] \in Connections /\ 1 \in 1 .. p.free_connection_n
    BY <1>1, <1>4
  <2>2. p.free_connections = s[1] /\ ~ IsOpen(p, s[1])
    BY <1>2, <1>4, <2>1 DEF IsFreeList
  <2> QED BY <2>1, <2>2, NullAssumption DEF IsOpen, AbstractPool!Full
<1> QED BY <1>3, <1>4

(* A step of the pool is a step of the abstract pool or changes nothing it   *)
(* can see.                                                                  *)
LEMMA PoolStepRefines ==
    ASSUME PoolOK(pool), PoolOK(pool)', [PoolNext]_pool
    PROVE  [AbstractPool!Next]_<<pool.fd, pool.free_connections = Null>>
<1> DEFINE fd == pool.fd
           refused == pool.free_connections = Null
<1>1. refused' <=> AbstractPool!Full(fd')
  BY RefusesWhenFull
<1>2. fd \in [Connections -> Fds \cup {NoFd}]
  BY DEF PoolOK, PoolType
<1>3. ASSUME NEW s \in Fds, Get(s) PROVE AbstractPool!Next
  <2> DEFINE c == pool.free_connections
  <2>1. c \in Connections /\ ~ IsOpen(pool, c)
    BY <1>3, HeadIsFree DEF Get
  <2>2. fd' = [fd EXCEPT ![c] = s]
    BY <1>3 DEF Get, GetConnection
  <2> QED BY <1>1, <1>3, <2>1, <2>2
          DEF AbstractPool!Next, AbstractPool!Give, IsOpen
<1>4. ASSUME NEW c \in Connections, IsOpen(pool, c), pool' = CloseAccepted(pool, c)
      PROVE  AbstractPool!Next
  <2>1. fd' = [fd EXCEPT ![c] = NoFd]
    BY <1>4 DEF CloseAccepted, FreeConnection
  <2> QED BY <1>1, <1>4, <2>1 DEF AbstractPool!Next, AbstractPool!TakeBack, IsOpen
<1>5. ASSUME NEW c \in Connections, Attach(c) PROVE UNCHANGED <<fd, refused>>
  BY <1>5 DEF Attach, AttachRequest, PoolOK, PoolType
<1>6. ASSUME NEW c \in Connections, Abandon(c) PROVE AbstractPool!Next
  BY <1>4, <1>6 DEF Abandon
<1>7. ASSUME NEW c \in Connections, Close(c) PROVE [AbstractPool!Next]_<<fd, refused>>
  BY <1>4, <1>7 DEF Close, CloseConnection
<1>8. CASE UNCHANGED pool
  BY <1>8
<1> QED BY <1>3, <1>5, <1>6, <1>7, <1>8 DEF PoolNext

(* The linked pool implements the abstract one: a slot is given to one       *)
(* descriptor at a time, and a request is refused only when all are held.    *)
THEOREM PoolImplementsConnectionPool == PoolSpec => ImplementsConnectionPool
<1>1. PoolInit => PoolOK(pool)
  BY InitialPoolOK DEF PoolInit
<1>2. PoolInit => AbstractPool!Init
  <2> SUFFICES ASSUME PoolInit PROVE AbstractPool!Init
    OBVIOUS
  <2>1. (pool.free_connections = Null) <=> AbstractPool!Full(pool.fd)
    BY <1>1, RefusesWhenFull
  <2>2. pool.fd \in [Connections -> Fds \cup {NoFd}]
    BY <1>1 DEF PoolOK, PoolType
  <2> QED BY <2>1, <2>2 DEF AbstractPool!Init
<1>3. PoolOK(pool) /\ [PoolNext]_pool => PoolOK(pool)'
  BY PoolStep
<1>4. PoolOK(pool) /\ PoolOK(pool)' /\ [PoolNext]_pool
        => [AbstractPool!Next]_<<pool.fd, pool.free_connections = Null>>
  BY PoolStepRefines
<1> QED BY <1>1, <1>2, <1>3, <1>4, PTL
        DEF PoolSpec, ImplementsConnectionPool, AbstractPool!Spec
=============================================================================
