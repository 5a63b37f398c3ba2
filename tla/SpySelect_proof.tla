-------------------------- MODULE SpySelect_proof --------------------------
(* Proofs about the select(2) backend on top of the pool, for any number of  *)
(* slots and descriptors.                                                    *)
EXTENDS SpySelect, SpyConnection_proof, FiniteInduction

(* The inductive invariant. The index alone is not inductive: taking a slot  *)
(* clears its events, which is harmless only because no closed connection is *)
(* watched; and deleting one event must clear the bit of no other, which     *)
(* needs the descriptors of open connections to be distinct.                 *)
TablesOK(s, p) ==
    /\ FdsDistinct(p)
    /\ s \in SelectType
    /\ TableOK(s)
    /\ WatchedAreOpen(s, p)
    /\ MasterSetsOK(s, p)
    /\ MaxFdOK(s, p)

SelectIInv == PoolOK(pool) /\ TablesOK(sel, pool)

-----------------------------------------------------------------------------
\* An event is its connection and its kind.
LEMMA EventParts ==
    /\ \A e \in Events : /\ ConnectionOf(e) \in Connections
                         /\ KindOf(e) \in Kinds
                         /\ e = <<ConnectionOf(e), KindOf(e)>>
    /\ \A c \in Connections, k \in Kinds :
          <<c, k>> \in Events /\ ConnectionOf(<<c, k>>) = c /\ KindOf(<<c, k>>) = k
BY DEF Events, ConnectionOf, KindOf

\* The two events of a slot.
LEMMA EventsOfSlot ==
    ASSUME NEW c \in Connections
    PROVE  /\ ReadEvent(c) \in Events /\ WriteEvent(c) \in Events
           /\ ReadEvent(c) # WriteEvent(c)
           /\ ConnectionOf(ReadEvent(c)) = c /\ ConnectionOf(WriteEvent(c)) = c
           /\ \A e \in Events : ConnectionOf(e) = c => e \in EventsOf(c)
BY DEF Events, Kinds, ConnectionOf, ReadEvent, WriteEvent, EventsOf

\* There are twice as many events as slots.
LEMMA EventsCount == IsFiniteSet(Events) /\ Cardinality(Events) = 2 * connection_n
<1>1. IsFiniteSet(Connections) /\ Cardinality(Connections) = connection_n
  BY FS_Interval, ConnectionNAssumption DEF Connections
<1>2. IsFiniteSet(Kinds) /\ Cardinality(Kinds) = 2
  <2>1. IsFiniteSet({"write"}) /\ Cardinality({"write"}) = 1
    BY FS_Singleton
  <2>2. Kinds = {"write"} \cup {"read"} /\ "read" \notin {"write"}
    BY DEF Kinds
  <2> QED BY <2>1, <2>2, FS_AddElement
<1>3. IsFiniteSet(Events) /\ Cardinality(Events) = Cardinality(Connections) * Cardinality(Kinds)
  BY <1>1, <1>2, FS_Product DEF Events
<1> QED BY <1>1, <1>2, <1>3, ConnectionNAssumption

(* event_index never overflows: its entries are distinct events, so there is *)
(* room for one that is not watched yet.                                     *)
LEMMA RoomForOne ==
    ASSUME NEW s \in SelectType, TableOK(s), NEW e \in Events, ~ s.active[e]
    PROVE  s.nevents < 2 * connection_n
<1> DEFINE n == s.nevents
           f == [i \in 1 .. n |-> s.event_index[i - 1]]
           Others == Events \ {e}
<1>1. n \in Nat /\ connection_n \in Nat
  BY ConnectionNAssumption DEF SelectType
<1>2. SUFFICES ASSUME n >= 2 * connection_n PROVE FALSE
  BY <1>1
<1>3. IsFiniteSet(1 .. n) /\ Cardinality(1 .. n) = n
  BY <1>1, FS_Interval, SMTT(30)
<1>4. IsFiniteSet(Others) /\ Cardinality(Others) = 2 * connection_n - 1
  BY EventsCount, FS_RemoveElement
<1>5. Cardinality(Others) < Cardinality(1 .. n)
  BY <1>1, <1>2, <1>3, <1>4
<1>6. \A i \in 1 .. n : i - 1 \in 0 .. n - 1
  BY <1>1
<1>7. f \in [1 .. n -> Others]
  <2>1. \A i \in 0 .. n - 1 : s.event_index[i] \in Others
    BY DEF TableOK
  <2> HIDE DEF n, Others
  <2> QED BY <1>6, <2>1
<1>8. PICK i, j \in 1 .. n : i # j /\ f[i] = f[j]
  <2> HIDE DEF f, Others, n
  <2>1. \E i, j \in 1 .. n : i # j /\ f[i] = f[j]
    BY <1>3, <1>4, <1>5, <1>7, FS_PigeonHole
  <2> QED BY <2>1
<1>9. s.index[f[i]] = i - 1 /\ s.index[f[j]] = j - 1
  BY <1>6 DEF TableOK
<1> QED BY <1>1, <1>8, <1>9

-----------------------------------------------------------------------------
(* What watching an event does to the tables, whoever its connection is: the *)
(* index stays right, and the bit of its descriptor is set.                  *)
EventAdded(t, s, e, f) ==
    /\ t \in SelectType /\ TableOK(t)
    /\ t.max_fd = IF s.max_fd # NoFd /\ s.max_fd < f THEN f ELSE s.max_fd
    /\ \A d \in Events : t.active[d] <=> s.active[d] \/ d = e
    /\ \A k \in Kinds : t.master[k] = IF k = KindOf(e) THEN s.master[k] \cup {f} ELSE s.master[k]

LEMMA AddEventTable ==
    ASSUME NEW s \in SelectType, TableOK(s), NEW e \in Events, s.index[e] = InvalidIndex,
           NEW f \in Fds
    PROVE  EventAdded(AddEvent(s, e, f), s, e, f)
<1> DEFINE t == AddEvent(s, e, f)
           n == s.nevents
<1>1. s \in SelectType /\ n \in Nat /\ connection_n \in Nat
  BY ConnectionNAssumption DEF SelectType
<1>2. ~ s.active[e]
  BY <1>1 DEF TableOK, InvalidIndex
<1>3. n < 2 * connection_n /\ n \in Slots
  <2>1. n < 2 * connection_n
    BY <1>1, <1>2, RoomForOne
  <2> QED BY <1>1, <2>1 DEF Slots
<1>4. ConnectionOf(e) \in Connections /\ KindOf(e) \in Kinds
  BY EventParts
<1>5. f \in Fds /\ f \in Nat
  BY FdsAssumption
<1>6. t = [ max_fd      |-> IF s.max_fd # NoFd /\ s.max_fd < f THEN f ELSE s.max_fd,
            nevents     |-> n + 1,
            event_index |-> [s.event_index EXCEPT ![n] = e],
            active      |-> [s.active EXCEPT ![e] = TRUE],
            index       |-> [s.index EXCEPT ![e] = n],
            master      |-> [s.master EXCEPT ![KindOf(e)] = @ \cup {f}] ]
  BY DEF AddEvent
<1> HIDE DEF t
<1>7. t \in SelectType
  <2>1. t.max_fd \in Fds \cup {NoFd}
    BY <1>1, <1>5, <1>6 DEF SelectType
  <2>2. t.nevents \in 0 .. 2 * connection_n
    BY <1>1, <1>3, <1>6
  <2>3. t.event_index \in [Slots -> Events \cup {Null}]
    BY <1>1, <1>6 DEF SelectType
  <2>4. t.active \in [Events -> BOOLEAN]
    BY <1>1, <1>6 DEF SelectType
  <2>5. t.index \in [Events -> Slots \cup {InvalidIndex}]
    BY <1>1, <1>3, <1>6 DEF SelectType
  <2>6. t.master \in [Kinds -> SUBSET Fds]
    BY <1>1, <1>5, <1>6 DEF SelectType
  <2> QED BY <1>6, <2>1, <2>2, <2>3, <2>4, <2>5, <2>6 DEF SelectType
<1>8. TableOK(t)
  <2>1. ASSUME NEW i \in 0 .. t.nevents - 1
        PROVE  /\ t.event_index[i] \in Events
               /\ t.active[t.event_index[i]]
               /\ t.index[t.event_index[i]] = i
    <3>1. CASE i = n
      BY <1>1, <1>3, <1>6, <3>1 DEF SelectType
    <3>2. CASE i # n
      <4>1. i \in 0 .. n - 1 /\ i \in Slots
        BY <1>1, <1>3, <1>6, <3>2 DEF Slots
      <4>2. t.event_index[i] = s.event_index[i]
        BY <1>1, <1>6, <3>2, <4>1 DEF SelectType
      <4>3. s.event_index[i] \in Events /\ s.active[s.event_index[i]] /\ s.index[s.event_index[i]] = i
        BY <4>1 DEF TableOK
      <4>4. s.event_index[i] # e
        BY <1>2, <4>3
      <4> QED BY <1>1, <1>6, <4>2, <4>3, <4>4 DEF SelectType
    <3> QED BY <3>1, <3>2
  <2>2. ASSUME NEW d \in Events
        PROVE  IF t.active[d]
               THEN t.index[d] \in 0 .. t.nevents - 1 /\ t.event_index[t.index[d]] = d
               ELSE t.index[d] = InvalidIndex
    <3>1. CASE d = e
      BY <1>1, <1>3, <1>6, <3>1 DEF SelectType
    <3>2. CASE d # e
      <4>1. t.active[d] = s.active[d] /\ t.index[d] = s.index[d]
        BY <1>1, <1>6, <3>2 DEF SelectType
      <4>2. s.active[d] => s.index[d] \in 0 .. n - 1 /\ s.event_index[s.index[d]] = d
        BY DEF TableOK
      <4>3. ~ s.active[d] => s.index[d] = InvalidIndex
        BY DEF TableOK
      <4>4. ASSUME s.active[d] PROVE t.event_index[s.index[d]] = d
        BY <1>1, <1>3, <1>6, <4>2, <4>4 DEF SelectType, Slots
      <4>5. CASE s.active[d]
        <5>1. t.nevents = n + 1
          BY <1>6
        <5> QED BY <1>1, <4>1, <4>2, <4>4, <4>5, <5>1
      <4>6. CASE ~ s.active[d]
        BY <4>1, <4>3, <4>6
      <4> QED BY <4>5, <4>6
    <3> QED BY <3>1, <3>2
  <2> QED BY <2>1, <2>2 DEF TableOK
<1>9. \A d \in Events : t.active[d] <=> s.active[d] \/ d = e
  BY <1>1, <1>6 DEF SelectType
<1>10. \A k \in Kinds : t.master[k] = IF k = KindOf(e) THEN s.master[k] \cup {f} ELSE s.master[k]
  BY <1>1, <1>6 DEF SelectType
<1> QED BY <1>6, <1>7, <1>8, <1>9, <1>10 DEF EventAdded, t

(* What deleting a watched event does: the entry that moves is told so, and  *)
(* the bit of the descriptor is cleared.                                     *)
EventDeleted(t, s, e, f) ==
    /\ t \in SelectType /\ TableOK(t)
    /\ t.max_fd = IF s.max_fd = f THEN NoFd ELSE s.max_fd
    /\ \A d \in Events : t.active[d] <=> s.active[d] /\ d # e
    /\ \A k \in Kinds : t.master[k] = IF k = KindOf(e) THEN s.master[k] \ {f} ELSE s.master[k]

LEMMA DelEventTable ==
    ASSUME NEW s \in SelectType, TableOK(s), NEW e \in Events, s.index[e] # InvalidIndex,
           NEW f \in Fds
    PROVE  EventDeleted(DelEvent(s, e, f), s, e, f)
<1> DEFINE t     == DelEvent(s, e, f)
           hole  == s.index[e]
           last  == s.nevents - 1
           moved == s.event_index[last]
<1>0. connection_n \in Nat
  BY ConnectionNAssumption
<1>1. s.active[e] /\ hole \in 0 .. last /\ s.event_index[hole] = e
  BY <1>0 DEF TableOK
<1>2. /\ s.nevents \in 1 .. 2 * connection_n
      /\ last \in 0 .. s.nevents - 1
      /\ hole \in 0 .. s.nevents - 1
      /\ hole \in Slots /\ last \in Slots
  BY <1>0, <1>1 DEF SelectType, Slots
<1>3. moved \in Events /\ s.active[moved] /\ s.index[moved] = last
  BY <1>2 DEF TableOK
<1>4. ConnectionOf(e) \in Connections /\ KindOf(e) \in Kinds
  BY EventParts
<1>5. f \in Fds /\ f \in Nat
  BY FdsAssumption
<1>6. t = [ max_fd      |-> IF s.max_fd = f THEN NoFd ELSE s.max_fd,
            nevents     |-> last,
            event_index |-> [s.event_index EXCEPT ![hole] = moved],
            active      |-> [s.active EXCEPT ![e] = FALSE],
            index       |-> [s.index EXCEPT ![moved] = hole, ![e] = InvalidIndex],
            master      |-> [s.master EXCEPT ![KindOf(e)] = @ \ {f}] ]
  BY DEF DelEvent
<1> HIDE DEF t, hole, last, moved
<1>7. t \in SelectType
  <2>1. t.max_fd \in Fds \cup {NoFd}
    BY <1>0, <1>6 DEF SelectType
  <2>2. t.nevents \in 0 .. 2 * connection_n
    BY <1>0, <1>2, <1>6 DEF last
  <2>3. t.event_index \in [Slots -> Events \cup {Null}]
    BY <1>0, <1>3, <1>6 DEF SelectType
  <2>4. t.active \in [Events -> BOOLEAN]
    BY <1>0, <1>6 DEF SelectType
  <2>5. t.index \in [Events -> Slots \cup {InvalidIndex}]
    BY <1>0, <1>2, <1>6 DEF SelectType
  <2>6. t.master \in [Kinds -> SUBSET Fds]
    BY <1>0, <1>6 DEF SelectType
  <2> QED BY <1>6, <2>1, <2>2, <2>3, <2>4, <2>5, <2>6 DEF SelectType
<1>8. \A d \in Events : t.active[d] <=> s.active[d] /\ d # e
  BY <1>0, <1>6 DEF SelectType
<1>9. TableOK(t)
  <2>1. ASSUME NEW i \in 0 .. t.nevents - 1
        PROVE  /\ t.event_index[i] \in Events
               /\ t.active[t.event_index[i]]
               /\ t.index[t.event_index[i]] = i
    <3>1. /\ i \in 0 .. s.nevents - 1 /\ i \in Slots /\ i # last
      BY <1>0, <1>2, <1>6 DEF last, Slots
    <3>2. s.event_index[i] \in Events /\ s.active[s.event_index[i]] /\ s.index[s.event_index[i]] = i
      BY <3>1 DEF TableOK
    <3>3. CASE i = hole
      <4>1. t.event_index[i] = moved
        BY <1>0, <1>6, <3>1, <3>3 DEF SelectType
      <4>2. moved # e
        BY <1>3, <3>1, <3>3 DEF hole
      <4> QED BY <1>0, <1>3, <1>6, <3>3, <4>1, <4>2 DEF SelectType
    <3>4. CASE i # hole
      <4>1. t.event_index[i] = s.event_index[i]
        BY <1>0, <1>6, <3>1, <3>4 DEF SelectType
      <4>2. s.event_index[i] # e /\ s.event_index[i] # moved
        BY <1>3, <3>1, <3>2, <3>4 DEF hole
      <4> QED BY <1>0, <1>6, <3>2, <4>1, <4>2 DEF SelectType
    <3> QED BY <3>3, <3>4
  <2>2. ASSUME NEW d \in Events
        PROVE  IF t.active[d]
               THEN t.index[d] \in 0 .. t.nevents - 1 /\ t.event_index[t.index[d]] = d
               ELSE t.index[d] = InvalidIndex
    <3>1. CASE d = e
      BY <1>0, <1>6, <3>1 DEF SelectType
    <3>2. CASE d # e /\ d = moved
      <4>1. t.index[d] = hole
        BY <1>0, <1>6, <3>2 DEF SelectType
      <4>2. hole # last
        BY <1>1, <3>2 DEF moved
      <4>3. hole \in 0 .. t.nevents - 1
        BY <1>0, <1>2, <1>6, <4>2 DEF last
      <4>4. t.event_index[hole] = d
        BY <1>0, <1>2, <1>6, <3>2 DEF SelectType
      <4> QED BY <1>3, <1>8, <3>2, <4>1, <4>3, <4>4
    <3>3. CASE d # e /\ d # moved
      <4>1. t.active[d] = s.active[d] /\ t.index[d] = s.index[d]
        BY <1>0, <1>6, <3>3 DEF SelectType
      <4>2. CASE ~ s.active[d]
        BY <4>1, <4>2 DEF TableOK
      <4>3. CASE s.active[d]
        <5>1. s.index[d] \in 0 .. s.nevents - 1 /\ s.event_index[s.index[d]] = d
          BY <4>3 DEF TableOK
        <5>2. s.index[d] # hole /\ s.index[d] # last
          BY <1>1, <3>3, <5>1 DEF moved
        <5>3. s.index[d] \in 0 .. t.nevents - 1
          BY <1>0, <1>2, <1>6, <5>1, <5>2 DEF last
        <5>4. t.event_index[s.index[d]] = d
          BY <1>0, <1>2, <1>6, <5>1, <5>2 DEF SelectType, Slots
        <5> QED BY <4>1, <4>3, <5>3, <5>4
      <4> QED BY <4>2, <4>3
    <3> QED BY <3>1, <3>2, <3>3
  <2> QED BY <2>1, <2>2 DEF TableOK
<1>10. \A k \in Kinds : t.master[k] = IF k = KindOf(e) THEN s.master[k] \ {f} ELSE s.master[k]
  BY <1>6 DEF SelectType
<1> QED BY <1>6, <1>7, <1>8, <1>9, <1>10 DEF EventDeleted, t

(* Watching an event of an open connection keeps the tables in agreement.    *)
LEMMA AddEventOK ==
    ASSUME NEW s, NEW p \in PoolType, TablesOK(s, p),
           NEW e \in Events, IsOpen(p, ConnectionOf(e))
    PROVE  TablesOK(AddEvent(s, e, p.fd[ConnectionOf(e)]), p)
<1> DEFINE f == p.fd[ConnectionOf(e)]
           t == AddEvent(s, e, f)
<1>1. CASE s.index[e] # InvalidIndex
  BY <1>1 DEF AddEvent
<1>2. CASE s.index[e] = InvalidIndex
  <2>1. s \in SelectType
    BY DEF TablesOK
  <2>2. ConnectionOf(e) \in Connections /\ KindOf(e) \in Kinds
    BY EventParts
  <2>3. f \in Fds /\ f \in Nat
    BY <2>2, FdsAssumption DEF IsOpen, PoolType
  <2>4. EventAdded(t, s, e, f)
    BY <1>2, <2>3, AddEventTable DEF TablesOK
  <2> HIDE DEF t, f
  <2>5. \A d \in Events : t.active[d] <=> s.active[d] \/ d = e
    BY <2>4 DEF EventAdded
  <2>6. WatchedAreOpen(t, p)
    BY <2>5 DEF TablesOK, WatchedAreOpen
  <2>7. MasterSetsOK(t, p)
    <3> SUFFICES ASSUME NEW k \in Kinds
                 PROVE  t.master[k] = {p.fd[c] : c \in {x \in Connections : t.active[<<x, k>>]}}
      BY DEF MasterSetsOK
    <3>1. s.master[k] = {p.fd[c] : c \in {x \in Connections : s.active[<<x, k>>]}}
      BY DEF TablesOK, MasterSetsOK
    <3>2. t.master[k] = IF k = KindOf(e) THEN s.master[k] \cup {f} ELSE s.master[k]
      BY <2>4 DEF EventAdded
    <3>3. \A x \in Connections : t.active[<<x, k>>] <=>
             s.active[<<x, k>>] \/ (k = KindOf(e) /\ x = ConnectionOf(e))
      BY <2>5, EventParts
    <3> QED BY <2>2, <3>1, <3>2, <3>3 DEF f
  <2>8. MaxFdOK(t, p)
    <3> SUFFICES ASSUME t.max_fd # NoFd
                 PROVE  /\ \E d \in Events : t.active[d] /\ p.fd[ConnectionOf(d)] = t.max_fd
                        /\ \A d \in Events : t.active[d] => p.fd[ConnectionOf(d)] =< t.max_fd
      BY DEF MaxFdOK
    <3>1. s.max_fd # NoFd /\ s.max_fd \in Nat
      BY <2>1, <2>3, <2>4, FdsAssumption DEF EventAdded, SelectType
    <3>2. PICK d \in Events : s.active[d] /\ p.fd[ConnectionOf(d)] = s.max_fd
      BY <3>1 DEF TablesOK, MaxFdOK
    <3>3. \A x \in Events : s.active[x] => p.fd[ConnectionOf(x)] =< s.max_fd
      BY <3>1 DEF TablesOK, MaxFdOK
    <3>4. t.max_fd = IF s.max_fd < f THEN f ELSE s.max_fd
      BY <2>4, <3>1 DEF EventAdded
    <3>5. \A x \in Events : s.active[x] => p.fd[ConnectionOf(x)] \in Int
      <4>1. \A c \in Connections : p.fd[c] \in Fds \cup {NoFd}
        BY DEF PoolType
      <4>2. Fds \cup {NoFd} \subseteq Int
        BY FdsAssumption DEF NoFd
      <4> QED BY <4>1, <4>2, EventParts
    <3>6. f = p.fd[ConnectionOf(e)]
      BY DEF f
    <3> QED BY <2>3, <2>5, <3>1, <3>2, <3>3, <3>4, <3>5, <3>6
  <2> QED BY <2>4, <2>6, <2>7, <2>8 DEF EventAdded, TablesOK, t, f
<1> QED BY <1>1, <1>2

(* Deleting an event keeps the tables in agreement, the entry that moves     *)
(* included, and touches no other event.                                     *)
LEMMA DelEventOK ==
    ASSUME NEW s, NEW p \in PoolType, TablesOK(s, p),
           NEW e \in Events, IsOpen(p, ConnectionOf(e))
    PROVE  LET t == DelEvent(s, e, p.fd[ConnectionOf(e)]) IN
           /\ TablesOK(t, p)
           /\ ~ t.active[e]
           /\ \A d \in Events : d # e => t.active[d] = s.active[d]
<1> DEFINE f == p.fd[ConnectionOf(e)]
           t == DelEvent(s, e, f)
<1>1. s \in SelectType /\ connection_n \in Nat
  BY ConnectionNAssumption DEF TablesOK
<1>2. CASE s.index[e] = InvalidIndex
  <2>1. ~ s.active[e]
    BY <1>1, <1>2 DEF TablesOK, TableOK, SelectType, InvalidIndex
  <2>2. t = [s EXCEPT !.active[e] = FALSE]
    BY <1>2 DEF DelEvent
  <2>3. t = s
    BY <1>1, <2>1, <2>2 DEF SelectType
  <2> QED BY <2>1, <2>3
<1>3. CASE s.index[e] # InvalidIndex
  <2>1. ConnectionOf(e) \in Connections /\ KindOf(e) \in Kinds
    BY EventParts
  <2>2. f \in Fds /\ f \in Nat
    BY <2>1, FdsAssumption DEF IsOpen, PoolType
  <2>3. EventDeleted(t, s, e, f)
    BY <1>1, <1>3, <2>2, DelEventTable DEF TablesOK
  <2> HIDE DEF t, f
  <2>4. \A d \in Events : t.active[d] <=> s.active[d] /\ d # e
    BY <2>3 DEF EventDeleted
  <2>5. WatchedAreOpen(t, p)
    BY <2>4 DEF TablesOK, WatchedAreOpen
  <2>6. \A c \in Connections : IsOpen(p, c) /\ p.fd[c] = f => c = ConnectionOf(e)
    BY <2>1 DEF TablesOK, FdsDistinct, f
  <2>7. MasterSetsOK(t, p)
    <3> SUFFICES ASSUME NEW k \in Kinds
                 PROVE  t.master[k] = {p.fd[c] : c \in {x \in Connections : t.active[<<x, k>>]}}
      BY DEF MasterSetsOK
    <3>1. s.master[k] = {p.fd[c] : c \in {x \in Connections : s.active[<<x, k>>]}}
      BY DEF TablesOK, MasterSetsOK
    <3>2. \A x \in Connections : s.active[<<x, k>>] => IsOpen(p, x)
      BY EventParts DEF TablesOK, WatchedAreOpen
    <3>3. t.master[k] = IF k = KindOf(e) THEN s.master[k] \ {f} ELSE s.master[k]
      BY <2>3 DEF EventDeleted
    <3>4. \A x \in Connections : t.active[<<x, k>>] <=>
             s.active[<<x, k>>] /\ ~ (k = KindOf(e) /\ x = ConnectionOf(e))
      BY <2>4, EventParts
    <3>5. \A x \in Connections : s.active[<<x, k>>] => (p.fd[x] = f <=> x = ConnectionOf(e))
      BY <2>6, <3>2 DEF f
    <3> QED BY <3>1, <3>3, <3>4, <3>5
  <2>8. MaxFdOK(t, p)
    <3> SUFFICES ASSUME t.max_fd # NoFd
                 PROVE  /\ \E d \in Events : t.active[d] /\ p.fd[ConnectionOf(d)] = t.max_fd
                        /\ \A d \in Events : t.active[d] => p.fd[ConnectionOf(d)] =< t.max_fd
      BY DEF MaxFdOK
    <3>1. t.max_fd = s.max_fd /\ s.max_fd # f /\ s.max_fd # NoFd
      BY <2>3 DEF EventDeleted
    <3>2. PICK d \in Events : s.active[d] /\ p.fd[ConnectionOf(d)] = s.max_fd
      BY <3>1 DEF TablesOK, MaxFdOK
    <3>3. \A x \in Events : s.active[x] => p.fd[ConnectionOf(x)] =< s.max_fd
      BY <3>1 DEF TablesOK, MaxFdOK
    <3>4. d # e
      BY <3>1, <3>2 DEF f
    <3> QED BY <2>4, <3>1, <3>2, <3>3, <3>4
  <2>9. TablesOK(t, p)
    BY <2>3, <2>5, <2>7, <2>8 DEF EventDeleted, TablesOK
  <2>10. \A d \in Events : d # e => t.active[d] = s.active[d]
    BY <1>1, <2>3, <2>4 DEF SelectType, EventDeleted
  <2> QED BY <2>4, <2>9, <2>10 DEF t, f
<1> QED BY <1>2, <1>3

(* Closing an open connection deletes both its events.                       *)
LEMMA StopWatchingOK ==
    ASSUME NEW s, NEW p \in PoolType, TablesOK(s, p), NEW c \in Connections
    PROVE  LET t == StopWatching(s, c, p) IN
           /\ TablesOK(t, p)
           /\ \A e \in EventsOf(c) : ~ t.active[e]
<1> DEFINE r == DelIfActive(s, ReadEvent(c), p.fd[c])
           t == DelIfActive(r, WriteEvent(c), p.fd[c])
<1>1. CASE ~ IsOpen(p, c)
  <2>1. StopWatching(s, c, p) = s
    BY <1>1 DEF StopWatching
  <2>2. \A e \in EventsOf(c) : ~ s.active[e]
    BY <1>1, EventsOfSlot DEF EventsOf, TablesOK, WatchedAreOpen
  <2> QED BY <2>1, <2>2
<1>2. CASE IsOpen(p, c)
  <2>1. TablesOK(r, p) /\ ~ r.active[ReadEvent(c)]
    BY <1>2, EventsOfSlot, DelEventOK DEF DelIfActive
  <2>2. /\ TablesOK(t, p)
        /\ ~ t.active[WriteEvent(c)]
        /\ t.active[ReadEvent(c)] = r.active[ReadEvent(c)]
    <3> HIDE DEF r
    <3> QED BY <1>2, <2>1, EventsOfSlot, DelEventOK DEF DelIfActive
  <2>3. StopWatching(s, c, p) = t
    BY <1>2 DEF StopWatching
  <2> HIDE DEF t, r
  <2> QED BY <2>1, <2>2, <2>3 DEF EventsOf
<1> QED BY <1>1, <1>2

(* A connection none of whose events is watched may be closed.               *)
LEMMA ClosingKeepsTables ==
    ASSUME NEW s, NEW p \in PoolType, TablesOK(s, p), NEW c \in Connections,
           \A e \in EventsOf(c) : ~ s.active[e]
    PROVE  TablesOK(s, CloseAccepted(p, c))
<1> DEFINE q == CloseAccepted(p, c)
<1>1. q.fd = [p.fd EXCEPT ![c] = NoFd]
  BY DEF CloseAccepted, FreeConnection
<1>2. \A x \in Connections : q.fd[x] = IF x = c THEN NoFd ELSE p.fd[x]
  BY <1>1 DEF PoolType
<1> HIDE DEF q
<1>3. \A e \in Events : s.active[e] =>
         ConnectionOf(e) \in Connections /\ ConnectionOf(e) # c
  BY EventsOfSlot, EventParts
<1>4. \A e \in Events : s.active[e] => q.fd[ConnectionOf(e)] = p.fd[ConnectionOf(e)]
  BY <1>2, <1>3
<1>5. FdsDistinct(q)
  BY <1>2 DEF TablesOK, FdsDistinct, IsOpen
<1>6. WatchedAreOpen(s, q)
  BY <1>4 DEF TablesOK, WatchedAreOpen, IsOpen
<1>7. MasterSetsOK(s, q)
  <2> SUFFICES ASSUME NEW k \in Kinds
               PROVE  s.master[k] = {q.fd[x] : x \in {y \in Connections : s.active[<<y, k>>]}}
    BY DEF MasterSetsOK
  <2>1. s.master[k] = {p.fd[x] : x \in {y \in Connections : s.active[<<y, k>>]}}
    BY DEF TablesOK, MasterSetsOK
  <2>2. \A x \in Connections : s.active[<<x, k>>] => q.fd[x] = p.fd[x]
    BY <1>4, EventParts
  <2> QED BY <2>1, <2>2
<1>8. MaxFdOK(s, q)
  BY <1>4 DEF TablesOK, MaxFdOK
<1> QED BY <1>5, <1>6, <1>7, <1>8 DEF TablesOK, q

(* A slot that is handed out has no event left from its last connection.     *)
LEMMA GettingKeepsTables ==
    ASSUME NEW s, NEW p, PoolOK(p), TablesOK(s, p), CanGet(p),
           NEW f \in Fds, f \notin OpenFds(p)
    PROVE  TablesOK(ClearEvents(s, p.free_connections), GetConnection(p, f))
<1> DEFINE c == p.free_connections
           q == GetConnection(p, f)
<1>1. p \in PoolType /\ s \in SelectType
  BY DEF PoolOK, TablesOK
<1>2. c \in Connections /\ ~ IsOpen(p, c)
  BY HeadIsFree
<1>3. q.fd = [p.fd EXCEPT ![c] = f]
  BY DEF GetConnection
<1>4. \A x \in Connections : q.fd[x] = IF x = c THEN f ELSE p.fd[x]
  BY <1>1, <1>3 DEF PoolType
<1> HIDE DEF q, c
<1>5. \A e \in Events : s.active[e] =>
         ConnectionOf(e) \in Connections /\ ConnectionOf(e) # c
  BY <1>2, EventParts DEF TablesOK, WatchedAreOpen
<1>6. ClearEvents(s, c) = s
  <2>1. \A e \in EventsOf(c) : e \in Events /\ ~ s.active[e] /\ s.index[e] = InvalidIndex
    BY <1>2, <1>5, EventsOfSlot DEF EventsOf, TablesOK, TableOK
  <2>2. [s.active EXCEPT ![ReadEvent(c)] = FALSE, ![WriteEvent(c)] = FALSE] = s.active
    BY <1>1, <2>1 DEF SelectType, EventsOf
  <2>3. [s.index EXCEPT ![ReadEvent(c)] = InvalidIndex, ![WriteEvent(c)] = InvalidIndex] = s.index
    BY <1>1, <2>1 DEF SelectType, EventsOf
  <2> QED BY <1>1, <2>2, <2>3 DEF ClearEvents, SelectType
<1>7. \A e \in Events : s.active[e] => q.fd[ConnectionOf(e)] = p.fd[ConnectionOf(e)]
  BY <1>4, <1>5
<1>8. FdsDistinct(q)
  <2>1. \A x \in Connections : IsOpen(p, x) => p.fd[x] # f
    BY DEF OpenFds
  <2>2. f # NoFd
    BY FdsAssumption DEF NoFd
  <2> QED BY <1>2, <1>4, <2>1, <2>2 DEF TablesOK, FdsDistinct, IsOpen
<1>9. WatchedAreOpen(s, q)
  BY <1>7 DEF TablesOK, WatchedAreOpen, IsOpen
<1>10. MasterSetsOK(s, q)
  <2> SUFFICES ASSUME NEW k \in Kinds
               PROVE  s.master[k] = {q.fd[x] : x \in {y \in Connections : s.active[<<y, k>>]}}
    BY DEF MasterSetsOK
  <2>1. s.master[k] = {p.fd[x] : x \in {y \in Connections : s.active[<<y, k>>]}}
    BY DEF TablesOK, MasterSetsOK
  <2>2. \A x \in Connections : s.active[<<x, k>>] => q.fd[x] = p.fd[x]
    BY <1>7, EventParts
  <2> QED BY <2>1, <2>2
<1>11. MaxFdOK(s, q)
  BY <1>7 DEF TablesOK, MaxFdOK
<1> QED BY <1>6, <1>8, <1>9, <1>10, <1>11 DEF TablesOK, q, c

-----------------------------------------------------------------------------
(* What recomputing max_fd does: when it was invalid, it becomes the highest *)
(* descriptor of a watched event; nothing else changes.                      *)
Recomputed(t, s, p) ==
    /\ t \in SelectType
    /\ t.nevents = s.nevents /\ t.event_index = s.event_index
    /\ t.active = s.active /\ t.index = s.index /\ t.master = s.master
    /\ s.max_fd # NoFd => t.max_fd = s.max_fd
    /\ s.max_fd = NoFd =>
          /\ \A e \in Events : s.active[e] => p.fd[ConnectionOf(e)] =< t.max_fd
          /\ t.max_fd # NoFd =>
                \E e \in Events : s.active[e] /\ p.fd[ConnectionOf(e)] = t.max_fd

LEMMA RecomputeMaxFdTable ==
    ASSUME NEW s \in SelectType, TableOK(s), NEW p \in PoolType
    PROVE  Recomputed(RecomputeMaxFd(s, p), s, p)
<1> DEFINE F == {NoFd} \cup {p.fd[ConnectionOf(e)] : e \in Watched(s)}
           t == RecomputeMaxFd(s, p)
<1>1. s.nevents \in Nat
  BY ConnectionNAssumption DEF SelectType
<1>2. CASE s.max_fd # NoFd
  <2>1. t = s
    BY <1>1, <1>2 DEF RecomputeMaxFd, SelectType
  <2> QED BY <1>2, <2>1 DEF Recomputed
<1>3. CASE s.max_fd = NoFd
  <2>1. \A e : e \in Watched(s) <=> e \in Events /\ s.active[e]
    <3>1. \A e \in Watched(s) : e \in Events /\ s.active[e]
      BY DEF Watched, TableOK
    <3>2. \A e \in Events : s.active[e] => e \in Watched(s)
      BY DEF Watched, TableOK
    <3> QED BY <3>1, <3>2
  <2>2. F \in SUBSET (Fds \cup {NoFd}) /\ F \in SUBSET Int /\ F # {}
    <3>1. \A c \in Connections : p.fd[c] \in Fds \cup {NoFd}
      BY DEF PoolType
    <3>2. Fds \cup {NoFd} \subseteq Int
      BY FdsAssumption DEF NoFd
    <3>3. \A e \in Watched(s) : p.fd[ConnectionOf(e)] \in Fds \cup {NoFd}
      BY <2>1, <3>1, EventParts
    <3>4. F \subseteq Fds \cup {NoFd}
      BY <3>3
    <3> QED BY <3>2, <3>4
  <2>3. IsFiniteSet(F)
    <3> DEFINE g == [c \in Connections |-> p.fd[c]]
               G == {g[c] : c \in Connections}
    <3>1. IsFiniteSet(Connections)
      BY FS_Interval, ConnectionNAssumption DEF Connections
    <3>2. g \in Surjection(Connections, G)
      BY DEF Surjection
    <3>3. IsFiniteSet(G)
      <4> HIDE DEF g, G
      <4> QED BY <3>1, <3>2, FS_Surjection
    <3>4. IsFiniteSet(G \cup {NoFd})
      BY <3>3, FS_AddElement
    <3>5. F \subseteq G \cup {NoFd}
      BY <2>1, EventParts
    <3> HIDE DEF F, G
    <3> QED BY <3>4, <3>5, FS_Subset
  <2> HIDE DEF F
  <2>4. Max(F) \in F /\ \A y \in F : Max(F) >= y
    BY <2>2, <2>3, FiniteMax
  <2>5. t = [s EXCEPT !.max_fd = Max(F)]
    BY <1>3 DEF RecomputeMaxFd, F
  <2>6. t \in SelectType
    BY <1>1, <2>2, <2>4, <2>5 DEF SelectType
  <2>7. /\ t.max_fd = Max(F)
        /\ t.nevents = s.nevents /\ t.event_index = s.event_index
        /\ t.active = s.active /\ t.index = s.index /\ t.master = s.master
    BY <1>1, <2>5 DEF SelectType
  <2> HIDE DEF t
  <2>8. \A x \in Events : s.active[x] => p.fd[ConnectionOf(x)] =< t.max_fd
    <3>1. \A x \in Events : s.active[x] => p.fd[ConnectionOf(x)] \in F
      BY <2>1 DEF F
    <3> QED BY <2>2, <2>4, <2>7, <3>1
  <2>9. ASSUME t.max_fd # NoFd
        PROVE  \E d \in Events : s.active[d] /\ p.fd[ConnectionOf(d)] = t.max_fd
    <3>1. PICK d \in Watched(s) : t.max_fd = p.fd[ConnectionOf(d)]
      BY <2>4, <2>7, <2>9 DEF F
    <3> QED BY <2>1, <3>1
  <2> QED BY <1>3, <2>6, <2>7, <2>8, <2>9 DEF Recomputed, t
<1> QED BY <1>2, <1>3

(* So that the tables stay in agreement.                                     *)
LEMMA RecomputeMaxFdOK ==
    ASSUME NEW s, NEW p \in PoolType, TablesOK(s, p)
    PROVE  TablesOK(RecomputeMaxFd(s, p), p)
<1> DEFINE t == RecomputeMaxFd(s, p)
<1>1. Recomputed(t, s, p)
  BY RecomputeMaxFdTable DEF TablesOK
<1> HIDE DEF t
<1>2. MaxFdOK(t, p)
  BY <1>1 DEF Recomputed, TablesOK, MaxFdOK
<1>3. TableOK(t) /\ WatchedAreOpen(t, p) /\ MasterSetsOK(t, p)
  BY <1>1 DEF Recomputed, TablesOK, TableOK, WatchedAreOpen, MasterSetsOK
<1> QED BY <1>1, <1>2, <1>3 DEF Recomputed, TablesOK, t

(* Repairing the sets drops no descriptor, as all of them are open.          *)
LEMMA AfterSelectOK ==
    ASSUME NEW s, NEW p \in PoolType, TablesOK(s, p), NEW ready
    PROVE  TablesOK(AfterSelect(s, p, ready, OpenFds(p)), p)
<1> DEFINE t == RepairFdSets(s, OpenFds(p))
<1>1. s \in SelectType
  BY DEF TablesOK
<1>2. \A k \in Kinds : s.master[k] \subseteq OpenFds(p)
  <2> SUFFICES ASSUME NEW k \in Kinds PROVE s.master[k] \subseteq OpenFds(p)
    OBVIOUS
  <2>1. s.master[k] = {p.fd[c] : c \in {x \in Connections : s.active[<<x, k>>]}}
    BY DEF TablesOK, MasterSetsOK
  <2>2. \A x \in Connections : s.active[<<x, k>>] => IsOpen(p, x)
    BY EventParts DEF TablesOK, WatchedAreOpen
  <2> QED BY <2>1, <2>2 DEF OpenFds
<1>3. t.master = s.master
  BY <1>1, <1>2 DEF RepairFdSets, SelectType
<1>4. /\ t.max_fd = NoFd /\ t.nevents = s.nevents /\ t.event_index = s.event_index
      /\ t.active = s.active /\ t.index = s.index
  BY DEF RepairFdSets
<1>5. t \in SelectType
  BY <1>1, <1>3 DEF RepairFdSets, SelectType
<1> HIDE DEF t
<1>6. TablesOK(t, p)
  <2>1. TableOK(t) /\ WatchedAreOpen(t, p) /\ MasterSetsOK(t, p) /\ MaxFdOK(t, p)
    BY <1>3, <1>4 DEF TablesOK, TableOK, WatchedAreOpen, MasterSetsOK, MaxFdOK
  <2> QED BY <1>5, <2>1 DEF TablesOK
<1> QED BY <1>6 DEF AfterSelect, t

-----------------------------------------------------------------------------
(* The tables are empty to begin with.                                       *)
LEMMA InitialSelectOK == TablesOK(InitialSelect, InitialPool)
<1>1. InitialSelect \in SelectType
  BY ConnectionNAssumption DEF InitialSelect, SelectType
<1>2. TableOK(InitialSelect)
  BY DEF InitialSelect, TableOK
<1>3. FdsDistinct(InitialPool)
  BY DEF InitialPool, FdsDistinct, IsOpen
<1>4. \A e \in Events : ~ InitialSelect.active[e]
  BY DEF InitialSelect
<1>5. MasterSetsOK(InitialSelect, InitialPool)
  <2>1. \A k \in Kinds, x \in Connections : ~ InitialSelect.active[<<x, k>>]
    BY <1>4, EventParts
  <2>2. \A k \in Kinds : InitialSelect.master[k] = {}
    BY DEF InitialSelect
  <2> QED BY <2>1, <2>2 DEF MasterSetsOK
<1>6. InitialSelect.max_fd = NoFd
  BY DEF InitialSelect
<1> QED BY <1>1, <1>2, <1>3, <1>4, <1>5, <1>6 DEF TablesOK, WatchedAreOpen, MaxFdOK

(* Every operation on the tables keeps them in agreement with the pool.      *)
LEMMA SelectStep ==
    ASSUME SelectIInv, [SelectNext]_<<pool, sel>>
    PROVE  SelectIInv'
<1>1. PoolOK(pool) /\ pool \in PoolType /\ TablesOK(sel, pool)
  BY DEF SelectIInv, PoolOK
<1>2. ASSUME NEW f \in Fds, NewConnection(f) PROVE SelectIInv'
  BY <1>1, <1>2, GetConnectionOK, GettingKeepsTables DEF NewConnection, Get, SelectIInv
<1>3. ASSUME NEW e \in Events, Watch(e) PROVE SelectIInv'
  BY <1>1, <1>3, AddEventOK DEF Watch, SelectIInv
<1>4. ASSUME NEW e \in Events, Ignore(e) PROVE SelectIInv'
  BY <1>1, <1>4, DelEventOK DEF Ignore, SelectIInv
<1>5. ASSUME NEW c \in Connections, AbandonConnection(c) PROVE SelectIInv'
  BY <1>1, <1>5, CloseAcceptedOK, ClosingKeepsTables DEF AbandonConnection, Abandon, SelectIInv
<1>6. ASSUME NEW c \in Connections, ShutConnection(c) PROVE SelectIInv'
  <2> DEFINE t == StopWatching(sel, c, pool)
  <2>1. TablesOK(t, pool) /\ \A e \in EventsOf(c) : ~ t.active[e]
    BY <1>1, StopWatchingOK
  <2>2. TablesOK(t, CloseConnection(pool, c))
    <3> HIDE DEF t
    <3> QED BY <1>1, <2>1, ClosingKeepsTables DEF CloseConnection
  <2> QED BY <1>1, <1>6, <2>2, CloseConnectionOK DEF ShutConnection, Close, SelectIInv
<1>7. CASE ProcessEvents
  <2>1. TablesOK(RecomputeMaxFd(sel, pool), pool)
    BY <1>1, RecomputeMaxFdOK
  <2>2. \A ready : TablesOK(AfterSelect(RecomputeMaxFd(sel, pool), pool, ready, OpenFds(pool)), pool)
    BY <1>1, <2>1, AfterSelectOK
  <2> QED BY <1>1, <1>7, <2>2 DEF ProcessEvents, SelectIInv
<1>8. CASE UNCHANGED <<pool, sel>>
  BY <1>8 DEF SelectIInv
<1> QED BY <1>2, <1>3, <1>4, <1>5, <1>6, <1>7, <1>8 DEF SelectNext

(* The index, the sets and max_fd agree with the open connections in every   *)
(* state, for any number of slots and any descriptors.                       *)
THEOREM SelectInvariant == SelectSpec => []SelectIInv
<1>1. SelectInit => SelectIInv
  BY InitialPoolOK, InitialSelectOK DEF SelectInit, PoolInit, SelectIInv
<1>2. SelectIInv /\ [SelectNext]_<<pool, sel>> => SelectIInv'
  BY SelectStep
<1> QED BY <1>1, <1>2, PTL DEF SelectSpec

(* No index leaves the array spy_select_init allocated, and no descriptor    *)
(* the sets.                                                                 *)
THEOREM SelectTypes == SelectSpec => []SelectTypeOK
<1>1. SelectIInv => SelectTypeOK
  BY DEF SelectIInv, PoolOK, TablesOK, SelectTypeOK
<1> QED BY <1>1, SelectInvariant, PTL

(* spy_select_del_event, which moves an entry of the index, keeps the index  *)
(* and the events in agreement.                                              *)
THEOREM SelectTable == SelectSpec => []SelectTableOK
<1>1. SelectIInv => SelectTableOK
  BY DEF SelectIInv, TablesOK, SelectTableOK
<1> QED BY <1>1, SelectInvariant, PTL

(* The master sets hold the descriptors of the active events, through every  *)
(* closing, failed call and repair.                                          *)
THEOREM SelectMasterSets == SelectSpec => []SelectMasterSetsOK
<1>1. SelectIInv => SelectMasterSetsOK
  BY DEF SelectIInv, TablesOK, SelectMasterSetsOK
<1> QED BY <1>1, SelectInvariant, PTL

(* max_fd, invalidated here and recomputed there, is never too low when it   *)
(* is used.                                                                  *)
THEOREM SelectMaxFd == SelectSpec => []SelectMaxFdOK
<1>1. SelectIInv => SelectMaxFdOK
  BY DEF SelectIInv, TablesOK, SelectMaxFdOK
<1> QED BY <1>1, SelectInvariant, PTL
=============================================================================
