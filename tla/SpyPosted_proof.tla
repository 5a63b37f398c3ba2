-------------------------- MODULE SpyPosted_proof --------------------------
(* Proofs about the links of the posted queues, for any number of slots.     *)
EXTENDS SpyPosted, TLAPS

(* The inductive invariant: the links and their type. The links need no      *)
(* strengthening, because the back pointer of an event says exactly which    *)
(* pointer has to be changed when it is taken out.                           *)
PostedOK(l) == l \in PostedType /\ LinksOK(l)

-----------------------------------------------------------------------------
\* A queue, an event and the NULL pointer are three different things.
LEMMA PlacesApart ==
    /\ Queues \cap Events = {}
    /\ Null \notin Places
    /\ Places = Queues \cup Events
BY QueuesAssumption, NullAssumption DEF Places

\* The two events of a slot.
LEMMA EventsOfAreEvents ==
    ASSUME NEW c \in Connections
    PROVE  ReadEvent(c) \in Events /\ WriteEvent(c) \in Events
BY DEF Events, Kinds, ReadEvent, WriteEvent

(* Posting links the event in front of its queue, or leaves it where it is.  *)
LEMMA PostEventOK ==
    ASSUME NEW l, PostedOK(l), NEW e \in Events, NEW q \in Queues
    PROVE  PostedOK(PostEvent(l, e, q))
<1> DEFINE first == l.head[q]
           m     == PostEvent(l, e, q)
<1>1. l \in PostedType
  BY DEF PostedOK
<1>2. CASE IsPosted(l, e)
  BY <1>2 DEF PostEvent
<1>3. CASE ~ IsPosted(l, e)
  <2>1. l.prev[e] = Null
    BY <1>3 DEF IsPosted
  <2>2. /\ m.head = [l.head EXCEPT ![q] = e]
        /\ m.next = [l.next EXCEPT ![e] = first]
        /\ m.prev = [x \in Events |-> IF x = e THEN q
                                      ELSE IF x = first THEN e ELSE l.prev[x]]
    BY <1>3 DEF PostEvent
  <2>3. m \in PostedType
    <3>1. first \in Events \cup {Null}
      BY <1>1 DEF PostedType
    <3>2. m.prev \in [Events -> Places \cup {Null}]
      BY <1>1, <2>2, PlacesApart DEF PostedType
    <3>3. m = [head |-> m.head, next |-> m.next, prev |-> m.prev]
      BY <1>3 DEF PostEvent
    <3>4. m.head \in [Queues -> Events \cup {Null}] /\ m.next \in [Events -> Events \cup {Null}]
      BY <1>1, <2>2, <3>1 DEF PostedType
    <3> HIDE DEF m
    <3> QED BY <3>2, <3>3, <3>4 DEF PostedType
  <2> HIDE DEF m, first
  <2>4. \A p \in Places : At(m, p) = IF p = q THEN e ELSE IF p = e THEN first ELSE At(l, p)
    BY <1>1, <2>2, PlacesApart DEF At, PostedType
  <2>5. \A x \in Events : m.prev[x] = IF x = e THEN q ELSE IF x = first THEN e ELSE l.prev[x]
    BY <2>2
  <2>6. first # Null => first \in Events /\ first # e /\ l.prev[first] = q
    <3>1. first \in Events \cup {Null}
      BY <1>1 DEF PostedType, first
    <3>2. first # Null => l.prev[first] = q
      BY PlacesApart DEF PostedOK, LinksOK, At, first
    <3> QED BY <2>1, <3>1, <3>2, PlacesApart
  <2>7. ASSUME NEW p \in Places, p \in Queues \/ IsPosted(m, p), At(m, p) # Null
        PROVE  m.prev[At(m, p)] = p
    <3>1. CASE p = q
      BY <2>4, <2>5, <3>1
    <3>2. CASE p # q /\ p = e
      BY <2>4, <2>5, <2>6, <2>7, <3>2
    <3>3. CASE p # q /\ p # e
      <4>1. At(m, p) = At(l, p) /\ At(l, p) \in Events
        BY <1>1, <2>4, <2>7, <3>3, PlacesApart DEF At, PostedType
      <4>2. p \in Queues \/ IsPosted(l, p)
        <5>1. CASE p \in Queues
          BY <5>1
        <5>2. CASE p \in Events
          BY <2>5, <2>6, <2>7, <3>3, <5>2, PlacesApart DEF IsPosted
        <5> QED BY <5>1, <5>2, PlacesApart
      <4>3. l.prev[At(l, p)] = p
        BY <2>7, <4>1, <4>2 DEF PostedOK, LinksOK
      <4>4. At(l, p) # e /\ At(l, p) # first
        BY <2>1, <2>6, <3>3, <4>1, <4>3, PlacesApart, NullAssumption
      <4> QED BY <2>5, <4>1, <4>3, <4>4
    <3> QED BY <3>1, <3>2, <3>3
  <2>8. ASSUME NEW x \in Events, IsPosted(m, x)
        PROVE  /\ At(m, m.prev[x]) = x
               /\ m.prev[x] \in Queues \/ IsPosted(m, m.prev[x])
    <3>1. CASE x = e
      BY <2>4, <2>5, <3>1, PlacesApart
    <3>2. CASE x # e /\ x = first
      BY <2>4, <2>5, <3>2, PlacesApart DEF IsPosted
    <3>3. CASE x # e /\ x # first
      <4> DEFINE z == l.prev[x]
      <4>1. m.prev[x] = z /\ z # Null
        BY <2>5, <2>8, <3>3 DEF IsPosted
      <4>2. At(l, z) = x /\ (z \in Queues \/ IsPosted(l, z)) /\ z \in Places
        <5>1. IsPosted(l, x)
          BY <4>1 DEF IsPosted
        <5> QED BY <1>1, <4>1, <5>1 DEF PostedOK, LinksOK, PostedType
      <4> HIDE DEF z
      <4>3. z # q
        BY <3>3, <4>2 DEF At, first
      <4>4. z # e
        BY <1>3, <4>2, PlacesApart
      <4>5. At(m, z) = x
        BY <2>4, <4>2, <4>3, <4>4
      <4>6. z \in Queues \/ IsPosted(m, z)
        BY <2>5, <4>2, PlacesApart DEF IsPosted
      <4> QED BY <4>1, <4>5, <4>6
    <3> QED BY <3>1, <3>2, <3>3
  <2>9. LinksOK(m)
    BY <2>7, <2>8 DEF LinksOK
  <2> QED BY <2>3, <2>9 DEF PostedOK, m
<1> QED BY <1>2, <1>3

(* Taking an event out of its queue joins its neighbours.                    *)
LEMMA DeletePostedOK ==
    ASSUME NEW l, PostedOK(l), NEW e \in Events, IsPosted(l, e)
    PROVE  PostedOK(DeletePosted(l, e))
<1> DEFINE pp   == l.prev[e]
           rest == l.next[e]
           k    == Store(l, pp, rest)
           m    == DeletePosted(l, e)
<1>1. l \in PostedType
  BY DEF PostedOK
<1>2. /\ pp \in Places /\ pp # Null /\ rest \in Events \cup {Null}
      /\ At(l, pp) = e /\ (pp \in Queues \/ IsPosted(l, pp))
      /\ At(l, e) = rest
  BY <1>1, PlacesApart DEF IsPosted, PostedOK, LinksOK, PostedType, At
<1>3. k \in PostedType /\ k.prev = l.prev
  BY <1>1, <1>2, PlacesApart DEF Store, PostedType
<1>4. \A p \in Places : At(k, p) = IF p = pp THEN rest ELSE At(l, p)
  BY <1>1, <1>2, PlacesApart DEF Store, At, PostedType
<1> HIDE DEF k
<1>5. /\ m.head = k.head /\ m.next = k.next
      /\ m.prev = [x \in Events |-> IF x = e THEN Null
                                    ELSE IF x = rest THEN pp ELSE l.prev[x]]
  BY <1>3 DEF DeletePosted, k, PostedType
<1>6. m \in PostedType
  <2>1. m = [k EXCEPT !.prev = [x \in Events |-> IF x = e THEN Null
                                    ELSE IF x = rest THEN pp ELSE k.prev[x]]]
    BY DEF DeletePosted, k
  <2>2. [x \in Events |-> IF x = e THEN Null ELSE IF x = rest THEN pp ELSE k.prev[x]]
            \in [Events -> Places \cup {Null}]
    BY <1>2, <1>3 DEF PostedType
  <2> QED BY <1>3, <2>1, <2>2 DEF PostedType
<1> HIDE DEF m, pp, rest
<1>7. \A p \in Places : At(m, p) = IF p = pp THEN rest ELSE At(l, p)
  BY <1>4, <1>5 DEF At
<1>8. \A x \in Events : m.prev[x] = IF x = e THEN Null ELSE IF x = rest THEN pp ELSE l.prev[x]
  BY <1>5
<1>9. rest # Null => l.prev[rest] = e
  BY <1>2, PlacesApart DEF PostedOK, LinksOK
<1>10. ASSUME NEW p \in Places, p \in Queues \/ IsPosted(m, p), At(m, p) # Null
       PROVE  m.prev[At(m, p)] = p
  <2>1. p # e
    BY <1>8, <1>10, PlacesApart DEF IsPosted
  <2>2. CASE p = pp
    <3>1. At(m, p) = rest /\ rest \in Events
      BY <1>2, <1>7, <1>10, <2>2
    <3>2. rest # e
      BY <1>9, <2>1, <2>2, <3>1, NullAssumption DEF pp
    <3> QED BY <1>8, <2>2, <3>1, <3>2
  <2>3. CASE p # pp
    <3>1. At(m, p) = At(l, p) /\ At(l, p) \in Events
      BY <1>1, <1>7, <1>10, <2>3, PlacesApart DEF At, PostedType
    <3>2. p \in Queues \/ IsPosted(l, p)
      <4>1. CASE p \in Queues
        BY <4>1
      <4>2. CASE p \in Events
        <5>1. p = rest => l.prev[p] = e
          BY <1>9, <4>2, NullAssumption
        <5> QED BY <1>8, <1>10, <2>1, <4>2, <5>1, NullAssumption, PlacesApart DEF IsPosted
      <4> QED BY <4>1, <4>2, PlacesApart
    <3>3. l.prev[At(l, p)] = p
      BY <1>10, <3>1, <3>2 DEF PostedOK, LinksOK
    <3>4. At(l, p) # e /\ At(l, p) # rest
      BY <1>9, <2>1, <2>3, <3>1, <3>3, NullAssumption DEF pp
    <3> QED BY <1>8, <3>1, <3>3, <3>4
  <2> QED BY <2>2, <2>3
<1>11. ASSUME NEW x \in Events, IsPosted(m, x)
       PROVE  /\ At(m, m.prev[x]) = x
              /\ m.prev[x] \in Queues \/ IsPosted(m, m.prev[x])
  <2>1. x # e
    BY <1>8, <1>11 DEF IsPosted
  <2>2. CASE x = rest
    <3>1. m.prev[x] = pp /\ At(m, pp) = rest
      BY <1>2, <1>7, <1>8, <2>1, <2>2
    <3>2. pp # e
      BY <1>2, <2>1, <2>2
    <3>3. pp \in Queues \/ IsPosted(m, pp)
      BY <1>2, <1>8, <3>2, PlacesApart DEF IsPosted
    <3> QED BY <2>2, <3>1, <3>3
  <2>3. CASE x # rest
    <3> DEFINE z == l.prev[x]
    <3>1. m.prev[x] = z /\ z # Null
      BY <1>8, <1>11, <2>1, <2>3 DEF IsPosted
    <3>2. At(l, z) = x /\ (z \in Queues \/ IsPosted(l, z)) /\ z \in Places
      <4>1. IsPosted(l, x)
        BY <3>1 DEF IsPosted
      <4> QED BY <1>1, <3>1, <4>1 DEF PostedOK, LinksOK, PostedType
    <3> HIDE DEF z
    <3>3. z # pp /\ z # e
      BY <1>2, <2>1, <2>3, <3>2
    <3>4. At(m, z) = x
      BY <1>7, <3>2, <3>3
    <3>5. z \in Queues \/ IsPosted(m, z)
      BY <1>2, <1>8, <3>2, <3>3, PlacesApart DEF IsPosted
    <3> QED BY <3>1, <3>4, <3>5
  <2> QED BY <2>2, <2>3
<1>12. LinksOK(m)
  BY <1>10, <1>11 DEF LinksOK
<1> QED BY <1>6, <1>12 DEF PostedOK, m

(* Clearing the links of a slot none of whose events is posted changes no    *)
(* queue.                                                                    *)
LEMMA ClearLinksOK ==
    ASSUME NEW l, PostedOK(l), NEW c \in Connections,
           \A e \in EventsOf(c) : ~ IsPosted(l, e)
    PROVE  PostedOK(ClearLinks(l, c))
<1> DEFINE m == ClearLinks(l, c)
<1>1. l \in PostedType
  BY DEF PostedOK
<1>2. \A e \in EventsOf(c) : e \in Events /\ l.prev[e] = Null
  BY EventsOfAreEvents DEF EventsOf, IsPosted
<1>3. m \in PostedType
  BY <1>1 DEF ClearLinks, PostedType
<1>4. \A x \in Events : m.prev[x] = l.prev[x]
  BY <1>1, <1>2 DEF ClearLinks, PostedType, EventsOf
<1>5. \A p \in Places : p \notin EventsOf(c) => At(m, p) = At(l, p)
  BY <1>1, PlacesApart DEF ClearLinks, At, PostedType, EventsOf
<1> HIDE DEF m
<1>6. \A p \in Places : p \in Queues \/ IsPosted(l, p) => p \notin EventsOf(c)
  BY <1>2, PlacesApart DEF IsPosted
<1>7. \A x \in Events : IsPosted(m, x) <=> IsPosted(l, x)
  BY <1>4 DEF IsPosted
<1>8. ASSUME NEW p \in Places, p \in Queues \/ IsPosted(m, p), At(m, p) # Null
      PROVE  m.prev[At(m, p)] = p
  <2>1. p \in Queues \/ IsPosted(l, p)
    BY <1>7, <1>8, PlacesApart
  <2>2. At(m, p) = At(l, p) /\ At(l, p) \in Events
    BY <1>1, <1>5, <1>6, <1>8, <2>1, PlacesApart DEF At, PostedType
  <2> QED BY <1>4, <1>8, <2>1, <2>2 DEF PostedOK, LinksOK
<1>9. ASSUME NEW x \in Events, IsPosted(m, x)
      PROVE  /\ At(m, m.prev[x]) = x
             /\ m.prev[x] \in Queues \/ IsPosted(m, m.prev[x])
  <2> DEFINE z == l.prev[x]
  <2>1. m.prev[x] = z /\ IsPosted(l, x) /\ z # Null
    BY <1>4, <1>7, <1>9 DEF IsPosted
  <2>2. At(l, z) = x /\ (z \in Queues \/ IsPosted(l, z)) /\ z \in Places
    BY <1>1, <2>1 DEF PostedOK, LinksOK, PostedType
  <2> HIDE DEF z
  <2> QED BY <1>5, <1>6, <1>7, <2>1, <2>2, PlacesApart
<1>10. LinksOK(m)
  BY <1>8, <1>9 DEF LinksOK
<1> QED BY <1>3, <1>10 DEF PostedOK, m

-----------------------------------------------------------------------------
(* The links alone do not exclude events linked in a ring that no queue      *)
(* leads to. A queue ends at its head: any events that are posted have one   *)
(* among them that does not follow another of them.                          *)
EndsOK(l) ==
    \A S \in SUBSET Events :
        S # {} /\ (\A e \in S : IsPosted(l, e)) => \E e \in S : l.prev[e] \notin S

\* What posting does to the back pointers.
LEMMA PostEventPrev ==
    ASSUME NEW l, PostedOK(l), NEW e \in Events, NEW q \in Queues, ~ IsPosted(l, e),
           NEW x \in Events
    PROVE  /\ l.head[q] \in Events => l.prev[l.head[q]] = q
           /\ PostEvent(l, e, q).prev[x] =
                 IF x = e THEN q ELSE IF x = l.head[q] THEN e ELSE l.prev[x]
<1>1. q \in Places /\ At(l, q) = l.head[q]
  BY PlacesApart DEF At
<1>2. l.head[q] \in Events => l.prev[l.head[q]] = q
  BY <1>1, NullAssumption DEF PostedOK, LinksOK
<1> QED BY <1>2 DEF PostEvent

\* What taking an event out does to the back pointers.
LEMMA DeletePostedPrev ==
    ASSUME NEW l, PostedOK(l), NEW e \in Events, IsPosted(l, e), NEW x \in Events
    PROVE  /\ l.next[e] \in Events => l.prev[l.next[e]] = e
           /\ DeletePosted(l, e).prev[x] =
                 IF x = e THEN Null ELSE IF x = l.next[e] THEN l.prev[e] ELSE l.prev[x]
<1>1. e \in Places /\ At(l, e) = l.next[e]
  BY PlacesApart DEF At
<1>2. l.next[e] \in Events => l.prev[l.next[e]] = e
  BY <1>1, NullAssumption DEF PostedOK, LinksOK
<1>3. Store(l, l.prev[e], l.next[e]).prev = l.prev
  BY DEF Store, PostedOK, PostedType
<1>4. Store(l, l.prev[e], l.next[e]) \in [head : {Store(l, l.prev[e], l.next[e]).head},
                                         next : {Store(l, l.prev[e], l.next[e]).next},
                                         prev : {Store(l, l.prev[e], l.next[e]).prev}]
  BY DEF Store, PostedOK, PostedType
<1> QED BY <1>2, <1>3, <1>4 DEF DeletePosted

\* Clearing the links of a slot without posted events leaves the back pointers.
LEMMA ClearLinksPrev ==
    ASSUME NEW l, PostedOK(l), NEW c \in Connections,
           \A e \in EventsOf(c) : ~ IsPosted(l, e)
    PROVE  ClearLinks(l, c).prev = l.prev /\ ClearLinks(l, c).head = l.head
BY EventsOfAreEvents DEF ClearLinks, PostedOK, PostedType, EventsOf, IsPosted

(* The first event of a queue is posted there.                               *)
LEMMA HeadIsPosted ==
    ASSUME NEW l, PostedOK(l), NEW q \in Queues, l.head[q] # Null
    PROVE  l.head[q] \in Events /\ l.prev[l.head[q]] = q /\ IsPosted(l, l.head[q])
<1>1. q \in Places /\ At(l, q) = l.head[q]
  BY PlacesApart DEF At
<1>2. l.head[q] \in Events /\ l.prev[l.head[q]] = q
  BY <1>1 DEF PostedOK, LinksOK, PostedType
<1> QED BY <1>1, <1>2, PlacesApart DEF IsPosted

(* Once every queue is empty no event is posted.                             *)
LEMMA NothingPosted ==
    ASSUME NEW l, PostedOK(l), EndsOK(l), \A q \in Queues : l.head[q] = Null
    PROVE  \A e \in Events : ~ IsPosted(l, e)
<1> DEFINE S == {e \in Events : IsPosted(l, e)}
<1> SUFFICES ASSUME S # {} PROVE FALSE
  OBVIOUS
<1>1. PICK e \in S : l.prev[e] \notin S
  BY DEF EndsOK
<1>2. At(l, l.prev[e]) = e /\ (l.prev[e] \in Queues \/ IsPosted(l, l.prev[e]))
  BY <1>1 DEF PostedOK, LinksOK
<1>3. l.prev[e] \in Queues
  BY <1>1, <1>2 DEF PostedOK, PostedType, IsPosted, Places
<1> QED BY <1>1, <1>2, <1>3, NullAssumption DEF At

(* Posting an event lengthens a queue at its head.                           *)
LEMMA PostEventEnds ==
    ASSUME NEW l, PostedOK(l), EndsOK(l), NEW e \in Events, NEW q \in Queues
    PROVE  EndsOK(PostEvent(l, e, q))
<1>1. CASE IsPosted(l, e)
  BY <1>1 DEF PostEvent
<1>2. CASE ~ IsPosted(l, e)
  <2> DEFINE m == PostEvent(l, e, q)
             first == l.head[q]
  <2>1. \A x \in Events : m.prev[x] = IF x = e THEN q ELSE IF x = first THEN e ELSE l.prev[x]
    BY <1>2, PostEventPrev
  <2>2. first \in Events => l.prev[first] = q
    BY <1>2, PostEventPrev
  <2> HIDE DEF m, first
  <2> SUFFICES ASSUME NEW S \in SUBSET Events, S # {}, \A x \in S : IsPosted(m, x)
               PROVE  \E x \in S : m.prev[x] \notin S
    BY DEF EndsOK, m
  <2>3. CASE e \in S
    BY <2>1, <2>3, PlacesApart
  <2>4. CASE e \notin S
    <3>1. \A x \in S : IsPosted(l, x)
      BY <2>1, <2>2, <2>4, PlacesApart DEF IsPosted
    <3>2. PICK x \in S : l.prev[x] \notin S
      BY <3>1 DEF EndsOK
    <3> QED BY <2>1, <2>4, <3>2
  <2> QED BY <2>3, <2>4
<1> QED BY <1>1, <1>2

(* Taking an event out joins its neighbours, in the same order.              *)
LEMMA DeletePostedEnds ==
    ASSUME NEW l, PostedOK(l), EndsOK(l), NEW e \in Events, IsPosted(l, e)
    PROVE  EndsOK(DeletePosted(l, e))
<1> DEFINE m == DeletePosted(l, e)
           rest == l.next[e]
<1>1. \A x \in Events :
         m.prev[x] = IF x = e THEN Null ELSE IF x = rest THEN l.prev[e] ELSE l.prev[x]
  BY DeletePostedPrev
<1>2. rest \in Events => l.prev[rest] = e
  BY DeletePostedPrev
<1> HIDE DEF m, rest
<1> SUFFICES ASSUME NEW S \in SUBSET Events, S # {}, \A x \in S : IsPosted(m, x)
             PROVE  \E x \in S : m.prev[x] \notin S
  BY DEF EndsOK, m
<1>3. e \notin S
  BY <1>1 DEF IsPosted
<1>4. \A x \in S : IsPosted(l, x)
  BY <1>1, <1>2, NullAssumption DEF IsPosted
<1>5. CASE rest \in S
  <2>1. PICK x \in S \cup {e} : l.prev[x] \notin S \cup {e}
    BY <1>4 DEF EndsOK
  <2>2. CASE x = e
    BY <1>1, <1>3, <1>5, <2>1, <2>2
  <2>3. CASE x # e
    BY <1>1, <1>2, <1>5, <2>1, <2>3
  <2> QED BY <2>2, <2>3
<1>6. CASE rest \notin S
  <2>1. PICK x \in S : l.prev[x] \notin S
    BY <1>4 DEF EndsOK
  <2> QED BY <1>1, <1>3, <1>6, <2>1
<1> QED BY <1>5, <1>6

-----------------------------------------------------------------------------
\* Empty queues are well linked.
LEMMA EmptyQueuesOK == PostedOK(EmptyQueues) /\ EndsOK(EmptyQueues)
<1>1. EmptyQueues \in PostedType
  BY DEF EmptyQueues, PostedType
<1>2. \A p \in Places : At(EmptyQueues, p) = Null
  BY PlacesApart DEF EmptyQueues, At
<1>3. \A e \in Events : ~ IsPosted(EmptyQueues, e)
  BY DEF EmptyQueues, IsPosted
<1> QED BY <1>1, <1>2, <1>3 DEF PostedOK, LinksOK, EndsOK

\* Every operation keeps the queues well linked, and each with an end.
LEMMA PostedStep ==
    ASSUME PostedOK(posted), EndsOK(posted), [PostedNext]_posted
    PROVE  PostedOK(posted)' /\ EndsOK(posted)'
<1>1. ASSUME NEW q \in Queues, ProcessHead(q) PROVE PostedOK(posted)' /\ EndsOK(posted)'
  <2>1. posted.head[q] \in Events /\ IsPosted(posted, posted.head[q])
    BY <1>1, HeadIsPosted DEF ProcessHead
  <2> QED BY <1>1, <2>1, DeletePostedOK, DeletePostedEnds DEF ProcessHead
<1>2. ASSUME NEW q \in Queues, NEW e \in Events, Post(e, q)
      PROVE  PostedOK(posted)' /\ EndsOK(posted)'
  BY <1>2, PostEventOK, PostEventEnds DEF Post
<1>3. ASSUME NEW c \in Connections, Recycle(c) PROVE PostedOK(posted)' /\ EndsOK(posted)'
  BY <1>3, ClearLinksOK, ClearLinksPrev DEF Recycle, EndsOK, IsPosted
<1>4. CASE UNCHANGED posted
  BY <1>4
<1> QED BY <1>1, <1>2, <1>3, <1>4 DEF PostedNext

(* The queues stay well linked, whatever is posted, handled and recycled and *)
(* in whichever order: *(ev->prev) is always the pointer that points at ev.  *)
THEOREM LinksAlwaysOK == PostedSpec => [](PostedTypeOK /\ PostedLinksOK)
<1>1. PostedInit => PostedOK(posted) /\ EndsOK(posted)
  BY EmptyQueuesOK DEF PostedInit
<1>2. PostedOK(posted) /\ EndsOK(posted) /\ [PostedNext]_posted
        => PostedOK(posted)' /\ EndsOK(posted)'
  BY PostedStep
<1>3. PostedOK(posted) => PostedTypeOK /\ PostedLinksOK
  BY DEF PostedOK, PostedTypeOK, PostedLinksOK
<1> QED BY <1>1, <1>2, <1>3, PTL DEF PostedSpec

(* No posted event is out of reach: when spy_event_process_posted has emptied *)
(* the queues, no event believes that it is in one. (It would never be posted *)
(* again, as spy_post_event looks at ev->prev.)                               *)
THEOREM NoPostedEventIsLost ==
    PostedSpec => []( (\A q \in Queues : posted.head[q] = Null)
                        => \A e \in Events : ~ IsPosted(posted, e) )
<1>1. PostedInit => PostedOK(posted) /\ EndsOK(posted)
  BY EmptyQueuesOK DEF PostedInit
<1>2. PostedOK(posted) /\ EndsOK(posted) /\ [PostedNext]_posted
        => PostedOK(posted)' /\ EndsOK(posted)'
  BY PostedStep
<1>3. PostedOK(posted) /\ EndsOK(posted)
        => ((\A q \in Queues : posted.head[q] = Null) => \A e \in Events : ~ IsPosted(posted, e))
  BY NothingPosted
<1> QED BY <1>1, <1>2, <1>3, PTL DEF PostedSpec
=============================================================================
